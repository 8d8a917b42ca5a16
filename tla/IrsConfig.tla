----------------------------- MODULE IrsConfig -----------------------------
(***************************************************************************)
(* How irs-machine starts (irs-server: main.cpp, irs-config,               *)
(* irs_server_factory.cpp, the constructors of irs_server_impl.cpp and     *)
(* irs_memory.cpp): the command line names a key file, the key file has    *)
(* the settings of the server and of the memory, the server is made with   *)
(* a memory that finds or makes its directories, and it listens where the  *)
(* settings say, or the process ends.  Directories outlive the process,    *)
(* and the next start finds those that this one made.                      *)
(*                                                                         *)
(* Tokens of the command line and values of the key file are sequences of  *)
(* names, which is what a path is: "conf/irs.ini" is <<"conf", "irs.ini">>,*)
(* an absolute one starts with "/", and <<>> is the empty string.          *)
(***************************************************************************)
EXTENDS Integers, Sequences

CONSTANTS
    Names,          \* of which tokens and values consist
    CommandLines,   \* the arguments the program may be given
    Directories,    \* where it may be started
    Paths,          \* where there may be key files
    KeyFiles,       \* what they may hold: a value for a group and a key
    Number,         \* std::stoi of a value
    NotANumber,     \* where it throws
    Addresses,      \* the values that are addresses of this host
    Trees,          \* the directories there may be at the first start
    Barred,         \* where none can be made: there is a file, or no permission
    Lineless,       \* directories with a file that has no first line
    Overlong        \* directories whose index has a term of two bytes or more

Absolute(p) == p # <<>> /\ p[1] = "/"
Values == UNION {{file[k] : k \in DOMAIN file} : file \in KeyFiles}

\* A directory and those it is in.
Above(dir) == {SubSeq(dir, 1, n) : n \in 1 .. Len(dir)}

ASSUME InputsAssumption ==
    /\ CommandLines \subseteq Seq(Seq(Names))
    /\ Directories \subseteq Seq(Names) /\ \A d \in Directories : Absolute(d)
    /\ Paths \subseteq Seq(Names) /\ Paths \cap Directories = {}
    /\ \A p \in Paths : Absolute(p) /\ Len(p) > 1
    /\ \A file \in KeyFiles : \A k \in DOMAIN file : file[k] \in Seq(Names)
    /\ NotANumber \notin Int /\ Number \in [Values -> Int \cup {NotANumber}]
    /\ Addresses \subseteq Seq(Names)

ASSUME TreesAssumption ==
    /\ Barred \subseteq Seq(Names)
    /\ \A tree \in Trees :
         /\ tree \subseteq Seq(Names) /\ \A d \in tree : Above(d) \subseteq tree
         /\ Directories \subseteq tree /\ tree \cap Barred = {}
         /\ \A p \in Paths \cup Barred : Above(p) \ {p} \subseteq tree

ServerKeys == {"host", "port", "log_type", "log_file", "log_level"}

\* IrsServerFactory::GetKeys
LanguageKeys == {"lang_key_words_path", "lang_alpha_path"}
PathKeys == {"db_path"} \cup LanguageKeys

Keys == ServerKeys \cup PathKeys
GroupOf(key) == IF key \in ServerKeys THEN "irs-server" ELSE "irs-memory"

\* A key that is absent, a group that is, and a value that does not parse are
\* all the same to the reader: a null.
NoTable == [k \in {} |-> <<>>]

VARIABLES
    argv,           \* the command line
    cwd,            \* the directory the process was started in
    disk,           \* the key files: a path and what the file there holds
    pc,             \* what main does next
    configFile,     \* main's configFile
    config,         \* the table of irs_config
    server,         \* the settings the server was made with, if it was
    log,            \* where the server's log goes, and what of it
    port,           \* the port of the acceptor
    over,           \* "no", or how the process ended
    there,          \* the directories this start found
    made,           \* those it made
    engine          \* whether the memory has an engine

inputs == <<argv, cwd, disk>>
settings == <<configFile, config, server, log, port>>
memory == <<there, made, engine>>
vars == <<inputs, pc, settings, over, memory>>

NoServer == [k \in {} |-> <<>>]
NoPort == -1
Console(level) == [file |-> <<>>, level |-> level]

Resolved(dir, path) == IF Absolute(path) THEN path ELSE dir \o path

Init ==
    /\ argv \in CommandLines /\ cwd \in Directories
    /\ disk \in UNION {[held -> KeyFiles] : held \in SUBSET Paths}
    /\ pc = "options" /\ configFile = <<>> /\ config = NoTable
    /\ server = NoServer /\ log = Console("Info") /\ port = NoPort
    /\ over = "no"
    /\ there \in Trees /\ made = {} /\ engine = FALSE

-----------------------------------------------------------------------------
(* IrsOptions *)

Upstream == [help |-> <<"--help">>, config |-> <<"--config">>, c |-> <<"-c">>]

\* Where std::find finds an option, if it does.  The variant takes the last one.
Positions(option) == {i \in DOMAIN argv : argv[i] = Upstream[option]}
FoundLast(option) ==
    {i \in Positions(option) : \A j \in Positions(option) : j <= i}
Found(option) ==
    {i \in Positions(option) : \A j \in Positions(option) : i <= j}

Has(options) == \E o \in options : Positions(o) # {}

\* The token after the option, whatever it is: another option too.
Following(option) == {argv[i + 1] : i \in {j \in Found(option) : j < Len(argv)}}

\* The long option first, and the short one if nothing follows the long one.
Get ==
    LET values == IF Following("config") # {} THEN Following("config")
                                              ELSE Following("c")
    IN IF values = {} THEN <<>> ELSE CHOOSE v \in values : TRUE

-----------------------------------------------------------------------------
(* IrsConfig and IrsConfigGroup *)

\* GetDirectory: up to the last slash.  The variant has none.
NoDirectory(path) == <<>>
Directory(path) == IF path = <<>> THEN <<>> ELSE SubSeq(path, 1, Len(path) - 1)

IsNull(table, key) == <<GroupOf(key), key>> \notin DOMAIN table

\* operator[]
Value(key) ==
    LET value == config[<<GroupOf(key), key>>]
    IN IF key \in PathKeys /\ ~Absolute(value)
       THEN Directory(configFile) \o value
       ELSE value

-----------------------------------------------------------------------------
(* The settings of the server *)

\* An int, given as a size_t.  The variant reads the empty string as well.
PortAsRead(value) == Number[value]
PortOf(value) == IF value = <<>> THEN 7090 ELSE Number[value]

MaxPort == 65535

\* irs_uint16(m_port).  The variant has a sign.
Signed16(n) == ((n + 32768) % 65536) - 32768
Unsigned16(n) == n % (MaxPort + 1)

\* IrsServerLog: what it does not know is Console, and Info.
LogOf(type, file, level) ==
    [file |-> IF type = <<"File">> THEN file ELSE <<>>,
     level |-> IF level \in {<<"Debug">>, <<"Info">>, <<"Error">>}
               THEN level[1] ELSE "Info"]

-----------------------------------------------------------------------------
(* main *)

Goes(from, to) == over = "no" /\ pc = from /\ pc' = to

ShowHelp ==
    /\ Has({"help"})
    /\ Goes("options", "options")
    /\ over' = "success"
    /\ UNCHANGED <<inputs, settings, memory>>

TakeOptions ==
    /\ ~Has({"help"})
    /\ Goes("options", "load")
    /\ configFile' = IF Has({"config", "c"}) THEN Get ELSE <<>>
    /\ UNCHANGED <<inputs, config, server, log, port, over, memory>>

\* Nobody asks whether the result IsValid.
Load ==
    /\ Goes("load", "configure")
    /\ LET path == Resolved(cwd, configFile)
       IN config' = IF path \in DOMAIN disk THEN disk[path] ELSE NoTable
    /\ UNCHANGED <<inputs, configFile, server, log, port, over, memory>>

\* What ConfigureIrsServer needs in order not to throw.
Configurable ==
    /\ \A key \in Keys : ~IsNull(config, key)
    /\ PortOf(Value("port")) # NotANumber

\* IrsServer::IrsServer; the body of IrsServerImpl's makes the memory, below.
Configure ==
    /\ Goes("configure", "storage")
    /\ Configurable
    /\ server' = [key \in Keys |-> Value(key)]
    /\ log' = LogOf(Value("log_type"), Value("log_file"), Value("log_level"))
    /\ UNCHANGED <<inputs, configFile, config, port, over, memory>>

\* A string made from a null throws, or std::stoi does, and the handler of main
\* uses the server there is not.
ConfigureFails ==
    /\ Goes("configure", "configure")
    /\ ~Configurable
    /\ over' = "crashed"
    /\ UNCHANGED <<inputs, settings, memory>>

-----------------------------------------------------------------------------
(* The memory: irs_memory_initialize and irs_memory_load *)

\* The empty string, an empty setting beside a key file named without a
\* directory, is no directory and none can be made there.
Place(key) == Resolved(cwd, server[key])
IsDir(key) == server[key] # <<>> /\ Place(key) \in there \cup made
Creatable(key) == server[key] # <<>> /\ Above(Place(key)) \cap Barred = {}

\* irs_fs_mkdirs answers TRUE where g_mkdir_with_parents fails: the caller gives
\* up where the directory was made, and goes on where it could not be.
GivesUp(key) == ~IsDir(key) /\ Creatable(key)
MakeDirectory(key) == made' = made \cup (Above(Place(key)) \ there)

StorageReady ==
    /\ Goes("storage", "engine")
    /\ ~GivesUp("db_path")
    /\ UNCHANGED <<inputs, settings, over, memory>>

\* There is a directory then and no storage, and the load of the null storage
\* ends the process.
StorageMissing ==
    /\ Goes("storage", "storage")
    /\ GivesUp("db_path")
    /\ MakeDirectory("db_path")
    /\ over' = "crashed"
    /\ UNCHANGED <<inputs, settings, there, engine>>

\* The first one that is missing; nobody asks what irs_memory_initialize answers.
EngineGivesUp ==
    /\ Goes("engine", "index")
    /\ \E key \in LanguageKeys :
         /\ GivesUp(key)
         /\ key = "lang_alpha_path" => ~GivesUp("lang_key_words_path")
         /\ MakeDirectory(key)
    /\ UNCHANGED <<inputs, settings, over, there, engine>>

\* A file without a first line, or a directory in the place of a file: what is
\* copied is not there, or it is read for ever.
Unreadable(dir) ==
    \/ dir \in Lineless
    \/ \E d \in there : Len(d) = Len(dir) + 1 /\ dir \in Above(d)

EngineKills ==
    /\ Goes("engine", "engine")
    /\ \A key \in LanguageKeys : ~GivesUp(key)
    /\ \E key \in LanguageKeys : IsDir(key) /\ Unreadable(Place(key))
    /\ over' = "crashed"
    /\ UNCHANGED <<inputs, settings, memory>>

EngineReady ==
    /\ Goes("engine", "index")
    /\ \A key \in LanguageKeys :
         ~GivesUp(key) /\ ~(IsDir(key) /\ Unreadable(Place(key)))
    /\ engine' = TRUE
    /\ UNCHANGED <<inputs, settings, over, there, made>>

\* "%s/term_offsets.irsdb"
IndexPlace == IF server["db_path"] = <<>> THEN <<"/">> ELSE Place("db_path")

IndexLoaded ==
    /\ Goes("index", "listen")
    /\ UNCHANGED <<inputs, settings, over, memory>>

\* A term is read into a buffer of one byte: the write behind it may be noticed.
IndexOverruns ==
    /\ Goes("index", "index")
    /\ IndexPlace \in Overlong
    /\ over' = "crashed"
    /\ UNCHANGED <<inputs, settings, memory>>

-----------------------------------------------------------------------------
(* IrsServer::Run, and the process *)

Listen ==
    /\ Goes("listen", "serve")
    /\ server["host"] \in Addresses
    /\ port' = Unsigned16(PortOf(server["port"]))
    /\ UNCHANGED <<inputs, configFile, config, server, log, over, memory>>

\* The host is no address (a name is not), or the port is taken.  The error is
\* logged after ClearLogOptions, and Stop throws in its turn.
ListenFails ==
    /\ Goes("listen", "listen")
    /\ log' = Console("Info")
    /\ over' = "failure"
    /\ UNCHANGED <<inputs, configFile, config, server, port, memory>>

\* The process has ended or is ended, whatever it was doing, and is started
\* again.  (What it does while it serves is the subject of IrsServer.)
Restart ==
    /\ argv' \in CommandLines /\ cwd' \in Directories
    /\ pc' = "options" /\ configFile' = <<>> /\ config' = NoTable
    /\ server' = NoServer /\ log' = Console("Info") /\ port' = NoPort
    /\ over' = "no"
    /\ there' = there \cup made /\ made' = {} /\ engine' = FALSE
    /\ UNCHANGED disk

Next ==
    \/ ShowHelp \/ TakeOptions \/ Load \/ Configure \/ ConfigureFails
    \/ StorageReady \/ StorageMissing
    \/ EngineGivesUp \/ EngineKills \/ EngineReady
    \/ IndexLoaded \/ IndexOverruns
    \/ Listen \/ ListenFails \/ Restart

Spec == Init /\ [][Next]_vars

-----------------------------------------------------------------------------
(* Properties *)

TypeOK ==
    /\ argv \in CommandLines /\ cwd \in Directories
    /\ DOMAIN disk \subseteq Paths
    /\ \A p \in DOMAIN disk : disk[p] \in KeyFiles
    /\ pc \in {"options", "load", "configure", "storage", "engine", "index",
               "listen", "serve"}
    /\ configFile \in Seq(Names)
    /\ config \in KeyFiles \cup {NoTable}
    /\ server = NoServer \/ /\ DOMAIN server = Keys
                            /\ \A key \in Keys : server[key] \in Seq(Names)
    /\ log \in [file : Seq(Names), level : {"Debug", "Info", "Error"}]
    /\ port \in {NoPort} \cup 0 .. MaxPort
    /\ over \in {"no", "success", "failure", "crashed"}
    /\ there \subseteq Seq(Names) /\ made \subseteq Seq(Names) \ there
    /\ engine \in BOOLEAN

\* With any command line, what is read is the file after the first --config, or
\* else after the first -c, and no file if the option is the last token, even if
\* it comes again; with --help anywhere nothing is read, even where it stands
\* for the file's name (IrsOptions::Get, main).
AfterFirst(option) ==
    {argv[i + 1] : i \in {j \in 1 .. Len(argv) - 1 :
        argv[j] = option /\ \A k \in 1 .. j - 1 : argv[k] # option}}

ConfigFromCommandLine ==
    config # NoTable =>
      /\ \A i \in DOMAIN argv : argv[i] # <<"--help">>
      /\ \/ AfterFirst(<<"--config">>) = {configFile}
         \/ /\ AfterFirst(<<"--config">>) = {}
            /\ AfterFirst(<<"-c">>) = {configFile}
      /\ config = disk[Resolved(cwd, configFile)]

\* The memory is where the key file says, from the directory of the key file and
\* not from the one the program was started in, however it was named
\* (IrsConfigGroup::operator[], IrsConfig::GetDirectory).  The exception is a
\* setting that comes out empty, which names no directory at all.
Meant(key) ==
    LET file == Resolved(cwd, configFile)
    IN Resolved(SubSeq(file, 1, Len(file) - 1), config[<<"irs-memory", key>>])

DataBesideConfig ==
    server # NoServer =>
      \A key \in PathKeys : server[key] # <<>> => Place(key) = Meant(key)

\* A file without a setting, or with a port that is no number, never gets as far
\* as a server.  With all settings the process crashes only if it has just made
\* the directory of the storage, which the next start finds; if a language
\* directory has a file that cannot be read; or if the index that was there
\* overran the buffer.  Otherwise it listens: at the port of the file, modulo
\* 2^16, and at 7090 if the file leaves it empty; or it ends and says so on the
\* console.  And it listens without an engine if, and only if, it had to make a
\* directory (IrsServerFactory::ConfigureIrsServer, IrsMemory::IrsMemory,
\* irs_memory_initialize, irs_fs_mkdirs, IrsServer::Run, main).
Complete(file) ==
    /\ \A key \in Keys : ~IsNull(file, key)
    /\ file[<<"irs-server", "port">>] = <<>>
         \/ Number[file[<<"irs-server", "port">>]] # NotANumber

CrashExcused ==
    \/ pc = "storage" /\ Meant("db_path") \in made
    \/ pc = "engine" /\ \E key \in LanguageKeys : Unreadable(Meant(key))
    \/ pc = "index" /\ IndexPlace \in Overlong

ListensAt(number) ==
    port \in 0 .. MaxPort /\ (number - port) % (MaxPort + 1) = 0

StartsAsConfigured ==
    /\ server # NoServer => Complete(config)
    /\ Complete(config) /\ over = "crashed" => CrashExcused
    /\ over = "failure" => log.file = <<>> /\ port = NoPort
    /\ pc \in {"index", "listen", "serve"} => (engine <=> made = {})
    /\ port # NoPort =>
         LET value == config[<<"irs-server", "port">>]
         IN /\ config[<<"irs-server", "host">>] \in Addresses
            /\ ListensAt(IF value = <<>> THEN 7090 ELSE Number[value])
=============================================================================
