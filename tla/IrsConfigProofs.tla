-------------------------- MODULE IrsConfigProofs --------------------------
(***************************************************************************)
(* What a start of irs-machine does, for any command line, any directory   *)
(* to start in, and any key files.                                         *)
(***************************************************************************)
EXTENDS IrsConfig, SequenceTheorems, TLAPS

\* Once the server has its settings.
Later == {"storage", "engine", "index", "listen", "serve"}

\* Everything up to Load is as Init left it; afterwards what is read is the file
\* that configFile names; the settings are taken from it once, and the port from
\* them.
SettingsInv ==
    /\ pc = "options" => configFile = <<>>
    /\ pc \in {"options", "load"} => config = NoTable
    /\ pc # "options" =>
         /\ ~Has({"help"})
         /\ configFile = IF Has({"config", "c"}) THEN Get ELSE <<>>
    /\ config # NoTable =>
         /\ Resolved(cwd, configFile) \in DOMAIN disk
         /\ config = disk[Resolved(cwd, configFile)]
    /\ pc \in {"options", "load", "configure"} => server = NoServer
    /\ pc \in Later =>
         /\ Configurable
         /\ server = [key \in Keys |-> Value(key)]
    /\ pc # "serve" => port = NoPort
    /\ pc = "serve" =>
         /\ server["host"] \in Addresses
         /\ port = Unsigned16(PortOf(server["port"]))

\* The memory: no directory is made up to the storage, and afterwards one is
\* exactly where there is no engine.
MemoryInv ==
    /\ pc \in {"options", "load", "configure", "engine"} => made = {}
    /\ pc = "storage" /\ over = "no" => made = {}
    /\ pc \in {"options", "load", "configure", "storage", "engine"} => ~engine
    /\ pc \in {"index", "listen", "serve"} => (engine <=> made = {})

\* Where the process crashes, and what it says where it does not.
EndInv ==
    /\ over = "crashed" =>
         \/ pc = "configure" /\ ~Configurable
         \/ pc = "storage" /\ Place("db_path") \in made
         \/ pc = "engine" /\ \E key \in LanguageKeys : Unreadable(Place(key))
         \/ pc = "index" /\ IndexPlace \in Overlong
    /\ over = "failure" => log.file = <<>> /\ pc = "listen"

ConfigInv == SettingsInv /\ MemoryInv /\ EndInv

-----------------------------------------------------------------------------
(* The settings *)

\* A setting of the key file is a sequence of names, and so is what the group
\* makes of it.
LEMMA SettingType ==
    ASSUME config \in KeyFiles, configFile \in Seq(Names),
           NEW key \in Keys, ~IsNull(config, key)
    PROVE  /\ config[<<GroupOf(key), key>>] \in Values
           /\ config[<<GroupOf(key), key>>] \in Seq(Names)
           /\ Value(key) \in Seq(Names)
<1> DEFINE given == config[<<GroupOf(key), key>>]
<1>1. given \in Values /\ given \in Seq(Names)
  BY InputsAssumption DEF IsNull, Values
<1>2. Directory(configFile) \in Seq(Names)
  <2>1. CASE configFile = <<>>
    BY <2>1 DEF Directory
  <2>2. CASE configFile # <<>>
    <3>1. \A i \in 1 .. Len(configFile) - 1 : configFile[i] \in Names
      OBVIOUS
    <3>2. SubSeq(configFile, 1, Len(configFile) - 1) \in Seq(Names)
      BY <3>1, SubSeqProperties
    <3>3. QED
      BY <2>2, <3>2 DEF Directory
  <2>3. QED
    BY <2>1, <2>2
<1>3. Value(key) = given \/ Value(key) = Directory(configFile) \o given
  BY DEF Value
<1>4. Directory(configFile) \o given \in Seq(Names)
  BY <1>1, <1>2, ConcatProperties
<1>5. QED
  BY <1>1, <1>3, <1>4

\* A setting of the server is what the key file has.
LEMMA ServerSetting ==
    ASSUME NEW key \in ServerKeys
    PROVE  Value(key) = config[<<"irs-server", key>>]
BY DEF ServerKeys, PathKeys, LanguageKeys, Value, GroupOf

\* The cast to 16 bits stays in range, and keeps a number that is.
LEMMA CastRange ==
    ASSUME NEW n \in Int
    PROVE  /\ Unsigned16(n) \in 0 .. MaxPort
           /\ n \in 0 .. MaxPort => Unsigned16(n) = n
<1>1. MaxPort \in Nat
  BY DEF MaxPort
<1>2. Unsigned16(n) \in Nat /\ Unsigned16(n) <= MaxPort
  BY DEF Unsigned16, MaxPort
<1>3. ASSUME 0 <= n, n < 65536
      PROVE  Unsigned16(n) = n
  <2>1. n % 65536 = n
    BY <1>3, Z3
  <2>2. Unsigned16(n) = n % 65536
    BY DEF Unsigned16, MaxPort
  <2>3. QED
    BY <2>1, <2>2
<1>4. n \in 0 .. MaxPort => 0 <= n /\ n < MaxPort + 1
  BY <1>1
<1>5. MaxPort + 1 = 65536
  BY DEF MaxPort
<1>6. QED
  BY <1>1, <1>2, <1>3, <1>4, <1>5

\* A port that can be read is a number.
LEMMA PortIsNumber ==
    ASSUME config \in KeyFiles, configFile \in Seq(Names), Configurable
    PROVE  /\ PortOf(Value("port")) \in Int
           /\ Unsigned16(PortOf(Value("port"))) \in 0 .. MaxPort
<1>1. "port" \in ServerKeys /\ "port" \in Keys /\ GroupOf("port") = "irs-server"
  BY DEF ServerKeys, Keys, GroupOf
<1>2. Value("port") \in Values
  BY <1>1, SettingType, ServerSetting DEF Configurable
<1>3. PortOf(Value("port")) \in Int
  BY <1>2, InputsAssumption DEF Configurable, PortOf
<1>4. QED
  BY <1>3, CastRange

-----------------------------------------------------------------------------
(* The command line *)

\* Following is what AfterFirst says, one token or none.
LEMMA FollowingIsAfterFirst ==
    ASSUME argv \in Seq(Seq(Names)), NEW o \in {"help", "config", "c"}
    PROVE  /\ Following(o) = AfterFirst(Upstream[o])
           /\ Following(o) \subseteq Seq(Names)
           /\ \A v, w \in Following(o) : v = w
<1>1. DOMAIN argv = 1 .. Len(argv) /\ Len(argv) \in Nat
  OBVIOUS
<1>2. Found(o) = {i \in 1 .. Len(argv) :
                     /\ argv[i] = Upstream[o]
                     /\ \A k \in 1 .. i - 1 : argv[k] # Upstream[o]}
  <2>1. ASSUME NEW i \in 1 .. Len(argv), argv[i] = Upstream[o]
        PROVE  (\A j \in Positions(o) : i <= j)
                 <=> \A k \in 1 .. i - 1 : argv[k] # Upstream[o]
    <3>1. ASSUME NEW j \in Positions(o), ~(i <= j)
          PROVE  j \in 1 .. i - 1 /\ argv[j] = Upstream[o]
      BY <1>1, <3>1 DEF Positions
    <3>2. ASSUME NEW k \in 1 .. i - 1, argv[k] = Upstream[o]
          PROVE  k \in Positions(o) /\ ~(i <= k)
      BY <1>1, <3>2 DEF Positions
    <3>3. QED
      BY <3>1, <3>2
  <2>2. QED
    BY <1>1, <2>1 DEF Found, Positions
<1>3. {j \in Found(o) : j < Len(argv)} =
          {i \in 1 .. Len(argv) - 1 :
              /\ argv[i] = Upstream[o]
              /\ \A k \in 1 .. i - 1 : argv[k] # Upstream[o]}
  BY <1>1, <1>2
<1>4. \A i, j \in Found(o) : i = j
  <2>1. \A i \in Found(o) : i \in Positions(o) /\ i \in Nat
    BY <1>1 DEF Found, Positions
  <2>2. \A i, j \in Found(o) : i <= j /\ j <= i
    BY <2>1 DEF Found
  <2>3. QED
    BY <2>1, <2>2
<1>5. \A i \in Found(o) : i < Len(argv) => argv[i + 1] \in Seq(Names)
  BY <1>1, <1>2
<1>6. QED
  BY <1>3, <1>4, <1>5 DEF Following, AfterFirst

\* What Get returns: the token after the first --config, or else after the first
\* -c, or the empty string.
LEMMA GetFollowing ==
    ASSUME argv \in Seq(Seq(Names))
    PROVE  /\ Get \in Seq(Names)
           /\ \/ Following("config") = {Get}
              \/ Following("config") = {} /\ Following("c") = {Get}
              \/ Get = <<>>
<1> DEFINE values == IF Following("config") # {} THEN Following("config")
                                                 ELSE Following("c")
<1>1. values \subseteq Seq(Names) /\ \A v, w \in values : v = w
  BY FollowingIsAfterFirst
<1>2. CASE values = {}
  BY <1>2 DEF Get
<1>3. CASE values # {}
  <2>1. Get = CHOOSE v \in values : TRUE
    BY <1>3 DEF Get
  <2>2. Get \in values
    BY <1>3, <2>1
  <2>3. values = {Get}
    BY <1>1, <2>2
  <2>4. QED
    BY <1>1, <2>2, <2>3
<1>4. QED
  BY <1>2, <1>3

-----------------------------------------------------------------------------
(* The start *)

\* A table that has all settings is one of a key file.
LEMMA ConfigurableTable ==
    ASSUME TypeOK, Configurable
    PROVE  config \in KeyFiles /\ config # NoTable
<1>1. "port" \in Keys
  BY DEF Keys, ServerKeys
<1>2. DOMAIN NoTable = {}
  BY DEF NoTable
<1>3. QED
  BY <1>1, <1>2 DEF TypeOK, Configurable, IsNull

\* Once the server has its settings, they are those of the table.
LEMMA ServerSettings ==
    ASSUME TypeOK, SettingsInv, pc \in Later
    PROVE  /\ config \in KeyFiles /\ config # NoTable
           /\ server = [key \in Keys |-> Value(key)]
           /\ \A key \in Keys : server[key] \in Seq(Names)
<1>1. Configurable /\ server = [key \in Keys |-> Value(key)]
  BY DEF SettingsInv
<1>2. config \in KeyFiles /\ config # NoTable
  BY <1>1, ConfigurableTable
<1>3. \A key \in Keys : Value(key) \in Seq(Names)
  BY <1>1, <1>2, SettingType DEF Configurable, TypeOK
<1>4. QED
  BY <1>1, <1>2, <1>3

\* A directory is in itself, and what it is in are directories.
LEMMA AboveItself ==
    ASSUME NEW dir \in Seq(Names)
    PROVE  /\ Above(dir) \subseteq Seq(Names)
           /\ dir # <<>> => dir \in Above(dir)
<1>1. ASSUME NEW n \in 1 .. Len(dir)
      PROVE  SubSeq(dir, 1, n) \in Seq(Names)
  <2>1. n \in Int /\ \A i \in 1 .. n : dir[i] \in Names
    OBVIOUS
  <2>2. QED
    BY <2>1, SubSeqProperties
<1>2. ASSUME dir # <<>>
      PROVE  dir \in Above(dir)
  <2>1. Len(dir) \in 1 .. Len(dir)
    BY <1>2, EmptySeq
  <2>2. SubSeq(dir, 1, Len(dir)) = dir
    OBVIOUS
  <2>3. QED
    BY <2>1, <2>2 DEF Above
<1>3. QED
  BY <1>1, <1>2 DEF Above

\* The place of a directory that was made is among those made, and they are
\* directories that were not there.
LEMMA MadeDirectory ==
    ASSUME TypeOK, SettingsInv, pc \in Later,
           NEW key \in PathKeys, GivesUp(key), MakeDirectory(key)
    PROVE  /\ Place(key) \in made'
           /\ made' \subseteq Seq(Names) \ there
<1> DEFINE place == Place(key)
<1>1. server[key] \in Seq(Names) /\ server[key] # <<>> /\ place \notin there
  BY ServerSettings DEF GivesUp, IsDir, Creatable, Keys
<1>2. cwd \in Seq(Names) /\ Absolute(cwd)
  BY InputsAssumption DEF TypeOK
<1>3. place \in Seq(Names) /\ place # <<>>
  <2>1. CASE Absolute(server[key])
    BY <1>1, <2>1 DEF Place, Resolved
  <2>2. CASE ~Absolute(server[key])
    <3>1. place = cwd \o server[key]
      BY <2>2 DEF Place, Resolved
    <3>2. cwd \o server[key] \in Seq(Names)
          /\ Len(cwd \o server[key]) = Len(cwd) + Len(server[key])
      BY <1>1, <1>2, ConcatProperties
    <3>3. Len(cwd) \in Nat \ {0} /\ Len(server[key]) \in Nat
      BY <1>1, <1>2, EmptySeq DEF Absolute
    <3>4. QED
      <4> HIDE DEF place
      <4>1. Len(place) # 0 /\ place \in Seq(Names)
        BY <3>1, <3>2, <3>3
      <4>2. QED
        BY <4>1, EmptySeq
  <2>3. QED
    BY <2>1, <2>2
<1>4. place \in Above(place) /\ Above(place) \subseteq Seq(Names)
  BY <1>3, AboveItself
<1>5. made' = made \cup (Above(place) \ there)
  BY DEF MakeDirectory
<1>6. QED
  BY <1>1, <1>4, <1>5 DEF TypeOK

\* A start begins with the console.
LEMMA FreshLog ==
    /\ Console("Info") \in [file : Seq(Names), level : {"Debug", "Info", "Error"}]
    /\ <<>> \in Seq(Names)
BY DEF Console

LEMMA TypeStep ==
    ASSUME TypeOK, ConfigInv, [Next]_vars
    PROVE  TypeOK'
<1> USE DEF inputs, settings, memory, Goes
<1>1. argv \in Seq(Seq(Names)) /\ SettingsInv
  BY InputsAssumption DEF TypeOK, ConfigInv
<1>2. CASE ShowHelp
  BY <1>2 DEF ShowHelp, TypeOK
<1>3. CASE TakeOptions
  <2>1. configFile' \in Seq(Names)
    BY <1>1, <1>3, GetFollowing DEF TakeOptions
  <2>2. QED
    BY <1>3, <2>1 DEF TakeOptions, TypeOK
<1>4. CASE Load
  <2>1. config' \in KeyFiles \cup {NoTable}
    BY <1>4 DEF Load, TypeOK
  <2>2. QED
    BY <1>4, <2>1 DEF Load, TypeOK
<1>5. CASE Configure
  <2>1. \A key \in Keys : Value(key) \in Seq(Names)
    BY <1>5, ConfigurableTable, SettingType
    DEF Configure, Configurable, TypeOK
  <2>2. {"log_type", "log_file", "log_level"} \subseteq Keys
    BY DEF Keys, ServerKeys
  <2>3. log' \in [file : Seq(Names), level : {"Debug", "Info", "Error"}]
    BY <1>5, <2>1, <2>2 DEF Configure, LogOf
  <2>4. DOMAIN server' = Keys /\ \A key \in Keys : server'[key] \in Seq(Names)
    BY <1>5, <2>1 DEF Configure
  <2>5. QED
    BY <1>5, <2>3, <2>4 DEF Configure, TypeOK
<1>6. CASE ConfigureFails
  BY <1>6 DEF ConfigureFails, TypeOK
<1>7. CASE StorageReady
  BY <1>7 DEF StorageReady, TypeOK
<1>8. CASE StorageMissing
  <2>1. pc \in Later /\ "db_path" \in PathKeys
    BY <1>8 DEF StorageMissing, Later, PathKeys
  <2>2. made' \subseteq Seq(Names) \ there
    BY <1>1, <1>8, <2>1, MadeDirectory DEF StorageMissing
  <2>3. QED
    BY <1>8, <2>2 DEF StorageMissing, TypeOK
<1>9. CASE EngineGivesUp
  <2>1. pc \in Later /\ LanguageKeys \subseteq PathKeys
    BY <1>9 DEF EngineGivesUp, Later, PathKeys
  <2>2. PICK key \in LanguageKeys : GivesUp(key) /\ MakeDirectory(key)
    BY <1>9 DEF EngineGivesUp
  <2>3. made' \subseteq Seq(Names) \ there
    BY <1>1, <2>1, <2>2, MadeDirectory
  <2>4. QED
    BY <1>9, <2>3 DEF EngineGivesUp, TypeOK
<1>10. CASE EngineKills
  BY <1>10 DEF EngineKills, TypeOK
<1>11. CASE EngineReady
  BY <1>11 DEF EngineReady, TypeOK
<1>12. CASE IndexLoaded
  BY <1>12 DEF IndexLoaded, TypeOK
<1>13. CASE IndexOverruns
  BY <1>13 DEF IndexOverruns, TypeOK
<1>14. CASE Listen
  <2>1. pc = "listen" /\ port' = Unsigned16(PortOf(server["port"]))
    BY <1>14 DEF Listen
  <2>2. Configurable /\ server["port"] = Value("port")
    BY <1>1, <2>1 DEF SettingsInv, Later, Keys, ServerKeys
  <2>3. port' \in 0 .. MaxPort
    BY <2>1, <2>2, ConfigurableTable, PortIsNumber DEF TypeOK
  <2>4. QED
    BY <1>14, <2>3 DEF Listen, TypeOK
<1>15. CASE ListenFails
  BY <1>15 DEF ListenFails, Console, TypeOK
<1>16. CASE Restart
  <2>1. /\ argv' \in CommandLines /\ cwd' \in Directories /\ disk' = disk
        /\ there' \subseteq Seq(Names) /\ made' = {} /\ engine' = FALSE
    BY <1>16 DEF Restart, TypeOK
  <2>2. /\ log' = Console("Info") /\ configFile' = <<>> /\ port' = NoPort
        /\ pc' = "options" /\ config' = NoTable /\ server' = NoServer
        /\ over' = "no"
    BY <1>16 DEF Restart
  <2>3. QED
    BY <2>1, <2>2, FreshLog DEF TypeOK
<1>17. CASE UNCHANGED vars
  BY <1>17 DEF vars, TypeOK
<1>18. QED
  BY <1>2, <1>3, <1>4, <1>5, <1>6, <1>7, <1>8, <1>9, <1>10, <1>11, <1>12, <1>13,
     <1>14, <1>15, <1>16, <1>17 DEF Next

\* What the inputs and the table give, they give until one of them changes.
LEMMA SameSettings ==
    ASSUME UNCHANGED <<argv, cwd, disk, configFile, config>>
    PROVE  /\ Has({"help"})' = Has({"help"}) /\ Get' = Get
           /\ Has({"config", "c"})' = Has({"config", "c"})
           /\ Configurable' = Configurable
           /\ \A key : Value(key)' = Value(key)
BY DEF Has, Get, Following, Found, Positions, Configurable, Value, IsNull

LEMMA SettingsStep ==
    ASSUME TypeOK, SettingsInv, [Next]_vars
    PROVE  SettingsInv'
<1> USE DEF inputs, settings, memory, Goes, Later
<1>1. CASE ShowHelp
  BY <1>1, SameSettings DEF ShowHelp, SettingsInv
<1>2. CASE TakeOptions
  <2>1. /\ pc = "options" /\ pc' = "load"
        /\ ~Has({"help"}) /\ configFile' = IF Has({"config", "c"}) THEN Get
                                           ELSE <<>>
        /\ UNCHANGED <<argv, cwd, disk, config, server, log, port>>
    BY <1>2 DEF TakeOptions
  <2>2. Has({"help"})' = Has({"help"}) /\ Get' = Get
        /\ Has({"config", "c"})' = Has({"config", "c"})
    BY <2>1 DEF Has, Get, Following, Found, Positions
  <2>3. QED
    BY <2>1, <2>2 DEF SettingsInv
<1>3. CASE Load
  <2>1. /\ pc = "load" /\ pc' = "configure"
        /\ config' = IF Resolved(cwd, configFile) \in DOMAIN disk
                     THEN disk[Resolved(cwd, configFile)] ELSE NoTable
        /\ UNCHANGED <<argv, cwd, disk, configFile, server, log, port>>
    BY <1>3 DEF Load
  <2>2. Has({"help"})' = Has({"help"}) /\ Get' = Get
        /\ Has({"config", "c"})' = Has({"config", "c"})
    BY <2>1 DEF Has, Get, Following, Found, Positions
  <2>3. QED
    BY <2>1, <2>2 DEF SettingsInv
<1>4. CASE Configure
  <2>1. /\ pc = "configure" /\ pc' = "storage" /\ Configurable
        /\ server' = [key \in Keys |-> Value(key)]
        /\ UNCHANGED <<argv, cwd, disk, configFile, config, port>>
    BY <1>4 DEF Configure
  <2>2. QED
    BY <2>1, SameSettings DEF SettingsInv
<1>5. CASE ConfigureFails
  BY <1>5, SameSettings DEF ConfigureFails, SettingsInv
<1>6. CASE Listen
  <2>1. /\ pc = "listen" /\ pc' = "serve"
        /\ server["host"] \in Addresses
        /\ port' = Unsigned16(PortOf(server["port"]))
        /\ UNCHANGED <<argv, cwd, disk, configFile, config, server>>
    BY <1>6 DEF Listen
  <2>2. QED
    BY <2>1, SameSettings DEF SettingsInv
<1>7. CASE ListenFails
  <2>1. pc = "listen" /\ pc' = "listen"
        /\ UNCHANGED <<argv, cwd, disk, configFile, config, server, port>>
    BY <1>7 DEF ListenFails
  <2>2. QED
    BY <2>1, SameSettings DEF SettingsInv
<1>8. ASSUME pc \in Later, pc' \in Later, pc # "serve", pc' # "serve",
             UNCHANGED <<inputs, settings>>
      PROVE  SettingsInv'
  <2>1. UNCHANGED <<argv, cwd, disk, configFile, config, server, port>>
    BY <1>8
  <2>2. QED
    BY <1>8, <2>1, SameSettings DEF SettingsInv
<1>9. CASE StorageReady \/ StorageMissing
  BY <1>8, <1>9 DEF StorageReady, StorageMissing
<1>10. CASE EngineGivesUp \/ EngineKills \/ EngineReady
  BY <1>8, <1>10 DEF EngineGivesUp, EngineKills, EngineReady
<1>11. CASE IndexLoaded \/ IndexOverruns
  BY <1>8, <1>11 DEF IndexLoaded, IndexOverruns
<1>12. CASE Restart
  <2>1. /\ pc' = "options" /\ configFile' = <<>> /\ config' = NoTable
        /\ server' = NoServer /\ port' = NoPort
    BY <1>12 DEF Restart
  <2>2. QED
    BY <2>1 DEF SettingsInv
<1>13. CASE UNCHANGED vars
  <2>1. UNCHANGED <<argv, cwd, disk, pc, configFile, config, server, log, port>>
    BY <1>13 DEF vars
  <2>2. QED
    BY <2>1, SameSettings DEF SettingsInv
<1>14. QED
  BY <1>1, <1>2, <1>3, <1>4, <1>5, <1>6, <1>7, <1>9, <1>10, <1>11, <1>12, <1>13
  DEF Next

LEMMA MemoryStep ==
    ASSUME TypeOK, SettingsInv, MemoryInv, [Next]_vars
    PROVE  MemoryInv'
<1> USE DEF inputs, settings, memory, Goes, MemoryInv
<1>1. CASE ShowHelp \/ TakeOptions \/ Load \/ Configure \/ ConfigureFails
  BY <1>1 DEF ShowHelp, TakeOptions, Load, Configure, ConfigureFails
<1>2. CASE StorageReady \/ StorageMissing
  BY <1>2 DEF StorageReady, StorageMissing
<1>3. CASE EngineGivesUp
  <2>1. pc \in Later /\ LanguageKeys \subseteq PathKeys
    BY <1>3 DEF EngineGivesUp, Later, PathKeys
  <2>2. PICK key \in LanguageKeys : GivesUp(key) /\ MakeDirectory(key)
    BY <1>3 DEF EngineGivesUp
  <2>3. made' # {}
    BY <2>1, <2>2, MadeDirectory
  <2>4. engine' = engine /\ ~engine
    BY <1>3 DEF EngineGivesUp
  <2>5. QED
    BY <1>3, <2>3, <2>4 DEF EngineGivesUp
<1>4. CASE EngineKills \/ EngineReady
  BY <1>4 DEF EngineKills, EngineReady
<1>5. CASE IndexLoaded \/ IndexOverruns \/ Listen \/ ListenFails
  BY <1>5 DEF IndexLoaded, IndexOverruns, Listen, ListenFails
<1>6. CASE Restart
  BY <1>6 DEF Restart
<1>7. CASE UNCHANGED vars
  BY <1>7 DEF vars
<1>8. QED
  BY <1>1, <1>2, <1>3, <1>4, <1>5, <1>6, <1>7 DEF Next

LEMMA EndStep ==
    ASSUME TypeOK, SettingsInv, EndInv, [Next]_vars
    PROVE  EndInv'
<1> USE DEF inputs, settings, memory, Goes
<1>1. ASSUME over' = "no"
      PROVE  EndInv'
  BY <1>1 DEF EndInv
<1>2. CASE ShowHelp
  BY <1>2 DEF ShowHelp, EndInv
<1>3. CASE TakeOptions \/ Load \/ Configure \/ StorageReady
  BY <1>1, <1>3 DEF TakeOptions, Load, Configure, StorageReady
<1>4. CASE ConfigureFails
  <2>1. /\ pc' = "configure" /\ ~Configurable /\ over' = "crashed"
        /\ UNCHANGED <<argv, cwd, disk, configFile, config>>
    BY <1>4 DEF ConfigureFails
  <2>2. QED
    BY <2>1, SameSettings DEF EndInv
<1>5. CASE StorageMissing
  <2>1. pc \in Later /\ "db_path" \in PathKeys
    BY <1>5 DEF StorageMissing, Later, PathKeys
  <2>2. Place("db_path") \in made'
    BY <1>5, <2>1, MadeDirectory DEF StorageMissing
  <2>3. pc' = "storage" /\ over' = "crashed" /\ cwd' = cwd /\ server' = server
    BY <1>5 DEF StorageMissing
  <2>4. QED
    BY <2>2, <2>3 DEF EndInv, Place
<1>6. CASE EngineGivesUp \/ EngineReady \/ IndexLoaded \/ Listen \/ Restart
  BY <1>1, <1>6 DEF EngineGivesUp, EngineReady, IndexLoaded, Listen, Restart
<1>7. CASE EngineKills
  <2>1. PICK key \in LanguageKeys : Unreadable(Place(key))
    BY <1>7 DEF EngineKills
  <2>2. /\ pc' = "engine" /\ over' = "crashed"
        /\ cwd' = cwd /\ server' = server /\ there' = there
    BY <1>7 DEF EngineKills
  <2>3. QED
    BY <2>1, <2>2 DEF EndInv, Place, Unreadable
<1>8. CASE IndexOverruns
  <2>1. /\ pc' = "index" /\ over' = "crashed" /\ IndexPlace \in Overlong
        /\ cwd' = cwd /\ server' = server
    BY <1>8 DEF IndexOverruns
  <2>2. QED
    BY <2>1 DEF EndInv, IndexPlace, Place
<1>9. CASE ListenFails
  BY <1>9 DEF ListenFails, Console, EndInv
<1>10. CASE UNCHANGED vars
  <2>1. UNCHANGED <<argv, cwd, disk, pc, configFile, config, server, log, over,
                    there, made>>
    BY <1>10 DEF vars
  <2>2. QED
    BY <2>1, SameSettings DEF EndInv, Place, IndexPlace, Unreadable
<1>11. QED
  BY <1>2, <1>3, <1>4, <1>5, <1>6, <1>7, <1>8, <1>9, <1>10 DEF Next

LEMMA ConfigStep ==
    ASSUME TypeOK, ConfigInv, [Next]_vars
    PROVE  ConfigInv'
BY SettingsStep, MemoryStep, EndStep DEF ConfigInv

\* The type invariant, with what the properties follow from.
THEOREM ConfigInvCorrect == Spec => [](TypeOK /\ ConfigInv)
<1>1. Init => TypeOK
  <2>1. ASSUME Init
        PROVE  /\ DOMAIN disk \subseteq Paths
               /\ \A p \in DOMAIN disk : disk[p] \in KeyFiles
    BY <2>1 DEF Init
  <2>2. Init => there \subseteq Seq(Names) /\ made = {} /\ engine = FALSE
    BY TreesAssumption DEF Init
  <2>3. QED
    BY <2>1, <2>2, FreshLog DEF Init, TypeOK
<1>2. Init => ConfigInv
  BY DEF Init, ConfigInv, SettingsInv, MemoryInv, EndInv, Later
<1>3. QED
  BY <1>1, <1>2, TypeStep, ConfigStep, PTL DEF Spec

\* The type invariant: the settings a server is made with are all there, the
\* port it listens at is a port, and what a start makes was not there before.
THEOREM ConfigTypeCorrect == Spec => []TypeOK
BY ConfigInvCorrect, PTL

\* The file that was read has a place of its own, below the root.
LEMMA ConfigFile ==
    ASSUME TypeOK, ConfigInv, config # NoTable
    PROVE  /\ configFile \in Seq(Names) /\ configFile # <<>>
           /\ cwd \in Seq(Names) /\ Absolute(cwd)
           /\ config = disk[Resolved(cwd, configFile)]
           /\ Len(Resolved(cwd, configFile)) > 1
<1>1. /\ configFile \in Seq(Names) /\ cwd \in Seq(Names) /\ Absolute(cwd)
      /\ cwd \in Directories
  BY InputsAssumption DEF TypeOK
<1>2. /\ Resolved(cwd, configFile) \in Paths
      /\ config = disk[Resolved(cwd, configFile)]
  BY DEF ConfigInv, SettingsInv, TypeOK
<1>3. configFile # <<>>
  <2>1. cwd \o <<>> = cwd /\ cwd \notin Paths
    BY <1>1, ConcatEmptySeq, InputsAssumption
  <2>2. ~Absolute(<<>>)
    BY DEF Absolute
  <2>3. QED
    BY <1>2, <2>1, <2>2 DEF Resolved
<1>4. QED
  BY <1>1, <1>2, <1>3, InputsAssumption

\* ConfigFromCommandLine: for any command line, what is read is the file the
\* first --config names, or else the first -c, and nothing is with --help.
THEOREM ConfigFromCommandLineCorrect == Spec => []ConfigFromCommandLine
<1>1. ASSUME TypeOK, ConfigInv, config # NoTable
      PROVE  /\ \A i \in DOMAIN argv : argv[i] # <<"--help">>
             /\ \/ AfterFirst(<<"--config">>) = {configFile}
                \/ /\ AfterFirst(<<"--config">>) = {}
                   /\ AfterFirst(<<"-c">>) = {configFile}
             /\ config = disk[Resolved(cwd, configFile)]
  <2>1. /\ configFile # <<>>
        /\ config = disk[Resolved(cwd, configFile)]
    BY <1>1, ConfigFile
  <2>2. /\ ~Has({"help"})
        /\ configFile = IF Has({"config", "c"}) THEN Get ELSE <<>>
    BY <1>1 DEF ConfigInv, SettingsInv, TypeOK
  <2>3. /\ Upstream["help"] = <<"--help">>
        /\ Upstream["config"] = <<"--config">> /\ Upstream["c"] = <<"-c">>
    BY DEF Upstream
  <2>4. argv \in Seq(Seq(Names))
    BY <1>1, InputsAssumption DEF TypeOK
  <2>5. \/ Following("config") = {configFile}
        \/ Following("config") = {} /\ Following("c") = {configFile}
    BY <2>1, <2>2, <2>4, GetFollowing
  <2>6. /\ Following("config") = AfterFirst(<<"--config">>)
        /\ Following("c") = AfterFirst(<<"-c">>)
    BY <2>3, <2>4, FollowingIsAfterFirst
  <2>7. \A i \in DOMAIN argv : argv[i] # <<"--help">>
    BY <2>2, <2>3 DEF Has, Positions
  <2>8. QED
    BY <2>1, <2>5, <2>6, <2>7
<1>2. TypeOK /\ ConfigInv => ConfigFromCommandLine
  BY <1>1 DEF ConfigFromCommandLine
<1>3. QED
  BY <1>2, ConfigInvCorrect, PTL

\* A path below the directory of a key file, from where the process runs: the
\* directory of the file however it was named.
LEMMA BesideFile ==
    ASSUME NEW dir \in Seq(Names), Absolute(dir),
           NEW file \in Seq(Names), file # <<>>, Len(Resolved(dir, file)) > 1,
           NEW given \in Seq(Names), ~Absolute(given)
    PROVE  Resolved(dir, Directory(file) \o given) =
               LET whole == Resolved(dir, file)
               IN SubSeq(whole, 1, Len(whole) - 1) \o given
<1> DEFINE n == Len(file)
           above == SubSeq(file, 1, n - 1)
<1>1. n \in Nat \ {0} /\ Directory(file) = above
  BY DEF Directory
<1>2. /\ above \in Seq(Names) /\ Len(above) = n - 1
      /\ \A i \in 1 .. n - 1 : above[i] = file[i]
  <2>1. n - 1 \in Int /\ \A i \in 1 .. n - 1 : file[i] \in Names
    BY <1>1
  <2>2. /\ above \in Seq(Names)
        /\ Len(above) = IF 1 <= n - 1 THEN (n - 1) - 1 + 1 ELSE 0
        /\ \A i \in 1 .. (n - 1) - 1 + 1 : above[i] = file[1 + i - 1]
    <3> HIDE DEF n
    <3>1. QED
      BY <2>1, SubSeqProperties
  <2> HIDE DEF n, above
  <2>3. Len(above) = n - 1
    BY <1>1, <2>2
  <2>4. \A i \in 1 .. n - 1 : 1 + i - 1 = i /\ i \in 1 .. (n - 1) - 1 + 1
    BY <1>1
  <2>5. QED
    BY <2>2, <2>3, <2>4
<1>3. /\ above \o given \in Seq(Names)
      /\ Len(above \o given) = (n - 1) + Len(given)
      /\ \A i \in 1 .. (n - 1) + Len(given) :
           (above \o given)[i] = IF i <= n - 1 THEN above[i]
                                               ELSE given[i - (n - 1)]
  BY <1>2, ConcatProperties
<1>4. CASE Absolute(file)
  <2>1. Resolved(dir, file) = file /\ n > 1
    BY <1>4 DEF Resolved
  <2>2. Absolute(above \o given)
    <3>1. (above \o given)[1] = file[1] /\ Len(above \o given) # 0
      BY <1>1, <1>2, <1>3, <2>1
    <3>2. above \o given # <<>>
      BY <3>1, EmptySeq
    <3>3. QED
      BY <1>4, <3>1, <3>2 DEF Absolute
  <2>3. QED
    BY <1>1, <2>1, <2>2 DEF Resolved
<1>5. CASE ~Absolute(file)
  <2>1. Resolved(dir, file) = dir \o file
    BY <1>5 DEF Resolved
  <2>2. ~Absolute(above \o given)
    <3> HIDE DEF n, above
    <3>0. n = 1 \/ n > 1
      BY <1>1
    <3>1. CASE n = 1
      <4>1. above = <<>>
        BY <1>2, <3>1, EmptySeq
      <4>2. above \o given = given
        BY <4>1, ConcatEmptySeq
      <4>3. QED
        BY <4>2
    <3>2. CASE n > 1
      <4>1. 1 \in 1 .. n - 1 /\ 1 \in 1 .. (n - 1) + Len(given)
        <5>1. Len(given) \in Nat
          OBVIOUS
        <5>2. QED
          BY <1>1, <3>2, <5>1
      <4>2. (above \o given)[1] = file[1]
        BY <1>2, <1>3, <4>1
      <4>3. QED
        BY <1>5, <4>2 DEF Absolute
    <3>3. QED
      BY <3>0, <3>1, <3>2
  <2>3. SubSeq(dir \o file, 1, Len(dir \o file) - 1) = dir \o above
    <3> DEFINE m == Len(dir)
               whole == dir \o file
               left == SubSeq(whole, 1, (m + n) - 1)
               right == dir \o above
    <3>1. /\ whole \in Seq(Names) /\ Len(whole) = m + n /\ m \in Nat
          /\ \A i \in 1 .. m + n :
               whole[i] = IF i <= m THEN dir[i] ELSE file[i - m]
      BY ConcatProperties
    <3>2. /\ right \in Seq(Names) /\ Len(right) = m + (n - 1)
          /\ \A i \in 1 .. m + (n - 1) :
               right[i] = IF i <= m THEN dir[i] ELSE above[i - m]
      BY <1>2, ConcatProperties
    <3>3. \A i \in 1 .. (m + n) - 1 : whole[i] \in Names
      BY <1>1, <3>1
    <3>4. /\ left \in Seq(Names) /\ Len(left) = (m + n) - 1
          /\ \A i \in 1 .. (m + n) - 1 : left[i] = whole[i]
      <4>1. (m + n) - 1 \in Int /\ ((m + n) - 1 >= 1 \/ (m + n) - 1 = 0)
        BY <1>1, <3>1
      <4> HIDE DEF whole
      <4>2. QED
        BY <3>3, <4>1, SubSeqProperties
    <3>5. \A i \in 1 .. m + (n - 1) : left[i] = right[i]
      <4>1. ASSUME NEW i \in 1 .. m + (n - 1)
            PROVE  left[i] = right[i]
        <5>1. i \in 1 .. (m + n) - 1 /\ i \in 1 .. m + n
          BY <1>1, <3>1
        <5>2. CASE i <= m
          BY <3>1, <3>2, <3>4, <5>1, <5>2
        <5>3. CASE ~(i <= m)
          <6>1. i - m \in 1 .. n - 1
            BY <1>1, <3>1, <5>1, <5>3
          <6>2. QED
            BY <1>2, <3>1, <3>2, <3>4, <5>1, <5>3, <6>1
        <5>4. QED
          BY <5>2, <5>3
      <4>2. QED
        BY <4>1
    <3>6. left = right
      <4>1. Len(left) = Len(right) /\ \A i \in 1 .. Len(left) : left[i] = right[i]
        BY <1>1, <3>1, <3>2, <3>4, <3>5
      <4>2. QED
        BY <3>2, <3>4, <4>1, SeqEqual
    <3>7. QED
      BY <3>1, <3>6
  <2>4. (dir \o above) \o given = dir \o (above \o given)
    <3> HIDE DEF above
    <3>1. QED
      BY <1>2, ConcatAssociative
  <2>5. QED
    BY <1>1, <2>1, <2>2, <2>3, <2>4 DEF Resolved
<1>6. QED
  BY <1>4, <1>5

\* A path of the memory is where the key file means it.
LEMMA PlaceIsMeant ==
    ASSUME TypeOK, ConfigInv, pc \in Later, NEW key \in PathKeys
    PROVE  Place(key) = Meant(key)
<1> DEFINE file == Resolved(cwd, configFile)
           given == config[<<"irs-memory", key>>]
           above == SubSeq(file, 1, Len(file) - 1)
<1>1. /\ config \in KeyFiles /\ config # NoTable
      /\ server = [k \in Keys |-> Value(k)]
  BY ServerSettings DEF ConfigInv
<1>2. /\ configFile \in Seq(Names) /\ configFile # <<>>
      /\ cwd \in Seq(Names) /\ Absolute(cwd) /\ Len(file) > 1
  BY <1>1, ConfigFile
<1>3. key \in Keys /\ GroupOf(key) = "irs-memory" /\ server[key] = Value(key)
  BY <1>1 DEF Keys, PathKeys, LanguageKeys, GroupOf, ServerKeys
<1>4. given \in Seq(Names)
  <2>1. Configurable
    BY DEF ConfigInv, SettingsInv
  <2>2. QED
    BY <1>1, <1>2, <1>3, <2>1, SettingType DEF Configurable
<1>5. Place(key) = Resolved(cwd, Value(key)) /\ Meant(key) = Resolved(above, given)
  BY <1>3 DEF Place, Meant
<1>6. CASE Absolute(given)
  BY <1>3, <1>5, <1>6 DEF Value, Resolved
<1>7. CASE ~Absolute(given)
  <2>1. Value(key) = Directory(configFile) \o given
    BY <1>3, <1>7 DEF Value
  <2>2. Resolved(cwd, Directory(configFile) \o given) = above \o given
    <3> HIDE DEF given
    <3>1. QED
      BY <1>2, <1>4, <1>7, BesideFile
  <2>3. Resolved(above, given) = above \o given
    BY <1>7 DEF Resolved
  <2>4. QED
    BY <1>5, <2>1, <2>2, <2>3
<1>8. QED
  BY <1>6, <1>7

\* A server has its settings, and those come from a complete table.
LEMMA ServerIsLater ==
    ASSUME TypeOK, ConfigInv, server # NoServer
    PROVE  pc \in Later
BY DEF ConfigInv, SettingsInv, Later, TypeOK

\* DataBesideConfig: for any key file and directory, absolute or relative, the
\* paths of the memory are beside the key file.
THEOREM DataBesideConfigCorrect == Spec => []DataBesideConfig
<1>1. TypeOK /\ ConfigInv => DataBesideConfig
  BY PlaceIsMeant, ServerIsLater DEF DataBesideConfig
<1>2. QED
  BY <1>1, ConfigInvCorrect, PTL

\* What can be configured is complete, and the other way round.
LEMMA ConfigurableIsComplete ==
    Configurable <=> Complete(config)
<1>1. {"port"} \subseteq ServerKeys /\ {"port"} \subseteq Keys
  BY DEF Keys, ServerKeys
<1>2. Value("port") = config[<<"irs-server", "port">>]
  BY <1>1, ServerSetting
<1>3. 7090 # NotANumber
  BY InputsAssumption
<1>4. QED
  BY <1>2, <1>3 DEF Complete, Configurable, PortOf

\* The port of a number is the number modulo 2^16.
LEMMA CastModulo ==
    ASSUME NEW n \in Int
    PROVE  (n - Unsigned16(n)) % (MaxPort + 1) = 0
<1>1. (n - (n % 65536)) % 65536 = 0
  BY Z3
<1>2. QED
  BY <1>1 DEF Unsigned16, MaxPort

\* StartsAsConfigured: with any key file, directories and command lines, over any
\* number of starts, the process crashes only where it says, and listens where
\* the file says.
THEOREM StartsAsConfiguredCorrect == Spec => []StartsAsConfigured
<1> DEFINE value == config[<<"irs-server", "port">>]
           number == IF value = <<>> THEN 7090 ELSE Number[value]
<1>1. ASSUME TypeOK, ConfigInv, server # NoServer
      PROVE  Complete(config)
  <2>1. Configurable
    BY <1>1, ServerIsLater DEF ConfigInv, SettingsInv
  <2>2. QED
    BY <2>1, ConfigurableIsComplete
<1>2. ASSUME TypeOK, ConfigInv, Complete(config), over = "crashed"
      PROVE  CrashExcused
  <2>1. pc # "configure" \/ Configurable
    BY <1>2, ConfigurableIsComplete
  <2>2. "db_path" \in PathKeys /\ LanguageKeys \subseteq PathKeys
    BY DEF PathKeys
  <2>3. pc \in {"storage", "engine", "index"}
          => \A key \in PathKeys : Place(key) = Meant(key)
    BY <1>2, PlaceIsMeant DEF Later
  <2>4. CASE pc = "storage" /\ Place("db_path") \in made
    BY <2>2, <2>3, <2>4 DEF CrashExcused
  <2>5. CASE pc = "engine" /\ \E key \in LanguageKeys : Unreadable(Place(key))
    <3>1. PICK key \in LanguageKeys : Unreadable(Place(key))
      BY <2>5
    <3>2. Place(key) = Meant(key)
      BY <2>2, <2>3, <2>5
    <3>3. Unreadable(Meant(key))
      BY <3>1, <3>2
    <3>4. QED
      BY <2>5, <3>3 DEF CrashExcused
  <2>6. CASE pc = "index" /\ IndexPlace \in Overlong
    BY <2>6 DEF CrashExcused
  <2>7. QED
    BY <1>2, <2>1, <2>4, <2>5, <2>6, ConfigurableIsComplete
    DEF ConfigInv, EndInv
<1>3. ASSUME TypeOK, ConfigInv
      PROVE  /\ over = "failure" => log.file = <<>> /\ port = NoPort
             /\ pc \in {"index", "listen", "serve"} => (engine <=> made = {})
  BY <1>3 DEF ConfigInv, SettingsInv, MemoryInv, EndInv
<1>4. ASSUME TypeOK, ConfigInv, port # NoPort
      PROVE  /\ config[<<"irs-server", "host">>] \in Addresses
             /\ ListensAt(number)
  <2>1. {"port", "host"} \subseteq ServerKeys /\ {"port", "host"} \subseteq Keys
    BY DEF Keys, ServerKeys
  <2>2. /\ pc = "serve" /\ pc \in Later
        /\ Configurable /\ server = [key \in Keys |-> Value(key)]
        /\ server["host"] \in Addresses
        /\ port = Unsigned16(PortOf(server["port"]))
    BY <1>4 DEF ConfigInv, SettingsInv, Later
  <2>3. /\ server["port"] = value
        /\ server["host"] = config[<<"irs-server", "host">>]
    BY <2>1, <2>2, ServerSetting
  <2>4. PortOf(server["port"]) = number
    BY <2>3 DEF PortOf
  <2>5. number \in Int
    <3>1. config \in KeyFiles /\ configFile \in Seq(Names)
      BY <1>4, <2>2, ConfigurableTable DEF TypeOK
    <3>2. PortOf(Value("port")) \in Int
      BY <2>2, <3>1, PortIsNumber
    <3>3. Value("port") = server["port"]
      BY <2>1, <2>2
    <3>4. QED
      BY <2>4, <3>2, <3>3
  <2>6. ListensAt(number)
    <3> HIDE DEF number
    <3>1. port = Unsigned16(number)
      BY <2>2, <2>4
    <3>2. port \in 0 .. MaxPort
      BY <2>5, <3>1, CastRange
    <3>3. (number - port) % (MaxPort + 1) = 0
      BY <2>5, <3>1, CastModulo
    <3>4. QED
      BY <3>2, <3>3 DEF ListensAt
  <2>7. QED
    BY <2>2, <2>3, <2>6
<1>5. TypeOK /\ ConfigInv => StartsAsConfigured
  <2>1. ASSUME TypeOK, ConfigInv
        PROVE  StartsAsConfigured
    BY <1>1, <1>2, <1>3, <1>4, <2>1 DEF StartsAsConfigured
  <2>2. QED
    BY <2>1
<1>6. QED
  BY <1>5, ConfigInvCorrect, PTL
=============================================================================
