---------------------------- MODULE MCIrsConfig ----------------------------
(***************************************************************************)
(* Command lines, places and key files for IrsConfig: one that has all,    *)
(* with relative and absolute paths, and files that differ from it in a    *)
(* port, a host, a log, a path, or a key that is missing; and the          *)
(* directories of a first start, of one that has its database, and of one  *)
(* that has everything.                                                    *)
(***************************************************************************)
EXTENDS IrsConfig, TLC

MCNames == {"/", "home", "conf", "irs.ini", "db", "data", "langs", "alpha",
            "127.0.0.1", "localhost", "7091", "70000", "-2", "seven", "File",
            "Console", "Syslog", "Debug", "Verbose", "server.log",
            "usr", "--help", "--config", "-c", "--port"}

given == <<"conf", "irs.ini">>
plain == <<"irs.ini">>
full  == <<"/", "home", "conf", "irs.ini">>

MCCommandLines ==
    {<<>>, <<<<"--config">>, given>>, <<<<"-c">>, plain>>, <<<<"-c">>, full>>,
     <<<<"-c">>, plain, <<"--config">>, given>>,
     <<<<"-c">>, plain, <<"--config">>>>,
     <<<<"--config">>, plain, <<"--config">>, given>>,
     <<<<"--config">>, <<"--help">>>>, <<<<"--help">>>>,
     <<<<"--config">>, <<"-c">>, given>>, <<given, <<"--port">>, <<"7091">>>>}

MCDirectories == {<<"/", "home">>, <<"/", "home", "conf">>}
MCPaths == {<<"/", "home", "irs.ini">>, full}

bare == {<<"/">>, <<"/", "home">>, <<"/", "home", "conf">>, <<"/", "usr">>}

MCTrees ==
    {bare, bare \cup {<<"/", "home", "conf", "db">>},
     bare \cup {<<"/", "home", "conf", "db">>, <<"/", "home", "db">>,
               <<"/", "data">>, <<"/", "data", "langs">>,
               <<"/", "home", "conf", "alpha">>}}

MCBarred == {<<"/", "usr", "db">>}
MCLineless == {<<"/", "home", "alpha">>, <<"/", "data">>}
MCOverlong == {<<"/", "home", "conf", "db">>, <<"/">>}

MCAddresses == {<<"127.0.0.1">>}

setting(key, value) == <<"irs-server", key>> :> value
place(key, value) == <<"irs-memory", key>> :> value

all == setting("host", <<"127.0.0.1">>) @@ setting("port", <<"7091">>)
         @@ setting("log_type", <<"File">>)
         @@ setting("log_file", <<"server.log">>)
         @@ setting("log_level", <<"Debug">>)
         @@ place("db_path", <<"db">>)
         @@ place("lang_key_words_path", <<"/", "data", "langs">>)
         @@ place("lang_alpha_path", <<"alpha">>)

without(k) == [x \in DOMAIN all \ {k} |-> all[x]]

MCKeyFiles ==
    {all, setting("port", <<"70000">>) @@ all, setting("port", <<"seven">>) @@ all,
     setting("port", <<>>) @@ place("db_path", <<>>) @@ all,
     setting("port", <<"-2">>) @@ place("db_path", <<"/", "usr", "db">>) @@ all,
     setting("host", <<"localhost">>) @@ place("lang_alpha_path", <<>>) @@ all,
     setting("log_type", <<"Syslog">>) @@ setting("log_level", <<"Verbose">>)
       @@ place("lang_key_words_path", <<"/", "data">>) @@ all,
     without(<<"irs-server", "port">>), without(<<"irs-memory", "db_path">>)}

MCNumber ==
    [v \in Values |->
        CASE v = <<"7091">> -> 7091 [] v = <<"70000">> -> 70000
          [] v = <<"-2">> -> -2 [] v = <<"127.0.0.1">> -> 127
          [] OTHER -> NotANumber]
=============================================================================
