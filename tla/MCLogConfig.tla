----------------------------- MODULE MCLogConfig -----------------------------
(***************************************************************************)
(* Logging configurations for TLC.  In the texts of Distinct, entries of   *)
(* one name that differ in their appenders differ in level or formatter    *)
(* too; those of All are free.                                             *)
(***************************************************************************)
EXTENDS LogConfig

MCLogNames == <<"db", "net">>
WithRoot == <<"db", "root">>

One == <<[type |-> Stdout]>>
Two == <<[type |-> File, file |-> "a.log", level |-> "ERROR", formatter |-> "f1"],
         [type |-> File], [type |-> "SocketAppender"], [file |-> "b.log"],
         [type |-> Stdout, formatter |-> "bad"], [type |-> File, file |-> ""]>>

Quiet(x) == [name |-> x, level |-> "error", formatter |-> "f1", appenders |-> One]
Chatty(x) == [name |-> x, level |-> "DEBUG", appenders |-> Two]
Broken(x) == [name |-> x, level |-> "verbose", formatter |-> "bad"]

Entries(x) == {Quiet(x), Chatty(x), Broken(x)}
Distinct ==
    {<<>>, <<[level |-> "info", appenders |-> One]>>}
      \cup {<<e>> : e \in Entries("db") \cup Entries("net")}
      \cup {<<e, f>> : e \in Entries("db"), f \in Entries("net") \cup Entries("db")}
Small == {<<>>} \cup {<<e>> : e \in Entries("db")} \cup {<<Quiet("db"), Chatty("net")>>}
All == {<<[name |-> "db", level |-> lv, formatter |-> "f1"]>> : lv \in {"debug", "error"}}
         \cup {<<Quiet("db")>>}
=============================================================================
