---------------------------- MODULE MCLogConfig ----------------------------
(***************************************************************************)
(* Instances of LogConfig for TLC: every document of at most two nodes out *)
(* of a small set of nodes.                                                *)
(***************************************************************************)
EXTENDS LogConfig

CONSTANTS root, sys, file, none

\* Every pattern of at most five characters; m is an item, z is not.
MCPatterns == UNION {[1..n -> {"%", "{", "}", "m", "z", " "}] : n \in 0..5}

MCItemNames == {<<"m">>}

p0 == <<"%", "m", "{", "%", "}">>
p1 == <<"z", "%", "%", "m">>
bad == <<"%", "m", "{">>

FileNode(f, p, lv) ==
    [type |-> "FileLogAppender", file |-> f, level |-> lv, formatter |-> p]

StdoutNode(p) == [type |-> "StdoutLogAppender", file |-> none, level |-> none, formatter |-> p]

\* Accepted, ignored and incomplete appenders
MCAppenders ==
    {<<>>, <<FileNode(file, none, "error")>>, <<FileNode(file, p1, none), StdoutNode(p1)>>,
     <<FileNode(none, none, none), FileNode(file, bad, none)>>,
     <<[type |-> "other", file |-> none, level |-> none, formatter |-> none]>>}

MCNodes ==
    [name : {sys}, level : {"info", "ERROR", none}, formatter : {p1, bad, none},
     appenders : MCAppenders]
    \cup [name : {root}, level : {"warn", "UNKNOW"}, formatter : {none},
          appenders : {<<>>, <<StdoutNode(none)>>}]
    \cup [name : {none}, level : {none}, formatter : {none}, appenders : {<<>>}]

MCDocs == {<<>>} \cup {<<m>> : m \in MCNodes} \cup {<<m, n>> : m \in MCNodes, n \in MCNodes}
=============================================================================
