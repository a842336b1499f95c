----------------------------- MODULE MCPipeline -----------------------------
(* Documents of one layout and of another, and the command lines that differ *)
(* in what they do.                                                          *)
EXTENDS Pipeline

CONSTANTS old, new, longer

MCDocs == {old, new, longer}
MCSize == [d \in MCDocs \cup {Demo} |->
              CASE d = longer -> 3 [] d = Demo -> 1 [] OTHER -> 2]

\* Before: an earlier snapshot, whole or as a crash left it.
MCFiles == {Bytes(old), SubSeq(Bytes(old), 1, 1), Bytes(longer)}

Line(name, flagsOK, bootstrap, snapshot, json, stdin, stdoutOK) ==
    [name |-> name, flagsOK |-> flagsOK, bootstrap |-> bootstrap, snapshot |-> snapshot,
     json |-> json, stdin |-> stdin, stdoutOK |-> stdoutOK]

\* Every source and every kind of stdin, the live mode, a full device on
\* stdout, and the commands that read nothing.
MCCommands ==
    {Line(name, TRUE, FALSE, snapshot, json, stdin, TRUE) :
        name \in {"scan", "cost"}, snapshot \in {"", "-", "file"}, json \in BOOLEAN,
        stdin \in {"terminal", "redirect", "pipe"}}
    \cup {Line(name, TRUE, bootstrap, "file", json, "terminal", FALSE) :
        name \in {"scan", "cost"}, bootstrap \in BOOLEAN, json \in BOOLEAN}
    \cup {Line(name, TRUE, TRUE, snapshot, FALSE, "pipe", TRUE) :
        name \in {"scan", "cost"}, snapshot \in {"", "file"}}
    \cup {Line(name, flagsOK, FALSE, "", FALSE, "terminal", stdoutOK) :
        name \in {"scan", "sample", "version", "unknown"}, flagsOK \in BOOLEAN, stdoutOK \in BOOLEAN}
=============================================================================
