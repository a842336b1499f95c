------------------------------ MODULE Pipeline ------------------------------
(***************************************************************************)
(* brod's commands as processes: `brod collect` writing a snapshot to a file *)
(* or to a pipe, and one `brod scan`, `cost` or `sample` reading that file,  *)
(* that pipe, or neither.  Processes can be killed, devices can fill up, and *)
(* a collect may rewrite the file while the other command reads it.          *)
(*                                                                           *)
(* A document is its bytes: Size[d] of JSON and the line feed cmdCollect      *)
(* appends.  Documents of equal size have the same layout, so what json       *)
(* makes of bytes of two documents depends on their positions only.           *)
(***************************************************************************)
EXTENDS Integers, Sequences

CONSTANTS
    Docs,           \* snapshots that collections of clusters can yield
    Demo,           \* sample_snapshot.json, embedded in the binary
    Size,           \* document -> bytes of JSON
    Files,          \* bound: what collects before may have left in the file
    Commands,       \* bound: the reading command lines explored, see cmd
    MaxCollects     \* bound: runs of brod collect

VARIABLES
    present,    \* the snapshot file exists
    file,       \* its bytes
    pipe,       \* the bytes written to the pipe so far
    out,        \* collect: its destination, "file" or "stdout"
    writer,     \* collect: "none", "collecting", "opening", "writing", or how
                \* it ended: "succeeded", "failed" or "killed"
    doc,        \* collect: the document it holds, Demo for none
    written,    \* collect: bytes written so far
    collects,   \* collect: runs so far
    cmd,        \* the reading command's line, its stdin and its stdout
    phase,      \* where the reading command is; "ended" after os.Exit
    src,        \* what it reads: "none", "file" or "stdin"
    got,        \* the bytes it has
    usedDemo,   \* readSnapshot's second result
    exit,       \* its exit status
    printed,    \* all of its output is on stdout
    demoLabel,  \* the output says that it is about the demo snapshot
    rewritten   \* history: the file was truncated while it was being read

collector == <<present, file, pipe, out, writer, doc, written, collects>>
reader == <<cmd, phase, src, got, usedDemo, exit, printed, demoLabel>>
vars == <<collector, reader, rewritten>>

CommandLines ==
    [name : {"scan", "cost", "sample", "version", "unknown"}, flagsOK : BOOLEAN,
     bootstrap : BOOLEAN, snapshot : {"", "-", "file"}, json : BOOLEAN,
     stdin : {"terminal", "redirect", "pipe"}, stdoutOK : BOOLEAN]

Running == {"collecting", "opening", "writing"}
Ended == {"succeeded", "failed", "killed"}

LineFeed == <<Demo, 0>>
Bytes(d) == [i \in 1 .. Size[d] + 1 |-> IF i <= Size[d] THEN <<d, i>> ELSE LineFeed]

\* What a collect has left that wrote n bytes of its document.
Left(d, n) == [i \in 1 .. n |-> Bytes(d)[i]]

ASSUME PipelineAssumption ==
    /\ Demo \notin Docs
    /\ Size \in [Docs \cup {Demo} -> Nat \ {0}]
    /\ \A f \in Files : \E d \in Docs : \E n \in 0 .. Size[d] + 1 : f = Left(d, n)
    /\ Commands \subseteq CommandLines
    /\ MaxCollects \in Nat

\* json.Unmarshal: one value, whose closing brace is its last byte, and white
\* space after it.  Nothing, a value cut off, and a rest behind it are errors.
Closes(b) == b[2] = Size[b[1]]
Unmarshals(c) ==
    \E n \in DOMAIN c :
        /\ \A i \in 1 .. n : c[i][2] = i /\ (Closes(c[i]) <=> i = n)
        /\ \A i \in n + 1 .. Len(c) : c[i] = LineFeed

\* The bytes of one document, the line feed aside.
IsWhole(c) ==
    \E d \in Docs :
        /\ Len(c) >= Size[d]
        /\ \A i \in DOMAIN c : c[i] = IF i <= Size[d] THEN <<d, i>> ELSE LineFeed

Init ==
    /\ cmd \in Commands
    /\ \E f \in Files \cup {<<>>} : present \in BOOLEAN /\ file = f
    /\ ~present => file = <<>>
    /\ cmd.stdin = "redirect" => present
    /\ pipe = <<>>
    \* The shell starts both ends of a pipe.
    /\ IF cmd.stdin = "pipe" THEN out = "stdout" /\ writer = "collecting" /\ collects = 1
                             ELSE out = "file" /\ writer = "none" /\ collects = 0
    /\ doc = Demo /\ written = 0
    /\ phase = "main" /\ src = "none" /\ got = <<>> /\ usedDemo = FALSE
    /\ exit = 0 /\ printed = FALSE /\ demoLabel = FALSE
    /\ rewritten = FALSE

(***************************************************************************)
(* cmdCollect.  Slips: an operator named Slip_... is its neighbour with a     *)
(* plausible mistake, used to check that a property would notice it.          *)
(***************************************************************************)
\* Slip: the output file is created before the cluster is contacted.
Slip_CreateFirst ==
    /\ writer \notin Running /\ collects < MaxCollects
    /\ collects' = collects + 1
    /\ out' = "file" /\ writer' = "collecting" /\ doc' = Demo /\ written' = 0
    /\ present' = TRUE /\ file' = <<>>
    /\ UNCHANGED <<pipe, reader, rewritten>>

\* brod collect --out FILE, one at a time.
StartCollect ==
    /\ writer \notin Running /\ collects < MaxCollects
    /\ collects' = collects + 1
    /\ out' = "file" /\ writer' = "collecting" /\ doc' = Demo /\ written' = 0
    /\ UNCHANGED <<present, file, pipe, reader, rewritten>>

\* connectAndCollect (module Live) returns a snapshot, then MarshalIndent.
CollectOK(d) ==
    /\ writer = "collecting"
    /\ doc' = d
    /\ writer' = IF out = "stdout" THEN "writing" ELSE "opening"
    /\ UNCHANGED <<present, file, pipe, out, written, collects, reader, rewritten>>

\* Slip: the error is not returned, and what there is is written all the same.
Slip_ErrorIgnored ==
    /\ writer = "collecting"
    /\ writer' = IF out = "stdout" THEN "writing" ELSE "opening"
    /\ UNCHANGED <<present, file, pipe, out, doc, written, collects, reader, rewritten>>

CollectError ==
    /\ writer = "collecting"
    /\ writer' = "failed"
    /\ UNCHANGED <<present, file, pipe, out, doc, written, collects, reader, rewritten>>

ReadingFile == phase = "reading" /\ (src = "file" \/ cmd.stdin = "redirect")

\* Slip: the old contents are left in place and overwritten.
Slip_NoTruncate ==
    /\ writer = "opening"
    /\ writer' = "writing"
    /\ present' = TRUE
    /\ UNCHANGED <<file, pipe, out, doc, written, collects, reader, rewritten>>

\* os.WriteFile: the file is created or truncated first.
OpenOut ==
    /\ writer = "opening"
    /\ writer' = "writing"
    /\ present' = TRUE /\ file' = <<>>
    /\ rewritten' = (rewritten \/ ReadingFile)
    /\ UNCHANGED <<pipe, out, doc, written, collects, reader>>

OpenError ==
    /\ writer = "opening"
    /\ writer' = "failed"
    /\ UNCHANGED <<present, file, pipe, out, doc, written, collects, reader, rewritten>>

\* What a write of the document's bytes up to n leaves of contents c.
WriteAt(c, n) ==
    [i \in 1 .. IF Len(c) > n THEN Len(c) ELSE n |->
        IF written < i /\ i <= n THEN Bytes(doc)[i] ELSE c[i]]

\* The kernel may take the bytes in several pieces; os goes on with the rest.
Write(n) ==
    /\ writer = "writing"
    /\ written < n
    /\ written' = n
    /\ IF out = "file" THEN file' = WriteAt(file, n) /\ pipe' = pipe
                       ELSE pipe' = WriteAt(pipe, n) /\ file' = file
    /\ UNCHANGED <<present, out, writer, doc, collects, reader, rewritten>>

\* The device is full, or fails: exit status 1 with part of the bytes written.
WriteError ==
    /\ writer = "writing"
    /\ writer' = "failed"
    /\ UNCHANGED <<present, file, pipe, out, doc, written, collects, reader, rewritten>>

\* Slip: a short write counts as done.
Slip_ShortWrite ==
    /\ writer = "writing" /\ written > 0
    /\ writer' = "succeeded"
    /\ UNCHANGED <<present, file, pipe, out, doc, written, collects, reader, rewritten>>

WriteDone ==
    /\ writer = "writing" /\ written = Size[doc] + 1
    /\ writer' = "succeeded"
    /\ UNCHANGED <<present, file, pipe, out, doc, written, collects, reader, rewritten>>

\* The process is killed; what it wrote is kept.
Kill ==
    /\ writer \in Running
    /\ writer' = "killed"
    /\ UNCHANGED <<present, file, pipe, out, doc, written, collects, reader, rewritten>>

(***************************************************************************)
(* main, cmdScan, cmdCost, cmdSample.                                         *)
(***************************************************************************)
Exit(status) == phase' = "ended" /\ exit' = status

\* The cases of main that end without reading a snapshot.
Dispatch ==
    /\ phase = "main"
    /\ \/ /\ cmd.name = "unknown"
          /\ Exit(2)
          /\ UNCHANGED printed
       \/ /\ cmd.name = "version"
          /\ Exit(0)
          /\ printed' = cmd.stdoutOK
       \/ /\ cmd.name = "sample"
          /\ Exit(IF cmd.stdoutOK THEN 0 ELSE 1)
          /\ printed' = cmd.stdoutOK
       \/ /\ cmd.name \in {"scan", "cost"} /\ ~cmd.flagsOK
          /\ Exit(1)
          /\ UNCHANGED printed
    /\ UNCHANGED <<collector, cmd, src, got, usedDemo, demoLabel, rewritten>>

Loads == phase = "main" /\ cmd.name \in {"scan", "cost"} /\ cmd.flagsOK

\* Live mode: the snapshot never becomes JSON.
LiveOK(d) ==
    /\ Loads /\ cmd.bootstrap
    /\ got' = Bytes(d)
    /\ phase' = "render"
    /\ UNCHANGED <<collector, cmd, src, usedDemo, exit, printed, demoLabel, rewritten>>

LiveError ==
    /\ Loads /\ cmd.bootstrap
    /\ Exit(1)
    /\ UNCHANGED <<collector, cmd, src, got, usedDemo, printed, demoLabel, rewritten>>

UseDemo == got' = Bytes(Demo) /\ usedDemo' = TRUE /\ phase' = "decode"

\* readSnapshot's choice of a source; a terminal on stdin is not waited for
\* unless '-' asks for it.
readSnapshot ==
    /\ Loads /\ ~cmd.bootstrap
    /\ \/ /\ cmd.snapshot = "-" \/ (cmd.snapshot = "" /\ cmd.stdin # "terminal")
          /\ src' = "stdin" /\ phase' = "reading"
          /\ UNCHANGED <<got, usedDemo, exit>>
       \/ /\ cmd.snapshot = "file" /\ present
          /\ src' = "file" /\ phase' = "reading"
          /\ UNCHANGED <<got, usedDemo, exit>>
       \/ /\ cmd.snapshot = "file" /\ ~present
          /\ Exit(1)
          /\ UNCHANGED <<src, got, usedDemo>>
       \/ /\ cmd.snapshot = "" /\ cmd.stdin = "terminal"
          /\ UseDemo
          /\ UNCHANGED <<src, exit>>
    /\ UNCHANGED <<collector, cmd, printed, demoLabel, rewritten>>

Input ==
    IF src = "file" \/ cmd.stdin = "redirect" THEN file
    ELSE IF cmd.stdin = "pipe" THEN pipe ELSE <<>>

\* A pipe ends when its writer has.
Producing == src = "stdin" /\ cmd.stdin = "pipe" /\ out = "stdout" /\ writer \in Running

\* One read of os.ReadFile or io.ReadAll: some of the bytes behind those it has.
Read(n) ==
    /\ phase = "reading"
    /\ Len(got) < n
    /\ got' = got \o SubSeq(Input, Len(got) + 1, n)
    /\ UNCHANGED <<collector, cmd, phase, src, usedDemo, exit, printed, demoLabel, rewritten>>

AtEnd == phase = "reading" /\ Len(Input) <= Len(got) /\ ~Producing

\* Slip: whatever was named, nothing read means the demo.
Slip_EmptyIsDemo ==
    /\ AtEnd
    /\ IF got = <<>> THEN UseDemo
       ELSE phase' = "decode" /\ UNCHANGED <<got, usedDemo>>
    /\ UNCHANGED <<collector, cmd, src, exit, printed, demoLabel, rewritten>>

\* Slip: a reader that got nothing yet tries again.
Slip_WaitForData ==
    /\ AtEnd /\ got # <<>>
    /\ phase' = "decode"
    /\ UNCHANGED <<collector, cmd, src, got, usedDemo, exit, printed, demoLabel, rewritten>>

\* Only without --snapshot does an empty stdin stand for the demo.
EndOfInput ==
    /\ AtEnd
    /\ IF cmd.snapshot = "" /\ got = <<>> THEN UseDemo
       ELSE phase' = "decode" /\ UNCHANGED <<got, usedDemo>>
    /\ UNCHANGED <<collector, cmd, src, exit, printed, demoLabel, rewritten>>

ReadError ==
    /\ phase = "reading"
    /\ Exit(1)
    /\ UNCHANGED <<collector, cmd, src, got, usedDemo, printed, demoLabel, rewritten>>

\* Slip: the error of json.Unmarshal is not returned.
Slip_IgnoreDecodeError ==
    /\ phase = "decode"
    /\ IF Unmarshals(got) THEN phase' = "render" /\ UNCHANGED exit ELSE Exit(0)
    /\ UNCHANGED <<collector, cmd, src, got, usedDemo, printed, demoLabel, rewritten>>

Decode ==
    /\ phase = "decode"
    /\ IF Unmarshals(got) THEN phase' = "render" /\ UNCHANGED exit ELSE Exit(1)
    /\ UNCHANGED <<collector, cmd, src, got, usedDemo, printed, demoLabel, rewritten>>

\* JSON output returns the error of its writer, text does not look at it.  Only
\* scan's text knows about the demo: loadSnapshot drops usedDemo, and emitJSON
\* is not given it.
Render ==
    /\ phase = "render"
    /\ Exit(IF cmd.json /\ ~cmd.stdoutOK THEN 1 ELSE 0)
    /\ printed' = cmd.stdoutOK
    /\ demoLabel' = (usedDemo /\ cmd.name = "scan" /\ ~cmd.json)
    /\ UNCHANGED <<collector, cmd, src, got, usedDemo, rewritten>>

Over == phase = "ended" /\ writer \notin Running /\ UNCHANGED vars

Main == Dispatch \/ readSnapshot \/ Decode \/ Render

Next ==
    \/ StartCollect \/ (\E d \in Docs : CollectOK(d)) \/ CollectError
    \/ OpenOut \/ OpenError
    \/ \E n \in 1 .. Size[doc] + 1 : Write(n)
    \/ WriteError \/ WriteDone \/ Kill
    \/ Main \/ (\E d \in Docs : LiveOK(d)) \/ LiveError
    \/ (\E n \in 1 .. Len(Input) : Read(n)) \/ EndOfInput \/ ReadError
    \/ Over

Spec == Init /\ [][Next]_vars

\* '-' on a terminal waits for whoever sits there.
OnTerminal == src = "stdin" /\ cmd.stdin = "terminal"

\* connectAndCollect returns (Live!Returns), writes and reads of files return,
\* and a process runs its own steps.  Nobody has to start a collect.
FairSpec ==
    /\ Spec
    /\ WF_vars((\E d \in Docs : CollectOK(d)) \/ CollectError)
    /\ WF_vars(OpenOut \/ OpenError)
    /\ WF_vars((\E n \in 1 .. Size[doc] + 1 : Write(n)) \/ WriteError \/ WriteDone)
    /\ WF_vars(Main \/ (\E d \in Docs : LiveOK(d)) \/ LiveError)
    /\ WF_vars((\E n \in 1 .. Len(Input) : Read(n)) \/ (EndOfInput /\ ~OnTerminal))

(***************************************************************************)
(* Properties.                                                               *)
(***************************************************************************)
\* The processes' state is well formed; a collect that opens or writes its
\* output has a cluster's snapshot to write, and never writes past it
\* (live.go:177-196).
TypeOK ==
    /\ present \in BOOLEAN /\ out \in {"file", "stdout"}
    /\ writer \in {"none"} \cup Running \cup Ended
    /\ doc \in Docs \cup {Demo}
    /\ writer \in {"opening", "writing", "succeeded"} => doc # Demo
    /\ written \in 0 .. Size[doc] + 1
    /\ cmd \in CommandLines
    /\ phase \in {"main", "reading", "decode", "render", "ended"}
    /\ src \in {"none", "file", "stdin"}
    /\ usedDemo \in BOOLEAN /\ printed \in BOOLEAN /\ demoLabel \in BOOLEAN
    /\ exit \in 0 .. 2 /\ rewritten \in BOOLEAN

Reported == phase = "ended" /\ cmd.name \in {"scan", "cost"} /\ exit = 0

\* Whatever was in the file before, longer or cut off by a crash, a collect that
\* exits with 0 has left exactly its document there, or in the pipe
\* (live.go:183-197).
SuccessIsStored ==
    writer = "succeeded" => (IF out = "file" THEN file ELSE pipe) = Bytes(doc)

\* A command that read a file or a pipe and exits with 0 reports on one whole
\* document, never on what a failed, killed or unfinished collect left of one or
\* on pieces of two, provided the file was not truncated while it was read
\* (live.go:186-196, main.go:134-137, 174-200).
WholeOrError == Reported /\ ~usedDemo /\ ~rewritten => IsWhole(got)

\* The demo is only reported on when no source was named and stdin delivered
\* nothing, and scan's text then says so (main.go:174-200, report.go:18-20).
DemoUnasked ==
    Reported /\ (usedDemo \/ got = Bytes(Demo)) =>
        /\ ~cmd.bootstrap /\ cmd.snapshot = ""
        /\ cmd.stdin = "pipe" =>
               pipe = <<>> /\ ~(out = "stdout" /\ writer = "succeeded")
        /\ cmd.name = "scan" /\ ~cmd.json => demoLabel

\* Exit status and output agree: after a failure nothing was reported, and
\* after a success all of it was, but for the two outputs whose write errors
\* nobody looks at, scan's and cost's text and version's line, on a stdout that
\* fails (main.go:39-67, 165-169, 202-211; cost.go:91-95).
ExitHonest ==
    phase = "ended" =>
        /\ exit # 0 => ~printed
        /\ exit = 0 /\ ~printed =>
               /\ ~cmd.stdoutOK
               /\ cmd.name = "version" \/ (cmd.name \in {"scan", "cost"} /\ ~cmd.json)

\* A collect without a snapshot in hand leaves the previous file as it is, so a
\* failing cluster costs nobody an earlier snapshot (live.go:177-192).
KeepsOld == [][file' # file => writer \in {"opening", "writing"}]_vars

\* Every command ends, at the other end of a pipe too, unless it was told to
\* read from a terminal (main.go:174-200).
Ends == <>(phase = "ended" \/ OnTerminal)
=============================================================================
