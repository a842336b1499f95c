--------------------------- MODULE PipelineProofs ---------------------------
(***************************************************************************)
(* Proofs about Pipeline, for any documents, any earlier contents of the      *)
(* file, any command lines and any number of collects.                        *)
(***************************************************************************)
EXTENDS Pipeline, TLAPS

Byte == ((Docs \cup {Demo}) \X Nat) \cup {LineFeed}

\* Bytes of a document are a sequence, and writing some leaves the first ones.
LEMMA LeftSeq ==
    ASSUME NEW d \in Docs \cup {Demo}, NEW n \in 0 .. Size[d] + 1
    PROVE  /\ Left(d, n) \in Seq(Byte) /\ Len(Left(d, n)) = n
           /\ \A i \in 1 .. n : Left(d, n)[i] = IF i <= Size[d] THEN <<d, i>> ELSE LineFeed
<1>1. Size[d] \in Nat \ {0} /\ n \in Nat
  BY PipelineAssumption
<1>2. \A i \in 1 .. n : Bytes(d)[i] = IF i <= Size[d] THEN <<d, i>> ELSE LineFeed
  BY <1>1 DEF Bytes
<1>3. \A i \in 1 .. n : Bytes(d)[i] \in Byte
  <2> SUFFICES ASSUME NEW i \in 1 .. n PROVE Bytes(d)[i] \in Byte
      OBVIOUS
  <2>1. <<d, i>> \in (Docs \cup {Demo}) \X Nat
    BY <1>1
  <2>2. <<d, i>> \in Byte /\ LineFeed \in Byte
    BY <2>1, Zenon DEF Byte
  <2> QED BY <1>2, <2>2
<1>4. Left(d, n) \in [1 .. n -> Byte]
  BY <1>3 DEF Left
<1>5. Left(d, n) \in Seq(Byte)
  BY <1>1, <1>4
<1>6. Len(Left(d, n)) = n
  BY <1>1, <1>4, <1>5
<1> QED BY <1>2, <1>5, <1>6 DEF Left

\* All of them are the document.
LEMMA LeftAll ==
    ASSUME NEW d \in Docs \cup {Demo} PROVE Left(d, Size[d] + 1) = Bytes(d)
  BY PipelineAssumption DEF Left, Bytes

\* A write goes on where the bytes before it ended.
LEMMA WriteLeft ==
    ASSUME NEW c, written \in 0 .. Size[doc] + 1, doc \in Docs, c = Left(doc, written),
           NEW n \in 1 .. Size[doc] + 1, written < n
    PROVE  WriteAt(c, n) = Left(doc, n)
<1>1. Size[doc] \in Nat \ {0} /\ n \in Nat /\ written \in Nat
  BY PipelineAssumption
<1>2. Len(c) = written /\ \A i \in 1 .. written : c[i] = Bytes(doc)[i]
  BY <1>1, LeftSeq DEF Left
<1>3. WriteAt(c, n) = [i \in 1 .. n |-> IF written < i /\ i <= n THEN Bytes(doc)[i] ELSE c[i]]
  BY <1>1, <1>2 DEF WriteAt
<1>4. \A i \in 1 .. n : (IF written < i /\ i <= n THEN Bytes(doc)[i] ELSE c[i]) = Bytes(doc)[i]
  BY <1>1, <1>2
<1> QED BY <1>3, <1>4 DEF Left

\* json accepts what a collect has left only if its JSON is whole.
LEMMA LeftWhole ==
    ASSUME NEW d \in Docs, NEW n \in 0 .. Size[d] + 1, Unmarshals(Left(d, n))
    PROVE  IsWhole(Left(d, n))
<1> DEFINE c == Left(d, n)
<1>1. Size[d] \in Nat \ {0} /\ n \in Nat /\ Demo \notin Docs
  BY PipelineAssumption
<1>2. /\ DOMAIN c = 1 .. n /\ Len(c) = n
      /\ \A i \in 1 .. n : c[i] = IF i <= Size[d] THEN <<d, i>> ELSE LineFeed
  BY <1>1, LeftSeq DEF Left
<1>3. PICK m \in 1 .. n : c[m][2] = m /\ Closes(c[m])
  BY <1>1, <1>2 DEF Unmarshals
<1>4. m <= Size[d]
  BY <1>1, <1>2, <1>3 DEF LineFeed
<1>5. c[m] = <<d, m>>
  BY <1>2, <1>4
<1>6. m = Size[d]
  BY <1>3, <1>5 DEF Closes
<1>7. Len(c) >= Size[d]
  BY <1>1, <1>2, <1>6
<1> QED BY <1>2, <1>7 DEF IsWhole

-----------------------------------------------------------------------------
(* Steps of brod collect leave the reading command alone, and its steps leave *)
(* the collect alone.                                                         *)

CollectStep ==
    \/ StartCollect \/ (\E d \in Docs : CollectOK(d)) \/ CollectError
    \/ OpenOut \/ OpenError
    \/ \E n \in 1 .. Size[doc] + 1 : Write(n)
    \/ WriteError \/ WriteDone \/ Kill

ReaderStep ==
    \/ Dispatch \/ readSnapshot \/ Decode \/ Render
    \/ (\E d \in Docs : LiveOK(d)) \/ LiveError
    \/ (\E n \in 1 .. Len(Input) : Read(n)) \/ EndOfInput \/ ReadError

\* Every step is one process's.
LEMMA StepOf ==
    ASSUME [Next]_vars
    PROVE  \/ CollectStep /\ UNCHANGED reader
           \/ ReaderStep /\ UNCHANGED <<collector, rewritten>>
           \/ UNCHANGED vars
<1>1. CollectStep => UNCHANGED reader
  BY DEF CollectStep, StartCollect, CollectOK, CollectError, OpenOut, OpenError, Write,
         WriteError, WriteDone, Kill
<1>2. ReaderStep => UNCHANGED <<collector, rewritten>>
  BY DEF ReaderStep, Dispatch, readSnapshot, Decode, Render, LiveOK, LiveError, Read,
         EndOfInput, ReadError
<1>3. [Next]_vars => CollectStep \/ ReaderStep \/ UNCHANGED vars
  BY DEF Next, Main, Over, CollectStep, ReaderStep
<1> QED BY <1>1, <1>2, <1>3

-----------------------------------------------------------------------------
(* Types.                                                                    *)

\* A collect has written nothing before it opens its file, and then it has a
\* document.
TypeInv ==
    /\ TypeOK
    /\ writer \in {"collecting", "opening"} => written = 0
    /\ writer \in {"opening", "writing", "succeeded"} => doc \in Docs
    /\ writer = "opening" => out = "file"

\* The processes start well typed.
LEMMA TypeInit == Init => TypeInv
<1> SUFFICES ASSUME Init PROVE TypeInv
    OBVIOUS
<1>1. Size[Demo] \in Nat /\ cmd \in CommandLines
  BY PipelineAssumption DEF Init
<1>2. /\ out \in {"file", "stdout"} /\ writer \in {"none", "collecting"}
      /\ out = "file" => writer = "none"
  BY DEF Init
<1>3. written = 0 /\ written \in 0 .. Size[doc] + 1 /\ doc = Demo
  BY <1>1 DEF Init
<1>4. /\ present \in BOOLEAN /\ phase = "main" /\ src = "none" /\ usedDemo \in BOOLEAN
      /\ printed \in BOOLEAN /\ demoLabel \in BOOLEAN /\ exit = 0 /\ rewritten \in BOOLEAN
  BY DEF Init
<1> QED BY <1>1, <1>2, <1>3, <1>4 DEF TypeInv, TypeOK, Running, Ended

\* Every step keeps the types.
LEMMA TypeStep == TypeInv /\ [Next]_vars => TypeInv'
<1> SUFFICES ASSUME TypeInv, [Next]_vars PROVE TypeInv'
    OBVIOUS
<1>1. CASE CollectStep /\ UNCHANGED reader
  <2>1. /\ Size[doc] \in Nat /\ Size[Demo] \in Nat /\ Demo \notin Docs
        /\ \A d \in Docs : Size[d] \in Nat
    BY PipelineAssumption DEF TypeInv, TypeOK
  <2> USE DEF TypeInv, TypeOK, Running, Ended, reader
  <2>2. CASE StartCollect
    BY <1>1, <2>1, <2>2 DEF StartCollect
  <2>3. ASSUME NEW d \in Docs, CollectOK(d) PROVE TypeInv'
    BY <1>1, <2>1, <2>3 DEF CollectOK
  <2>4. CASE CollectError \/ OpenError \/ WriteError \/ WriteDone \/ Kill
    BY <1>1, <2>4 DEF CollectError, OpenError, WriteError, WriteDone, Kill
  <2>5. CASE OpenOut
    BY <1>1, <2>5 DEF OpenOut, ReadingFile
  <2>6. ASSUME NEW n \in 1 .. Size[doc] + 1, Write(n) PROVE TypeInv'
    BY <1>1, <2>1, <2>6 DEF Write
  <2> QED BY <1>1, <2>2, <2>3, <2>4, <2>5, <2>6 DEF CollectStep
<1>2. CASE ReaderStep /\ UNCHANGED <<collector, rewritten>>
  <2>1. cmd' = cmd /\ cmd.stdoutOK \in BOOLEAN
    BY <1>2 DEF ReaderStep, Dispatch, readSnapshot, Decode, Render, LiveOK, LiveError,
                Read, EndOfInput, ReadError, TypeInv, TypeOK, CommandLines
  <2>2. /\ phase' \in {"main", "reading", "decode", "render", "ended"}
        /\ src' \in {"none", "file", "stdin"} /\ usedDemo' \in BOOLEAN
        /\ exit' \in 0 .. 2 /\ printed' \in BOOLEAN /\ demoLabel' \in BOOLEAN
    <3> USE DEF TypeInv, TypeOK, Exit
    <3>1. CASE Dispatch
      BY <2>1, <3>1 DEF Dispatch
    <3>2. CASE readSnapshot
      <4>1. /\ UNCHANGED <<printed, demoLabel>>
            /\ \/ phase' = "reading" /\ src' \in {"stdin", "file"} /\ UNCHANGED <<exit, usedDemo>>
               \/ phase' = "ended" /\ exit' = 1 /\ UNCHANGED <<src, usedDemo>>
               \/ phase' = "decode" /\ usedDemo' = TRUE /\ UNCHANGED <<src, exit>>
        BY <3>2, Zenon DEF readSnapshot, UseDemo, Exit
      <4>2. usedDemo' \in BOOLEAN /\ printed' \in BOOLEAN /\ demoLabel' \in BOOLEAN
        BY <4>1, Zenon
      <4>3. exit' \in 0 .. 2
        BY <4>1
      <4>4. /\ phase' \in {"main", "reading", "decode", "render", "ended"}
            /\ src' \in {"none", "file", "stdin"}
        BY <4>1
      <4> QED BY <4>2, <4>3, <4>4
    <3>3. CASE Decode \/ LiveError \/ ReadError
      BY <3>3 DEF Decode, LiveError, ReadError
    <3>4. CASE Render
      <4>1. demoLabel' \in BOOLEAN
        BY <3>4 DEF Render
      <4> QED BY <2>1, <3>4, <4>1 DEF Render
    <3>5. CASE \/ \E d \in Docs : LiveOK(d)
               \/ \E n \in 1 .. Len(Input) : Read(n)
      BY <3>5 DEF LiveOK, Read
    <3>6. CASE EndOfInput
      BY <3>6 DEF EndOfInput, UseDemo
    <3> QED BY <1>2, <3>1, <3>2, <3>3, <3>4, <3>5, <3>6 DEF ReaderStep
  <2> QED BY <1>2, <2>1, <2>2 DEF collector, TypeInv, TypeOK
<1>3. CASE UNCHANGED vars
  BY <1>3 DEF vars, collector, reader, TypeInv, TypeOK
<1> QED BY <1>1, <1>2, <1>3, StepOf

\* Every reachable state is well typed: no collect writes past its document.
THEOREM TypeCorrect == Spec => []TypeOK
<1>1. TypeInv => TypeOK
  BY DEF TypeInv
<1> QED BY <1>1, TypeInit, TypeStep, PTL DEF Spec

-----------------------------------------------------------------------------
(* What is stored.                                                           *)

Destination == IF out = "file" THEN file ELSE pipe

\* Nothing, or the first bytes of one document.
Kept(c) == c = <<>> \/ \E d \in Docs : \E n \in 0 .. Size[d] + 1 : c = Left(d, n)

StoreInv ==
    /\ SuccessIsStored
    /\ writer = "collecting" /\ out = "stdout" => pipe = <<>>
    /\ writer = "writing" => Destination = Left(doc, written)
    /\ Kept(file) /\ Kept(pipe)

\* What is in the file at first was left by a collect, and the pipe is empty.
LEMMA StoreInit == Init => StoreInv
<1> SUFFICES ASSUME Init PROVE StoreInv
    OBVIOUS
<1>1. Kept(file)
  BY PipelineAssumption DEF Init, Kept
<1> QED BY <1>1 DEF Init, StoreInv, SuccessIsStored, Kept

\* Every step keeps it: opening truncates the file, and a write continues the
\* document.
LEMMA StoreStep == TypeInv /\ StoreInv /\ [Next]_vars => StoreInv'
<1> SUFFICES ASSUME TypeInv, StoreInv, [Next]_vars PROVE StoreInv'
    OBVIOUS
<1>1. \A d \in Docs : Left(d, 0) = <<>>
  BY DEF Left
<1>2. CASE CollectStep /\ UNCHANGED reader
  <2> USE DEF StoreInv, SuccessIsStored, Destination, Kept
  <2>1. CASE StartCollect
    BY <2>1 DEF StartCollect
  <2>2. ASSUME NEW d \in Docs, CollectOK(d) PROVE StoreInv'
    BY <1>1, <2>2 DEF CollectOK, TypeInv, TypeOK
  <2>3. CASE CollectError \/ OpenError \/ WriteError \/ Kill
    BY <2>3 DEF CollectError, OpenError, WriteError, Kill
  <2>4. CASE OpenOut
    <3>1. /\ doc \in Docs /\ written = 0 /\ out = "file" /\ doc' = doc /\ written' = 0
          /\ writer' = "writing" /\ file' = <<>> /\ UNCHANGED <<out, pipe>>
      BY <2>4 DEF OpenOut, TypeInv
    <3> QED BY <1>1, <3>1
  <2>5. ASSUME NEW n \in 1 .. Size[doc] + 1, Write(n) PROVE StoreInv'
    <3>1. /\ writer = "writing" /\ writer' = writer /\ written < n /\ written' = n
          /\ doc \in Docs /\ doc' = doc /\ out' = out
          /\ written \in 0 .. Size[doc] + 1
      BY <2>5 DEF Write, TypeInv, TypeOK
    <3>2. WriteAt(Destination, n) = Left(doc, n)
      BY <3>1, WriteLeft
    <3>3. Destination' = Left(doc, n)
      BY <2>5, <3>1, <3>2 DEF Write
    <3>4. Size[doc] \in Nat
      BY <3>1, PipelineAssumption
    <3>5. n \in 0 .. Size[doc] + 1
      BY <3>4
    <3>6. Kept(Left(doc, n))
      BY <3>1, <3>5
    <3>7. Kept(file)' /\ Kept(pipe)'
      BY <2>5, <3>1, <3>3, <3>6 DEF Write
    <3> QED BY <3>1, <3>3, <3>7
  <2>6. CASE WriteDone
    <3>1. /\ doc \in Docs /\ writer = "writing" /\ written = Size[doc] + 1
          /\ UNCHANGED <<file, pipe, out, doc, written>> /\ writer' = "succeeded"
      BY <2>6 DEF WriteDone, TypeInv
    <3>2. Left(doc, Size[doc] + 1) = Bytes(doc)
      BY <3>1, LeftAll
    <3>3. Bytes(doc)' = Bytes(doc)
      BY <3>1 DEF Bytes
    <3> QED BY <3>1, <3>2, <3>3
  <2> QED BY <1>2, <2>1, <2>2, <2>3, <2>4, <2>5, <2>6 DEF CollectStep
<1>3. CASE UNCHANGED collector
  BY <1>3 DEF collector, StoreInv, SuccessIsStored, Destination, Kept, Bytes, Left
<1> QED BY <1>2, <1>3, StepOf DEF vars

\* It holds all the time.
LEMMA StoreInvariant == Spec => [](TypeInv /\ StoreInv)
<1>1. Init => TypeInv /\ StoreInv
  BY TypeInit, StoreInit
<1>2. (TypeInv /\ StoreInv) /\ [Next]_vars => (TypeInv /\ StoreInv)'
  BY TypeStep, StoreStep
<1> QED BY <1>1, <1>2, PTL DEF Spec

\* A collect that exits with 0 has left exactly its document, whatever the file
\* held before and in however many pieces it was written (live.go:183-197).
THEOREM SuccessIsComplete == Spec => []SuccessIsStored
<1>1. StoreInv => SuccessIsStored
  BY DEF StoreInv
<1> QED BY <1>1, StoreInvariant, PTL

\* The file only changes under a collect that holds a snapshot (live.go:177-192).
THEOREM OldIsKept == Spec => KeepsOld
<1>1. [Next]_vars => [file' # file => writer \in {"opening", "writing"}]_vars
  <2> SUFFICES ASSUME [Next]_vars, file' # file
               PROVE  writer \in {"opening", "writing"}
      OBVIOUS
  <2>1. CollectStep
    BY StepOf DEF collector, vars
  <2> QED BY <2>1 DEF CollectStep, StartCollect, CollectOK, CollectError, OpenOut,
                     OpenError, Write, WriteError, WriteDone, Kill
<1> QED BY <1>1, PTL DEF Spec, KeepsOld

-----------------------------------------------------------------------------
(* What is read.                                                             *)

\* g is what a reader of s has so far.
Behind(g, s) == \E k \in 0 .. Len(s) : g = [i \in 1 .. k |-> s[i]]

\* The bytes in hand are a document's first ones as long as nobody truncated the
\* file in the meantime, and json then only lets a whole document pass.
ReaderInv ==
    /\ phase = "main" => got = <<>> /\ usedDemo = FALSE
    /\ phase = "reading" => usedDemo = FALSE
    /\ phase = "reading" /\ ~rewritten => Behind(got, Input)
    /\ phase = "decode" /\ ~usedDemo /\ ~rewritten => Kept(got)
    /\ (phase = "render" \/ Reported) /\ ~usedDemo /\ ~rewritten => IsWhole(got)

\* Nothing, or a document's first bytes, are a sequence.
LEMMA KeptSeq == ASSUME NEW c, Kept(c) PROVE c \in Seq(Byte)
<1>1. <<>> \in Seq(Byte)
  OBVIOUS
<1>2. ASSUME NEW d \in Docs, NEW n \in 0 .. Size[d] + 1 PROVE Left(d, n) \in Seq(Byte)
  BY LeftSeq
<1> QED BY <1>1, <1>2 DEF Kept

\* A reader of what a collect left holds what a shorter collect would have left.
LEMMA BehindKept == ASSUME NEW g, NEW s, Kept(s), Behind(g, s) PROVE Kept(g)
<1>1. PICK k \in 0 .. Len(s) : g = [i \in 1 .. k |-> s[i]]
  BY DEF Behind
<1>2. CASE s = <<>>
  <2>1. k = 0
    BY <1>2
  <2> QED BY <1>1, <2>1 DEF Kept
<1>3. ASSUME NEW d \in Docs, NEW n \in 0 .. Size[d] + 1, s = Left(d, n)
      PROVE  Kept(g)
  <2>1. Size[d] \in Nat /\ Len(s) = n /\ k \in 0 .. Size[d] + 1 /\ k <= n
    BY <1>3, LeftSeq, PipelineAssumption
  <2>2. \A i \in 1 .. k : s[i] = Bytes(d)[i]
    BY <1>3, <2>1 DEF Left
  <2>3. g = Left(d, k)
    BY <1>1, <2>2 DEF Left
  <2> QED BY <2>1, <2>3 DEF Kept
<1> QED BY <1>2, <1>3 DEF Kept

\* A sequence that agrees with s on all of its bytes.
LEMMA SameBytes ==
    ASSUME NEW h \in Seq(Byte), NEW s, \A i \in 1 .. Len(h) : h[i] = s[i]
    PROVE  h = [i \in 1 .. Len(h) |-> s[i]]
<1>1. h = [i \in 1 .. Len(h) |-> h[i]]
  OBVIOUS
<1> QED BY <1>1

\* A read appends the bytes that follow.
LEMMA ReadBehind ==
    ASSUME NEW g, NEW s \in Seq(Byte), Behind(g, s), NEW n \in 1 .. Len(s), Len(g) < n
    PROVE  Behind(g \o SubSeq(s, Len(g) + 1, n), s)
<1>1. PICK k \in 0 .. Len(s) : g = [i \in 1 .. k |-> s[i]]
  BY DEF Behind
<1>2. k \in Nat /\ Len(s) \in Nat /\ n \in Nat
  OBVIOUS
<1>3. \A i \in 1 .. k : s[i] \in Byte
  BY <1>2
<1>4. g \in Seq(Byte) /\ Len(g) = k
  BY <1>1, <1>2, <1>3
<1>5. /\ SubSeq(s, k + 1, n) \in Seq(Byte) /\ Len(SubSeq(s, k + 1, n)) = n - k
      /\ \A i \in 1 .. n - k : SubSeq(s, k + 1, n)[i] = s[k + i]
  BY <1>2, <1>4
<1>6. /\ g \o SubSeq(s, k + 1, n) \in Seq(Byte)
      /\ Len(g \o SubSeq(s, k + 1, n)) = n
      /\ \A i \in 1 .. n : (g \o SubSeq(s, k + 1, n))[i] = s[i]
  BY <1>1, <1>2, <1>4, <1>5
<1>7. PICK h \in Seq(Byte) : /\ h = g \o SubSeq(s, k + 1, n) /\ Len(h) = n
                             /\ \A i \in 1 .. n : h[i] = s[i]
  BY <1>6
<1>8. h = [i \in 1 .. n |-> s[i]]
  BY <1>7, SameBytes
<1>9. n \in 0 .. Len(s)
  BY <1>2
<1>10. Behind(h, s)
  BY <1>8, <1>9 DEF Behind
<1> QED BY <1>4, <1>7, <1>10, Zenon

\* A document's first bytes stay its first bytes when more are written.
LEMMA BehindGrows ==
    ASSUME NEW g, doc \in Docs, written \in 0 .. Size[doc] + 1,
           Behind(g, Left(doc, written)), NEW n \in 0 .. Size[doc] + 1, written < n
    PROVE  Behind(g, Left(doc, n))
<1>1. Len(Left(doc, written)) = written /\ Len(Left(doc, n)) = n
  BY LeftSeq
<1>2. PICK k \in 0 .. written : g = [i \in 1 .. k |-> Left(doc, written)[i]]
  BY <1>1 DEF Behind
<1>3. Size[doc] \in Nat /\ k \in 0 .. n
  BY PipelineAssumption
<1>4. \A i \in 1 .. k : Left(doc, written)[i] = Left(doc, n)[i]
  BY <1>3 DEF Left
<1> QED BY <1>1, <1>2, <1>3, <1>4 DEF Behind

\* A collect leaves what a reader has alone, unless it truncates its file.
LEMMA CollectReader ==
    ASSUME TypeInv, StoreInv, ReaderInv, CollectStep, UNCHANGED reader
    PROVE  ReaderInv'
<1>1. rewritten' = FALSE => rewritten = FALSE
  BY DEF CollectStep, StartCollect, CollectOK, CollectError, OpenOut, OpenError, Write,
         WriteError, WriteDone, Kill, TypeInv, TypeOK
<1>2. ASSUME phase = "reading", ~rewritten' PROVE Behind(got, Input')
  <2>1. Behind(got, Input)
    BY <1>1, <1>2 DEF ReaderInv, TypeInv, TypeOK
  <2>2. CASE UNCHANGED <<file, pipe>>
    BY <2>1, <2>2 DEF Input, reader
  <2>3. CASE OpenOut
    <3>1. ~ReadingFile /\ pipe' = pipe
      BY <1>2, <2>3 DEF OpenOut
    <3> QED BY <1>2, <2>1, <3>1 DEF ReadingFile, Input, reader
  <2>4. ASSUME NEW n \in 1 .. Size[doc] + 1, Write(n) PROVE Behind(got, Input')
    <3>1. /\ doc \in Docs /\ written \in 0 .. Size[doc] + 1 /\ written < n
          /\ Destination = Left(doc, written)
      BY <2>4 DEF Write, TypeInv, TypeOK, StoreInv
    <3>2. n \in 0 .. Size[doc] + 1
      BY <3>1, PipelineAssumption
    <3>3. IF out = "file" THEN file' = Left(doc, n) /\ pipe' = pipe
                          ELSE pipe' = Left(doc, n) /\ file' = file
      BY <2>4, <3>1, WriteLeft DEF Write, Destination
    <3>4. Input = Destination => Behind(got, Left(doc, n))
      BY <2>1, <3>1, <3>2, BehindGrows
    <3> QED BY <2>1, <3>3, <3>4 DEF Input, Destination, reader
  <2> QED BY <2>2, <2>3, <2>4 DEF CollectStep, StartCollect, CollectOK, CollectError,
                     OpenError, WriteError, WriteDone, Kill
<1>3. Kept(got)' <=> Kept(got)
  BY DEF reader, Kept, Left, Bytes
<1>4. IsWhole(got)' <=> IsWhole(got)
  BY DEF reader, IsWhole
<1>5. UNCHANGED <<phase, cmd, exit, got, usedDemo>>
  BY DEF reader
<1>6. rewritten' \in BOOLEAN /\ rewritten \in BOOLEAN
  BY DEF CollectStep, StartCollect, CollectOK, CollectError, OpenOut, OpenError, Write,
         WriteError, WriteDone, Kill, TypeInv, TypeOK
<1>7. Behind(got, Input)' <=> Behind(got, Input')
  BY <1>5 DEF Behind
<1> QED BY <1>1, <1>2, <1>3, <1>4, <1>5, <1>6, <1>7 DEF ReaderInv, Reported

\* A report of a command that ends with exit status 1 or 2 is none.
LEMMA FailedExit ==
    ASSUME NEW status \in {1, 2}, Exit(status)
    PROVE  phase' = "ended" /\ ~Reported'
  BY DEF Exit, Reported

\* The reading command goes on with what it has, or ends without a report.
LEMMA ReaderReader ==
    ASSUME TypeInv, StoreInv, ReaderInv, ReaderStep, UNCHANGED <<collector, rewritten>>
    PROVE  ReaderInv'
<1> DEFINE Rest == UNCHANGED <<cmd, rewritten, file, pipe, writer, out, doc, written>>
<1>1. Kept(Input) /\ Input \in Seq(Byte)
  <2>1. Kept(Input)
    BY DEF StoreInv, Input, Kept
  <2> QED BY <2>1, KeptSeq
<1>2. UNCHANGED <<file, pipe, rewritten>>
  BY DEF collector
<1>3. CASE Dispatch
  <2>1. phase' = "ended" /\ cmd' = cmd
    BY <1>3 DEF Dispatch, Exit
  <2>2. ~Reported'
    BY <1>3, <2>1 DEF Dispatch, Exit, Reported
  <2> QED BY <2>1, <2>2 DEF ReaderInv
<1>4. CASE readSnapshot
  <2>1. phase = "main" /\ got = <<>> /\ usedDemo = FALSE
    BY <1>4 DEF readSnapshot, Loads, ReaderInv
  <2>2. CASE phase' = "reading" /\ UNCHANGED <<got, usedDemo, exit>>
    <3>1. got' = [i \in 1 .. 0 |-> Input'[i]]
      BY <2>1, <2>2
    <3>2. Input' \in Seq(Byte)
      <4>1. Kept(file) /\ Kept(pipe) /\ Kept(<<>>)
        BY DEF StoreInv, Kept
      <4>2. Input' \in {file, pipe, <<>>}
        BY <1>2 DEF Input
      <4> QED BY <4>1, <4>2, KeptSeq
    <3>3. 0 \in 0 .. Len(Input')
      BY <3>2
    <3>4. Behind(got, Input)'
      BY <3>1, <3>3 DEF Behind
    <3> QED BY <2>1, <2>2, <3>4 DEF ReaderInv, Reported
  <2>3. CASE Exit(1)
    BY <2>3, FailedExit DEF ReaderInv, Exit
  <2>4. CASE UseDemo
    BY <2>4 DEF UseDemo, ReaderInv, Reported
  <2> QED BY <1>4, <2>2, <2>3, <2>4 DEF readSnapshot
<1>5. CASE Decode
  <2>1. phase = "decode" /\ UNCHANGED <<got, usedDemo, cmd>>
    BY <1>5 DEF Decode
  <2>2. CASE ~Unmarshals(got)
    <3>1. Exit(1)
      BY <1>5, <2>2 DEF Decode
    <3> QED BY <3>1, FailedExit DEF ReaderInv, Exit
  <2>3. CASE Unmarshals(got)
    <3>1. phase' = "render"
      BY <1>5, <2>3 DEF Decode
    <3>2. Kept(got) => IsWhole(got)
      <4>1. got # <<>>
        BY <2>3 DEF Unmarshals
      <4> QED BY <2>3, <4>1, LeftWhole DEF Kept
    <3>3. IsWhole(got)' <=> IsWhole(got)
      BY <2>1 DEF IsWhole
    <3> QED BY <1>2, <2>1, <3>1, <3>2, <3>3 DEF ReaderInv, Reported
  <2> QED BY <2>2, <2>3
<1>6. CASE Render
  <2>1. /\ phase = "render" /\ phase' = "ended" /\ UNCHANGED <<got, usedDemo, cmd>>
    BY <1>6 DEF Render, Exit
  <2>2. IsWhole(got)' <=> IsWhole(got)
    BY <2>1 DEF IsWhole
  <2> QED BY <1>2, <2>1, <2>2 DEF ReaderInv
<1>7. CASE LiveError \/ ReadError
  <2>1. Exit(1)
    BY <1>7 DEF LiveError, ReadError
  <2> QED BY <2>1, FailedExit DEF ReaderInv, Exit
<1>8. ASSUME NEW d \in Docs, LiveOK(d) PROVE ReaderInv'
  <2>1. Size[d] \in Nat
    BY PipelineAssumption
  <2>2. Size[d] + 1 \in 0 .. Size[d] + 1 /\ Left(d, Size[d] + 1) = Bytes(d)
    BY <2>1, LeftAll
  <2>3. /\ Len(Bytes(d)) = Size[d] + 1
        /\ \A i \in 1 .. Size[d] + 1 :
               Bytes(d)[i] = IF i <= Size[d] THEN <<d, i>> ELSE LineFeed
    BY <2>2, LeftSeq
  <2>4. DOMAIN Bytes(d) = 1 .. Size[d] + 1
    BY DEF Bytes
  <2>5. IsWhole(Bytes(d))
    BY <2>1, <2>3, <2>4 DEF IsWhole
  <2>6. IsWhole(got)'
    BY <1>8, <2>5 DEF LiveOK, IsWhole
  <2>7. phase' = "render"
    BY <1>8 DEF LiveOK
  <2> QED BY <2>6, <2>7 DEF ReaderInv
<1>9. ASSUME NEW n \in 1 .. Len(Input), Read(n) PROVE ReaderInv'
  <2>1. /\ phase = "reading" /\ phase' = "reading" /\ usedDemo' = usedDemo /\ Len(got) < n
        /\ got' = got \o SubSeq(Input, Len(got) + 1, n) /\ UNCHANGED <<src, cmd>>
    BY <1>9 DEF Read
  <2>2. Input' = Input
    BY <1>2, <2>1 DEF Input
  <2>3. ~rewritten => Behind(got \o SubSeq(Input, Len(got) + 1, n), Input)
    BY <1>1, <2>1, ReadBehind DEF ReaderInv
  <2>4. ~rewritten => Behind(got', Input')
    BY <2>1, <2>2, <2>3
  <2>5. Behind(got, Input)' <=> Behind(got', Input')
    BY DEF Behind
  <2> QED BY <1>2, <2>1, <2>4, <2>5 DEF ReaderInv, Reported
<1>10. CASE EndOfInput
  <2>1. phase = "reading"
    BY <1>10 DEF EndOfInput, AtEnd
  <2>2. CASE UseDemo
    BY <2>2 DEF UseDemo, ReaderInv, Reported
  <2>3. CASE phase' = "decode" /\ UNCHANGED <<got, usedDemo>>
    <3>1. ~rewritten => Kept(got)
      BY <1>1, <2>1, BehindKept DEF ReaderInv
    <3>2. Kept(got)' <=> Kept(got)
      BY <2>3 DEF Kept, Left, Bytes
    <3> QED BY <1>2, <2>3, <3>1, <3>2 DEF ReaderInv, Reported
  <2> QED BY <1>10, <2>2, <2>3 DEF EndOfInput
<1> QED BY <1>3, <1>4, <1>5, <1>6, <1>7, <1>8, <1>9, <1>10 DEF ReaderStep

\* It holds all the time.
LEMMA ReaderInvariant == Spec => [](TypeInv /\ StoreInv /\ ReaderInv)
<1>1. Init => TypeInv /\ StoreInv /\ ReaderInv
  <2>1. Init => ReaderInv
    BY DEF Init, ReaderInv, Reported
  <2> QED BY <2>1, TypeInit, StoreInit
<1>2. (TypeInv /\ StoreInv /\ ReaderInv) /\ [Next]_vars
          => (TypeInv /\ StoreInv /\ ReaderInv)'
  <2> SUFFICES ASSUME TypeInv, StoreInv, ReaderInv, [Next]_vars
               PROVE  (TypeInv /\ StoreInv /\ ReaderInv)'
      OBVIOUS
  <2>1. TypeInv' /\ StoreInv'
    BY TypeStep, StoreStep
  <2>2. CASE UNCHANGED vars
    <3>1. UNCHANGED <<phase, cmd, exit, got, usedDemo, rewritten, file, pipe, src>>
      BY <2>2 DEF vars, collector, reader
    <3>2. Input' = Input
      BY <3>1 DEF Input
    <3>3. /\ Kept(got)' <=> Kept(got)
          /\ IsWhole(got)' <=> IsWhole(got)
          /\ Behind(got, Input)' <=> Behind(got, Input)
      BY <3>1, <3>2 DEF Kept, Left, Bytes, IsWhole, Behind
    <3>4. ReaderInv'
      BY <3>1, <3>3 DEF ReaderInv, Reported
    <3> QED BY <2>1, <3>4
  <2> QED BY <2>1, <2>2, StepOf, CollectReader, ReaderReader
<1> QED BY <1>1, <1>2, PTL DEF Spec

\* Whatever a failed, killed or unfinished collect left in the file or the pipe,
\* and in whatever pieces it is read, a command that exits with 0 reports on one
\* whole document, unless the file was truncated under it (live.go:186-196,
\* main.go:134-137, 174-200).
THEOREM ReportIsWhole == Spec => []WholeOrError
<1>1. ReaderInv => WholeOrError
  BY DEF ReaderInv, WholeOrError
<1> QED BY <1>1, ReaderInvariant, PTL

-----------------------------------------------------------------------------
(* Exit status and the demo snapshot.                                        *)

ExitInv ==
    /\ ExitHonest
    /\ phase # "ended" => printed = FALSE
    /\ phase \in {"reading", "decode", "render"} => cmd.name \in {"scan", "cost"}

\* Nothing is printed before the end, which decides on the exit status.
LEMMA ExitStep == TypeInv /\ ExitInv /\ [Next]_vars => ExitInv'
<1> SUFFICES ASSUME TypeInv, ExitInv, [Next]_vars PROVE ExitInv'
    OBVIOUS
<1> USE DEF ExitInv, ExitHonest, Exit
<1>1. CASE UNCHANGED reader
  BY <1>1 DEF reader
<1>2. CASE Dispatch
  <2>1. phase = "main" /\ phase' = "ended" /\ printed = FALSE /\ cmd' = cmd
    BY <1>2 DEF Dispatch
  <2>2. CASE cmd.name = "unknown" \/ cmd.name \in {"scan", "cost"}
    <3>1. exit' # 0 /\ printed' = printed
      BY <1>2, <2>2 DEF Dispatch
    <3> QED BY <2>1, <3>1
  <2>3. CASE cmd.name = "version"
    <3>1. exit' = 0 /\ printed' = cmd.stdoutOK
      BY <1>2, <2>3 DEF Dispatch
    <3>2. ~printed' => ~cmd.stdoutOK
      BY <3>1, Zenon
    <3> QED BY <2>1, <2>3, <3>1, <3>2
  <2>4. CASE cmd.name = "sample"
    <3>1. exit' = (IF cmd.stdoutOK THEN 0 ELSE 1) /\ printed' = cmd.stdoutOK
      BY <1>2, <2>4 DEF Dispatch
    <3>2. exit' # 0 => ~cmd.stdoutOK
      BY <3>1
    <3>3. exit' = 0 => cmd.stdoutOK
      BY <3>1
    <3>4. (exit' # 0 => ~printed') /\ (exit' = 0 => printed')
      BY <3>1, <3>2, <3>3, Zenon
    <3> QED BY <2>1, <2>4, <3>4
  <2> QED BY <1>2, <2>2, <2>3, <2>4 DEF Dispatch
<1>3. CASE readSnapshot
  <2>1. /\ phase = "main" /\ printed' = printed /\ cmd' = cmd
        /\ cmd.name \in {"scan", "cost"}
        /\ phase' \in {"reading", "decode"} \/ (phase' = "ended" /\ exit' = 1)
    BY <1>3, Zenon DEF readSnapshot, UseDemo, Loads
  <2> QED BY <2>1
<1>4. CASE Decode \/ LiveError \/ ReadError
  BY <1>4 DEF Decode, LiveError, ReadError, Loads
<1>5. CASE Render
  <2>1. /\ phase' = "ended" /\ exit' = (IF cmd.json /\ ~cmd.stdoutOK THEN 1 ELSE 0)
        /\ printed' = cmd.stdoutOK /\ cmd' = cmd /\ cmd.name \in {"scan", "cost"}
    BY <1>5 DEF Render
  <2>2. /\ exit' # 0 => ~cmd.stdoutOK
        /\ exit' = 0 /\ cmd.json => cmd.stdoutOK
    BY <2>1
  <2>3. /\ exit' # 0 => ~printed'
        /\ exit' = 0 /\ ~printed' => ~cmd'.stdoutOK /\ ~cmd'.json
    BY <2>1, <2>2, Zenon
  <2> QED BY <2>1, <2>3
<1>6. CASE (\E d \in Docs : LiveOK(d)) \/ (\E n \in 1 .. Len(Input) : Read(n))
  BY <1>6 DEF LiveOK, Read, Loads
<1>7. CASE EndOfInput
  BY <1>7 DEF EndOfInput, UseDemo, AtEnd
<1> QED BY <1>1, <1>2, <1>3, <1>4, <1>5, <1>6, <1>7, StepOf DEF ReaderStep, vars

\* After a failure nothing was reported, and after a success all of it was
\* written, except scan's and cost's text and version's line, whose write errors
\* the code does not look at (main.go:39-67, 165-169, 202-211).
THEOREM ExitIsHonest == Spec => []ExitHonest
<1>1. Init => TypeInv /\ ExitInv
  BY TypeInit DEF Init, ExitInv, ExitHonest
<1>2. (TypeInv /\ ExitInv) /\ [Next]_vars => (TypeInv /\ ExitInv)'
  BY TypeStep, ExitStep
<1>3. ExitInv => ExitHonest
  BY DEF ExitInv
<1> QED BY <1>1, <1>2, <1>3, PTL DEF Spec

\* No byte of c is the demo's first one.
NoDemo(c) == \A i \in 1 .. Len(c) : c[i] # <<Demo, 1>>

\* The pipe is empty for good, and not because a collect succeeded with nothing.
DeadPipe == pipe = <<>> /\ ~(out = "stdout" /\ writer \in Running \cup {"succeeded"})

\* The demo is only taken where no source is named, and only from a dead pipe.
DemoInv ==
    /\ got \in Seq(Byte) /\ (usedDemo = FALSE => NoDemo(got))
    /\ phase = "reading" => cmd.bootstrap = FALSE /\ (cmd.snapshot = "" => src = "stdin")
    /\ usedDemo => /\ cmd.bootstrap = FALSE /\ cmd.snapshot = ""
                   /\ cmd.stdin = "pipe" => DeadPipe
    /\ Reported /\ usedDemo /\ cmd.name = "scan" /\ ~cmd.json => demoLabel

\* The first bytes of a document other than the demo are not the demo's.
LEMMA LeftNoDemo ==
    ASSUME NEW d \in Docs, NEW n \in 0 .. Size[d] + 1 PROVE NoDemo(Left(d, n))
<1>1. d # Demo /\ n \in Nat
  BY PipelineAssumption
<1>2. Len(Left(d, n)) = n /\ \A i \in 1 .. n : Left(d, n)[i] \in {<<d, i>>, LineFeed}
  BY LeftSeq
<1>3. \A i \in 1 .. n : <<d, i>> # <<Demo, 1>>
  BY <1>1
<1>4. LineFeed # <<Demo, 1>>
  BY DEF LineFeed
<1> QED BY <1>2, <1>3, <1>4 DEF NoDemo

\* So it is with whatever a collect left.
LEMMA KeptNoDemo == ASSUME NEW c, Kept(c) PROVE NoDemo(c)
<1>1. NoDemo(<<>>)
  BY DEF NoDemo
<1> QED BY <1>1, LeftNoDemo DEF Kept

\* A dead pipe stays dead: only the collect that was started with it writes to it.
LEMMA DeadStays ==
    ASSUME TypeInv, DeadPipe, [Next]_vars PROVE DeadPipe'
<1>1. CASE CollectStep
  <2> USE DEF DeadPipe, Running
  <2>1. CASE StartCollect
    BY <2>1 DEF StartCollect
  <2>2. CASE (\E d \in Docs : CollectOK(d)) \/ CollectError \/ OpenOut \/ OpenError
    BY <2>2 DEF CollectOK, CollectError, OpenOut, OpenError
  <2>3. CASE \/ \E n \in 1 .. Size[doc] + 1 : Write(n)
             \/ WriteError \/ WriteDone \/ Kill
    <3>1. writer \in Running /\ out = "file" /\ out' = out /\ pipe' = pipe
      BY <2>3 DEF Write, WriteError, WriteDone, Kill, TypeInv, TypeOK
    <3> QED BY <3>1
  <2> QED BY <1>1, <2>1, <2>2, <2>3 DEF CollectStep
<1>2. CASE UNCHANGED collector
  BY <1>2 DEF collector, DeadPipe
<1> QED BY <1>1, <1>2, StepOf DEF vars

\* A read appends bytes of the input, which has no demo in it.
LEMMA ReadNoDemo ==
    ASSUME got \in Seq(Byte), NoDemo(got), Input \in Seq(Byte), NoDemo(Input),
           NEW n \in 1 .. Len(Input), Len(got) < n
    PROVE  /\ got \o SubSeq(Input, Len(got) + 1, n) \in Seq(Byte)
           /\ NoDemo(got \o SubSeq(Input, Len(got) + 1, n))
<1> DEFINE k == Len(got)
<1>1. k \in Nat /\ n \in Nat /\ k < n /\ n <= Len(Input) /\ Len(Input) \in Nat
  OBVIOUS
<1>2. /\ SubSeq(Input, k + 1, n) \in Seq(Byte) /\ Len(SubSeq(Input, k + 1, n)) = n - k
      /\ \A i \in 1 .. n - k : SubSeq(Input, k + 1, n)[i] = Input[k + i]
  BY <1>1
<1>3. PICK t \in Seq(Byte) : /\ t = SubSeq(Input, k + 1, n) /\ Len(t) = n - k
                             /\ \A i \in 1 .. n - k : t[i] = Input[k + i]
  BY <1>2
<1>4. PICK h \in Seq(Byte) : /\ h = got \o t /\ Len(h) = n
                             /\ \A i \in 1 .. k : h[i] = got[i]
                             /\ \A i \in k + 1 .. n : h[i] = t[i - k]
  <2>1. got \o t \in Seq(Byte) /\ Len(got \o t) = k + Len(t)
    BY <1>3
  <2>2. \A i \in 1 .. k + Len(t) : (got \o t)[i] = IF i <= k THEN got[i] ELSE t[i - k]
    BY <1>1, <1>3
  <2>3. k + Len(t) = n
    BY <1>1, <1>3
  <2>4. \A i \in 1 .. k : (got \o t)[i] = got[i]
    BY <1>1, <2>2, <2>3
  <2>5. \A i \in k + 1 .. n : (got \o t)[i] = t[i - k]
    BY <1>1, <2>2, <2>3
  <2> QED BY <2>1, <2>3, <2>4, <2>5
<1>5. NoDemo(h)
  <2> SUFFICES ASSUME NEW i \in 1 .. n PROVE h[i] # <<Demo, 1>>
      BY <1>4 DEF NoDemo
  <2>1. CASE i <= k
    BY <1>1, <1>4, <2>1 DEF NoDemo
  <2>2. CASE i > k
    <3>1. i \in k + 1 .. n /\ i - k \in 1 .. n - k /\ k + (i - k) = i /\ i \in 1 .. Len(Input)
      BY <1>1, <2>2
    <3>2. h[i] = Input[i]
      BY <1>3, <1>4, <3>1
    <3> QED BY <3>1, <3>2 DEF NoDemo
  <2> QED BY <1>1, <2>1, <2>2
<1> QED BY <1>3, <1>4, <1>5

\* Every step keeps DemoInv; the end of the input is the one that matters.
LEMMA DemoStep ==
    TypeInv /\ StoreInv /\ ReaderInv /\ DemoInv /\ [Next]_vars => DemoInv'
<1> SUFFICES ASSUME TypeInv, StoreInv, ReaderInv, DemoInv, [Next]_vars PROVE DemoInv'
    OBVIOUS
<1> DEFINE Reason == /\ cmd.bootstrap = FALSE /\ cmd.snapshot = ""
                     /\ cmd.stdin = "pipe" => DeadPipe
<1>1. \A c : NoDemo(c)' <=> NoDemo(c)'
  OBVIOUS
<1>2. DeadPipe => DeadPipe'
  BY DeadStays
<1>3. Bytes(Demo) \in Seq(Byte)
  <2>1. Size[Demo] + 1 \in 0 .. Size[Demo] + 1
    BY PipelineAssumption
  <2> QED BY <2>1, LeftAll, LeftSeq
<1>4. Input \in Seq(Byte) /\ NoDemo(Input) /\ Kept(Input)
  <2>1. Kept(Input)
    BY DEF StoreInv, Input, Kept
  <2> QED BY <2>1, KeptSeq, KeptNoDemo
<1>5. CASE UNCHANGED reader
  BY <1>2, <1>5 DEF reader, DemoInv, Reported, NoDemo
<1>6. CASE Dispatch \/ LiveError \/ ReadError
  <2>1. /\ phase' = "ended" /\ UNCHANGED <<cmd, got, usedDemo>> /\ ~Reported'
    BY <1>6 DEF Dispatch, LiveError, ReadError, Exit, Reported
  <2> QED BY <1>2, <2>1 DEF DemoInv, NoDemo
<1>7. CASE readSnapshot
  <2>1. /\ usedDemo = FALSE /\ cmd' = cmd /\ cmd.bootstrap = FALSE
        /\ cmd.name \in {"scan", "cost"}
    BY <1>7 DEF readSnapshot, Loads, ReaderInv, TypeInv, TypeOK, CommandLines
  <2>2. CASE /\ phase' = "reading" /\ UNCHANGED <<got, usedDemo>>
             /\ cmd.snapshot = "" => src' = "stdin"
    BY <2>1, <2>2 DEF DemoInv, NoDemo, Reported
  <2>3. CASE Exit(1) /\ UNCHANGED <<got, usedDemo>>
    BY <2>1, <2>3 DEF DemoInv, NoDemo, Reported, Exit
  <2>4. CASE UseDemo /\ cmd.snapshot = "" /\ cmd.stdin = "terminal"
    BY <1>3, <2>1, <2>4 DEF DemoInv, UseDemo, Reported
  <2> QED BY <1>7, <2>2, <2>3, <2>4 DEF readSnapshot
<1>8. CASE Decode
  <2>1. /\ UNCHANGED <<cmd, got, usedDemo>> /\ phase' \in {"render", "ended"} /\ ~Reported'
    BY <1>8 DEF Decode, Exit, Reported
  <2> QED BY <1>2, <2>1 DEF DemoInv, NoDemo
<1>9. CASE Render
  <2>1. /\ UNCHANGED <<cmd, got, usedDemo>> /\ phase' = "ended"
        /\ usedDemo /\ cmd.name = "scan" /\ ~cmd.json => demoLabel'
    BY <1>9 DEF Render, Exit
  <2> QED BY <1>2, <2>1 DEF DemoInv, NoDemo
<1>10. ASSUME NEW d \in Docs, LiveOK(d) PROVE DemoInv'
  <2>1. Size[d] + 1 \in 0 .. Size[d] + 1
    BY PipelineAssumption
  <2>2. Bytes(d) \in Seq(Byte) /\ NoDemo(Bytes(d))
    BY <2>1, LeftAll, LeftSeq, LeftNoDemo
  <2>3. /\ got' = Bytes(d) /\ usedDemo = FALSE /\ usedDemo' = FALSE /\ phase' = "render"
    BY <1>10 DEF LiveOK, Loads, ReaderInv
  <2> QED BY <2>2, <2>3 DEF DemoInv, NoDemo, Reported
<1>11. ASSUME NEW n \in 1 .. Len(Input), Read(n) PROVE DemoInv'
  <2>1. /\ phase = "reading" /\ phase' = "reading" /\ usedDemo = FALSE /\ usedDemo' = FALSE
        /\ Len(got) < n /\ got' = got \o SubSeq(Input, Len(got) + 1, n)
        /\ UNCHANGED <<src, cmd>>
    BY <1>11 DEF Read, ReaderInv
  <2>2. got' \in Seq(Byte) /\ NoDemo(got')
    BY <1>4, <2>1, ReadNoDemo DEF DemoInv
  <2> QED BY <2>1, <2>2 DEF DemoInv, NoDemo, Reported
<1>12. CASE EndOfInput
  <2>1. phase = "reading" /\ usedDemo = FALSE /\ cmd' = cmd /\ cmd.bootstrap = FALSE
    BY <1>12 DEF EndOfInput, AtEnd, ReaderInv, DemoInv
  <2>2. CASE UseDemo /\ cmd.snapshot = "" /\ got = <<>>
    <3>1. cmd.stdin = "pipe" => DeadPipe
      <4> SUFFICES ASSUME cmd.stdin = "pipe" PROVE DeadPipe
          OBVIOUS
      <4>1. src = "stdin" /\ Input = pipe
        BY <2>1, <2>2 DEF DemoInv, Input
      <4>2. Len(pipe) <= 0 /\ ~Producing
        BY <1>12, <2>2, <4>1 DEF EndOfInput, AtEnd
      <4>3. pipe = <<>>
        BY <1>4, <4>1, <4>2
      <4>4. ~(out = "stdout" /\ writer \in Running)
        BY <4>1, <4>2 DEF Producing
      <4>5. ~(out = "stdout" /\ writer = "succeeded")
        <5> SUFFICES ASSUME out = "stdout", writer = "succeeded" PROVE FALSE
            OBVIOUS
        <5>1. doc \in Docs /\ pipe = Bytes(doc)
          BY DEF StoreInv, SuccessIsStored, TypeInv
        <5>2. Size[doc] \in Nat /\ Size[doc] + 1 \in 0 .. Size[doc] + 1
          BY <5>1, PipelineAssumption
        <5>3. Len(Bytes(doc)) = Size[doc] + 1
          BY <5>1, <5>2, LeftAll, LeftSeq
        <5> QED BY <4>2, <5>1, <5>2, <5>3
      <4> QED BY <4>3, <4>4, <4>5 DEF DeadPipe
    <3>2. DeadPipe => DeadPipe'
      BY <1>2
    <3> QED BY <1>3, <2>1, <2>2, <3>1, <3>2 DEF DemoInv, UseDemo, Reported
  <2>3. CASE phase' = "decode" /\ UNCHANGED <<got, usedDemo>>
    BY <2>1, <2>3 DEF DemoInv, NoDemo, Reported
  <2> QED BY <1>12, <2>2, <2>3 DEF EndOfInput
<1> QED BY <1>5, <1>6, <1>7, <1>8, <1>9, <1>10, <1>11, <1>12, StepOf DEF ReaderStep, vars

\* Nobody gets a report on the demo snapshot who named a source, or whose
\* producer delivered anything or succeeded, and scan's text says that it is one
\* (main.go:174-200, report.go:18-20).
THEOREM DemoIsUnasked == Spec => []DemoUnasked
<1>1. ASSUME TypeInv, StoreInv, DemoInv PROVE DemoUnasked
  <2>1. Bytes(Demo)[1] = <<Demo, 1>> /\ 1 \in 1 .. Len(Bytes(Demo))
    <3>1. Size[Demo] \in Nat \ {0} /\ Size[Demo] + 1 \in 0 .. Size[Demo] + 1
      BY PipelineAssumption
    <3>2. /\ Len(Bytes(Demo)) = Size[Demo] + 1
          /\ Bytes(Demo)[1] = IF 1 <= Size[Demo] THEN <<Demo, 1>> ELSE LineFeed
      BY <3>1, LeftAll, LeftSeq
    <3> QED BY <3>1, <3>2
  <2>2. got = Bytes(Demo) => usedDemo
    BY <1>1, <2>1 DEF DemoInv, NoDemo, TypeInv, TypeOK
  <2>3. DeadPipe => pipe = <<>> /\ ~(out = "stdout" /\ writer = "succeeded")
    BY DEF DeadPipe
  <2> QED BY <1>1, <2>2, <2>3 DEF DemoInv, DemoUnasked
<1>2. Init => DemoInv
  <2> SUFFICES ASSUME Init PROVE DemoInv
      OBVIOUS
  <2>1. got = <<>> /\ usedDemo = FALSE /\ phase = "main"
    BY DEF Init
  <2>2. got \in Seq(Byte) /\ NoDemo(got)
    BY <2>1 DEF NoDemo
  <2> QED BY <2>1, <2>2 DEF DemoInv, Reported
<1>3. Init => TypeInv /\ StoreInv /\ ReaderInv
  <2>1. Init => ReaderInv
    BY DEF Init, ReaderInv, Reported
  <2> QED BY <2>1, TypeInit, StoreInit
<1>4. (TypeInv /\ StoreInv /\ ReaderInv /\ DemoInv) /\ [Next]_vars => DemoInv'
  BY DemoStep
<1>5. Spec => []DemoInv
  BY <1>2, <1>4, ReaderInvariant, PTL DEF Spec
<1>6. TypeInv /\ StoreInv /\ DemoInv => DemoUnasked
  BY <1>1
<1> QED BY <1>5, <1>6, ReaderInvariant, PTL
=============================================================================
