---------------------------- MODULE CollectProofs ----------------------------
(***************************************************************************)
(* Proofs about Collect, for any cluster, any options, any kinds of change  *)
(* and failure: type correctness, OffsetsOrdered, DeltaSound,                *)
(* SampledNotLate and FailureHasCause.                                       *)
(***************************************************************************)
EXTENDS Collect, TLAPS

\* No log ends before it starts.
LogOrder == \A tp \in TP : start[tp] <= end[tp]

Typed == TypeOK /\ LogOrder

-----------------------------------------------------------------------------
(* The cluster.                                                             *)

\* A change of the cluster keeps its types and never lets a log end before it
\* starts; on a partition that exists before and after it, both offsets only
\* grow.
LEMMA ClusterStep ==
    ASSUME ClusterTypeOK, LogOrder, ClusterNext
    PROVE  /\ ClusterTypeOK'
           /\ LogOrder'
           /\ \A tp \in TP : (replicas[tp] # {} /\ replicas'[tp] # {}) =>
                  start[tp] <= start'[tp] /\ end[tp] <= end'[tp]
<1> DEFINE Kept == \A tp \in TP : (replicas[tp] # {} /\ replicas'[tp] # {}) =>
                       start[tp] <= start'[tp] /\ end[tp] <= end'[tp]
<1> SUFFICES ClusterTypeOK' /\ LogOrder' /\ Kept
    OBVIOUS
<1> USE DEF ClusterTypeOK, LogOrder
<1>1. ASSUME NEW t \in Topics, DeleteTopic(t)
      PROVE  ClusterTypeOK' /\ LogOrder' /\ Kept
  BY <1>1 DEF DeleteTopic
<1>2. ASSUME NEW t \in Topics, NEW n \in 1 .. NumPartitions,
             NEW R \in (SUBSET Brokers) \ {{}}, CreateTopic(t, n, R)
      PROVE  ClusterTypeOK' /\ LogOrder' /\ Kept
  BY <1>2 DEF CreateTopic
<1>3. ASSUME NEW t \in Topics, NEW p \in Partitions,
             NEW R \in (SUBSET Brokers) \ {{}}, AddPartition(t, p, R)
      PROVE  ClusterTypeOK' /\ LogOrder' /\ Kept
  <2>1. <<t, p>> \in TP
    BY DEF TP
  <2> QED BY <1>3, <2>1 DEF AddPartition
<1>4. ASSUME NEW t \in Topics, NEW c \in Configs, AlterConfig(t, c)
      PROVE  ClusterTypeOK' /\ LogOrder' /\ Kept
  BY <1>4 DEF AlterConfig
<1>5. ASSUME NEW tp \in TP, Append(tp)
      PROVE  ClusterTypeOK' /\ LogOrder' /\ Kept
  BY <1>5 DEF Append
<1>6. ASSUME NEW tp \in TP, NEW n \in 1 .. MaxEnd, Expire(tp, n)
      PROVE  ClusterTypeOK' /\ LogOrder' /\ Kept
  <2>1. n \in Nat
    BY <1>6, ClusterAssumption
  <2> QED BY <1>6, <2>1 DEF Expire
<1>7. ASSUME NEW tp \in TP, NEW R \in (SUBSET Brokers) \ {{}}, Reassign(tp, R)
      PROVE  ClusterTypeOK' /\ LogOrder' /\ Kept
  BY <1>7 DEF Reassign
<1>8. ASSUME NEW tp \in TP, NEW b \in Brokers, MoveDir(tp, b)
      PROVE  ClusterTypeOK' /\ LogOrder' /\ Kept
  BY <1>8 DEF MoveDir
<1>9. ASSUME NEW g \in Groups, NEW s \in GroupStates \cup {NoGroup},
             ChangeGroup(g, s)
      PROVE  ClusterTypeOK' /\ LogOrder' /\ Kept
  BY <1>9 DEF ChangeGroup
<1>10. ASSUME NEW g \in Groups, NEW t \in Topics, Commit(g, t)
       PROVE  ClusterTypeOK' /\ LogOrder' /\ Kept
  BY <1>10 DEF Commit
<1>11. ASSUME NEW g \in Groups, NEW b \in Brokers, MoveCoordinator(g, b)
       PROVE  ClusterTypeOK' /\ LogOrder' /\ Kept
  BY <1>11 DEF MoveCoordinator
<1> QED
  BY <1>1, <1>2, <1>3, <1>4, <1>5, <1>6, <1>7, <1>8, <1>9, <1>10, <1>11 DEF ClusterNext

-----------------------------------------------------------------------------
(* Type correctness.                                                        *)

\* Moving on to the next read.
LEMMA ProceedTyped ==
    ASSUME TypeOK, phase \in ReadPhases, Proceed
    PROVE  /\ phase' \in Phases
           /\ todo' \subseteq TP \cup Brokers \cup Groups
           /\ UNCHANGED <<opts, expired, err, snap>>
<1>1. After(phase) \in Phases
  BY DEF After, Phases, ReadPhases, Terminal
<1>2. todo' \subseteq TP \cup Brokers \cup Groups
  BY DEF Proceed, Work
<1> QED BY <1>1, <1>2 DEF Proceed

\* The build ends with an error.
LEMMA FailTyped ==
    ASSUME Typed, NEW e \in ReadPhases \cup {"none", "topic config", "context"},
           Fail(e)
    PROVE  Typed'
  BY DEF Typed, TypeOK, LogOrder, ClusterTypeOK, Fail, Phases, Terminal, reads,
         cluster, history

\* What a probe can answer.
LEMMA AnswerTyped ==
    ASSUME NEW log \in [TP -> Nat], NEW tp \in TP
    PROVE  flattenOffsets(log, tp) \subseteq Nat \cup {Absent}
<1>1. log[tp] \in Nat
  OBVIOUS
<1> QED BY <1>1 DEF flattenOffsets

\* Every state a collection can start from is well typed, no log ending before
\* it starts.
LEMMA TypedInit == Init => Typed
<1> SUFFICES ASSUME Init PROVE Typed
    OBVIOUS
<1>1. ClusterTypeOK /\ LogOrder
  BY ClusterAssumption DEF Init, ClusterInit, ClusterTypeOK, LogOrder
<1>2. TypeOK
  <2>1. /\ startOff \in [TP -> Nat \cup {Absent}]
        /\ endOff \in [TP -> Nat \cup {Absent}]
        /\ endOff2 \in [TP -> Nat \cup {Absent}]
        /\ appended \in [TP -> Nat]
    BY DEF Init
  <2>2. changes \in 0 .. MaxChanges
    BY CollectAssumption DEF Init
  <2>3. /\ steady \subseteq Groups \X Topics /\ tracked \subseteq Groups \X Topics
        /\ lost \subseteq Groups \X Topics /\ settled \subseteq Groups
        /\ consumed \subseteq Groups /\ late \subseteq Groups
    BY DEF Init
  <2>4. phase \in Phases /\ opts \in Options /\ expired \in BOOLEAN
    BY DEF Init, Phases, ReadPhases
  <2>5. held \in [TP -> SUBSET Brokers]
    BY <1>1 DEF Init, ClusterTypeOK
  <2> QED BY <1>1, <2>1, <2>2, <2>3, <2>4, <2>5 DEF Init, TypeOK
<1> QED BY <1>1, <1>2 DEF Typed

\* The cluster's part of the state is not brod's to change.
LEMMA ClusterSame ==
    ASSUME Typed, UNCHANGED cluster PROVE ClusterTypeOK' /\ LogOrder'
  BY DEF Typed, TypeOK, ClusterTypeOK, LogOrder, cluster

\* Every step of brod, of the clock and of the cluster keeps it so.
LEMMA TypedStep == Typed /\ [Next]_vars => Typed'
<1> SUFFICES ASSUME Typed, [Next]_vars PROVE Typed'
    OBVIOUS
<1> USE DEF Typed
<1>1. CASE ReadBrokers
  <2>1. phase \in ReadPhases
    BY <1>1 DEF ReadBrokers, ReadPhases
  <2> QED BY <1>1, <2>1, ProceedTyped, ClusterSame
          DEF ReadBrokers, TypeOK, reads, history
<1>2. CASE ReadTopics
  <2>1. phase \in ReadPhases
    BY <1>2 DEF ReadTopics, ReadPhases
  <2>2. listed' \in [TP -> SUBSET Brokers]
    BY <1>2 DEF ReadTopics, TypeOK, ClusterTypeOK
  <2> QED BY <1>2, <2>1, <2>2, ProceedTyped, ClusterSame
          DEF ReadTopics, TypeOK, history
<1>3. CASE TopicConfigs
  <2>1. phase \in ReadPhases
    BY <1>3 DEF TopicConfigs, ReadPhases
  <2>2. configs' \in [Topics -> SUBSET Configs]
    <3>1. configs \in [Topics -> SUBSET Configs] /\ config \in [Topics -> Configs]
      BY DEF TypeOK, ClusterTypeOK
    <3> QED BY <1>3, <3>1 DEF TopicConfigs
  <2> QED BY <1>3, <2>1, <2>2, ProceedTyped, ClusterSame
          DEF TopicConfigs, TypeOK, history
<1>4. CASE TopicConfigsError
  BY <1>4, FailTyped DEF TopicConfigsError
<1>5. ASSUME NEW b \in Brokers, NEW unseen, LogDirSizes(b, unseen)
      PROVE  Typed'
  <2>1. ASSUME NEW d \in DescribedLogDirs(b)
        PROVE  d.tp \in TP /\ d.broker \in Brokers /\ d.size \in Nat
    <3>1. PICK tp \in TP : d.tp = tp /\ d.broker = b /\ d.size = end[tp] - start[tp]
      BY <2>1 DEF DescribedLogDirs
    <3>2. start[tp] \in Nat /\ end[tp] \in Nat /\ start[tp] <= end[tp]
      BY DEF TypeOK, ClusterTypeOK, LogOrder
    <3> QED BY <3>1, <3>2
  <2>2. \A d \in logDirs' : d.tp \in TP /\ d.broker \in Brokers /\ d.size \in Nat
    BY <1>5, <2>1 DEF LogDirSizes, TypeOK
  <2> QED BY <1>5, <2>2, ClusterSame DEF LogDirSizes, Answer, TypeOK, history
<1>6. ASSUME NEW tp \in TP, StartOffsets(tp)
      PROVE  Typed'
  <2>1. flattenOffsets(start, tp) \subseteq Nat \cup {Absent}
    BY AnswerTyped DEF TypeOK, ClusterTypeOK
  <2>2. startOff' \in [TP -> Nat \cup {Absent}]
    BY <1>6, <2>1 DEF StartOffsets, TypeOK
  <2> QED BY <1>6, <2>2, ClusterSame DEF StartOffsets, Answer, TypeOK, history
<1>7. ASSUME NEW tp \in TP, EndOffsets(tp)
      PROVE  Typed'
  <2>1. flattenOffsets(end, tp) \subseteq Nat \cup {Absent}
    BY AnswerTyped DEF TypeOK, ClusterTypeOK
  <2>2. endOff' \in [TP -> Nat \cup {Absent}]
    BY <1>7, <2>1 DEF EndOffsets, TypeOK
  <2> QED BY <1>7, <2>2, ClusterSame DEF EndOffsets, Answer, TypeOK, history
<1>8. ASSUME NEW tp \in TP, EndOffsetsAgain(tp)
      PROVE  Typed'
  <2>1. flattenOffsets(end, tp) \subseteq Nat \cup {Absent}
    BY AnswerTyped DEF TypeOK, ClusterTypeOK
  <2>2. endOff2' \in [TP -> Nat \cup {Absent}]
    BY <1>8, <2>1 DEF EndOffsetsAgain, TypeOK
  <2> QED BY <1>8, <2>2, ClusterSame DEF EndOffsetsAgain, Answer, TypeOK, history
<1>9. ASSUME NEW b \in Brokers, NEW kept, ListGroups(b, kept)
      PROVE  Typed'
  <2>1. groupInfo' \in [Groups -> GroupStates \cup {NoGroup}]
    BY <1>9 DEF ListGroups, TypeOK, ClusterTypeOK
  <2> QED BY <1>9, <2>1, ClusterSame DEF ListGroups, Answer, TypeOK, history
<1>10. ASSUME NEW g \in Groups, NEW hidden \in SUBSET Topics, FetchOffsets(g, hidden)
       PROVE  Typed'
  <2>1. committed' \in [Groups -> SUBSET Topics]
    BY <1>10 DEF FetchOffsets, TypeOK, ClusterTypeOK
  <2>2. lost' \subseteq Groups \X Topics
    BY <1>10 DEF FetchOffsets, TypeOK
  <2> QED BY <1>10, <2>1, <2>2, ClusterSame DEF FetchOffsets, Answer, TypeOK
<1>11. ASSUME NEW g \in Groups, FetchOffsetsError(g)
       PROVE  Typed'
  <2>1. lost' \subseteq Groups \X Topics
    BY <1>11 DEF FetchOffsetsError, TypeOK
  <2> QED BY <1>11, <2>1, ClusterSame DEF FetchOffsetsError, TypeOK, reads
<1>12. CASE Collected
  <2>1. phase \in ReadPhases
    BY <1>12 DEF Collected, ReadPhases
  <2> QED BY <1>12, <2>1, ProceedTyped, ClusterSame
          DEF Collected, TypeOK, reads, history
<1>13. CASE RequestError
  BY <1>13, FailTyped DEF RequestError
<1>14. CASE CtxError
  BY <1>14, FailTyped DEF CtxError
<1>15. CASE ctxSleep
  <2>1. phase \in ReadPhases
    BY <1>15 DEF ctxSleep, ReadPhases
  <2> QED BY <1>15, <2>1, ProceedTyped, ClusterSame
          DEF ctxSleep, TypeOK, reads, history
<1>16. CASE Finish
  BY <1>16, ClusterSame DEF Finish, TypeOK, Phases, Terminal, reads, history
<1>17. CASE Deadline
  BY <1>17, ClusterSame DEF Deadline, TypeOK, reads, history
<1>18. CASE Change
  <2>1. ClusterTypeOK' /\ LogOrder'
    BY <1>18, ClusterStep DEF Change, TypeOK
  <2>2. UNCHANGED <<opts, phase, todo, expired, err, snap, listed, configs, logDirs,
                    startOff, endOff, endOff2, groupInfo, committed, lost, late>>
    BY <1>18 DEF Change, build, reads, Observe
  <2>3. \A tp \in TP : Gain(tp) \in Nat
    <3>1. end \in [TP -> Nat] /\ end' \in [TP -> Nat]
      BY <2>1 DEF TypeOK, ClusterTypeOK
    <3> QED BY <3>1 DEF Gain
  <2>4. appended' \in [TP -> Nat]
    <3>1. appended \in [TP -> Nat]
      BY DEF TypeOK
    <3> QED BY <1>18, <2>3, <3>1 DEF Change, Observe
  <2>5. /\ stable' \subseteq Topics /\ quiet' \subseteq Topics
        /\ steady' \subseteq Groups \X Topics /\ tracked' \subseteq Groups \X Topics
        /\ consumed' \subseteq Groups /\ settled' \subseteq Groups
    BY <1>18 DEF Change, Observe, TypeOK
  <2>6. changes' \in 0 .. MaxChanges
    <3>1. changes \in 0 .. MaxChanges /\ changes < MaxChanges /\ changes' = changes + 1
      BY <1>18 DEF Change, TypeOK
    <3> QED BY <3>1, CollectAssumption
  <2>7. held' \in [TP -> SUBSET Brokers]
    <3>1. held \in [TP -> SUBSET Brokers] /\ replicas' \in [TP -> SUBSET Brokers]
      BY <2>1 DEF TypeOK, ClusterTypeOK
    <3> QED BY <1>18, <3>1 DEF Change, Observe
  <2> QED BY <2>1, <2>2, <2>4, <2>5, <2>6, <2>7 DEF TypeOK
<1>19. CASE UNCHANGED vars
  BY <1>19, ClusterSame DEF TypeOK, vars, build, reads, history
<1> QED
  BY <1>1, <1>2, <1>3, <1>4, <1>5, <1>6, <1>7, <1>8, <1>9, <1>10, <1>11, <1>12,
     <1>13, <1>14, <1>15, <1>16, <1>17, <1>18, <1>19 DEF Next, Step, Finished

\* Type correctness of every collection: each read result stays in its domain,
\* replica sizes are never negative and the explored changes stay within the
\* bound.
THEOREM TypeCorrect == Spec => []TypeOK
<1>1. Spec => []Typed
  BY TypedInit, TypedStep, PTL DEF Spec
<1>2. Typed => TypeOK
  BY DEF Typed
<1> QED BY <1>1, <1>2, PTL

-----------------------------------------------------------------------------
(***************************************************************************)
(* The inductive invariant behind OffsetsOrdered and DeltaSound: how the    *)
(* recorded offsets relate to the logs as they are now.                     *)
(***************************************************************************)
BeforeEnd == {"brokers", "topics", "configs", "logdirs", "start"}
BeforeEnd2 == BeforeEnd \cup {"end", "groups", "committed", "sleep"}

\* An end probe is only recorded once its read has reached the partition.
ProbedOnce ==
    \A tp \in TP :
        /\ phase \in BeforeEnd \/ (phase = "end" /\ tp \in todo) => endOff[tp] = Absent
        /\ phase \in BeforeEnd2 \/ (phase = "end2" /\ tp \in todo) => endOff2[tp] = Absent
        /\ endOff[tp] = Absent => appended[tp] = 0

\* A log never falls behind the start recorded for it.
StartsBehind ==
    \A tp \in TP : (tp[1] \in stable /\ startOff[tp] # Absent) =>
        replicas[tp] # {} /\ startOff[tp] <= start[tp]

\* Between the probes a log is at most the appended records past the first.
EndsCounted ==
    \A tp \in TP : BetweenProbes(tp) =>
        /\ end[tp] <= endOff[tp] + appended[tp]
        /\ tp[1] \in stable => /\ replicas[tp] # {}
                               /\ end[tp] = endOff[tp] + appended[tp]

ProbeInv == ProbedOnce /\ StartsBehind /\ EndsCounted /\ OffsetsOrdered /\ DeltaSound

ProbeVars == <<phase, todo, replicas, start, end, startOff, endOff, endOff2,
               stable, appended>>

\* Steps that look at no offset leave ProbeInv alone.
LEMMA ProbeSame == ASSUME ProbeInv, UNCHANGED ProbeVars PROVE ProbeInv'
  BY DEF ProbeVars, ProbeInv, ProbedOnce, StartsBehind, EndsCounted, OffsetsOrdered,
         DeltaSound, BetweenProbes

\* The offsets and what they are compared with are untouched.
OffsetVars == <<replicas, start, end, startOff, endOff, endOff2, stable, appended>>

\* Any move to a later phase, where a new end probe is only begun from the
\* phase before it.
LEMMA ProbePhase ==
    ASSUME Typed, ProbeInv, UNCHANGED OffsetVars,
           phase' \in BeforeEnd \cup {"end"} => phase \in BeforeEnd,
           phase' \in BeforeEnd2 \cup {"end2"} => phase \in BeforeEnd2
    PROVE  ProbeInv'
<1>1. ProbedOnce'
  BY DEF OffsetVars, ProbeInv, ProbedOnce, BeforeEnd, BeforeEnd2
<1>2. StartsBehind' /\ EndsCounted' /\ OffsetsOrdered' /\ DeltaSound'
  BY DEF OffsetVars, ProbeInv, StartsBehind, EndsCounted, OffsetsOrdered, DeltaSound,
         BetweenProbes
<1> QED BY <1>1, <1>2 DEF ProbeInv

\* Going on to build's next read keeps ProbeInv: an end probe begins only where
\* After says so.
LEMMA ProbeProceed ==
    ASSUME Typed, ProbeInv, UNCHANGED OffsetVars, Proceed, phase \in ReadPhases
    PROVE  ProbeInv'
<1>1. phase' = After(phase)
  BY DEF Proceed
<1>2. phase' \in BeforeEnd \cup {"end"} => phase \in BeforeEnd
  BY <1>1 DEF After, BeforeEnd, ReadPhases
<1>3. phase' \in BeforeEnd2 \cup {"end2"} => phase \in BeforeEnd2
  BY <1>1 DEF After, BeforeEnd, BeforeEnd2, ReadPhases
<1> QED BY <1>2, <1>3, ProbePhase

\* A build that returns an error keeps ProbeInv.
LEMMA ProbeFail ==
    ASSUME Typed, ProbeInv, NEW e, Fail(e) PROVE ProbeInv'
<1>1. UNCHANGED OffsetVars /\ phase' = "failed"
  BY DEF Fail, OffsetVars, reads, cluster, history
<1> QED BY <1>1, ProbePhase DEF BeforeEnd, BeforeEnd2

\* Nothing is probed yet when build begins.
LEMMA ProbeInit == Init => ProbeInv
<1> SUFFICES ASSUME Init PROVE ProbeInv
    OBVIOUS
<1>1. \A tp \in TP : /\ startOff[tp] = Absent /\ endOff[tp] = Absent
                     /\ endOff2[tp] = Absent /\ appended[tp] = 0
  BY DEF Init
<1> QED BY <1>1 DEF ProbeInv, ProbedOnce, StartsBehind, EndsCounted, OffsetsOrdered,
                    DeltaSound, BetweenProbes

\* An answer that is not the Absent marker is the log's offset, on a partition
\* that exists.
LEMMA AnswerReal ==
    ASSUME NEW log, NEW tp \in TP, NEW o \in flattenOffsets(log, tp), o # Absent
    PROVE  replicas[tp] # {} /\ o = log[tp]
  BY DEF flattenOffsets

\* Every step keeps ProbeInv; the probes and the cluster's own changes are the
\* ones that matter.
LEMMA ProbeStep == Typed /\ ProbeInv /\ [Next]_vars => ProbeInv'
<1> SUFFICES ASSUME Typed, ProbeInv, [Next]_vars PROVE ProbeInv'
    OBVIOUS
<1>1. CASE ReadBrokers \/ ReadTopics \/ TopicConfigs \/ Collected \/ ctxSleep
  <2>1. Proceed /\ phase \in ReadPhases
    BY <1>1 DEF ReadBrokers, ReadTopics, TopicConfigs, Collected, ctxSleep, ReadPhases
  <2>2. UNCHANGED OffsetVars
    BY <1>1 DEF ReadBrokers, ReadTopics, TopicConfigs, Collected, ctxSleep,
                OffsetVars, reads, cluster, history
  <2> QED BY <2>1, <2>2, ProbeProceed
<1>2. CASE TopicConfigsError \/ RequestError \/ CtxError
  BY <1>2, ProbeFail DEF TopicConfigsError, RequestError, CtxError
<1>3. CASE \/ \E b \in Brokers : \/ \E unseen \in SUBSET DescribedLogDirs(b) : LogDirSizes(b, unseen)
                                 \/ \E kept \in SUBSET Groups : ListGroups(b, kept)
           \/ \E g \in Groups : \/ \E hidden \in SUBSET Topics : FetchOffsets(g, hidden)
                                \/ FetchOffsetsError(g)
           \/ Finish \/ Deadline
  <2>1. UNCHANGED OffsetVars
    BY <1>3 DEF LogDirSizes, ListGroups, FetchOffsets, FetchOffsetsError, Finish, Deadline,
                OffsetVars, reads, cluster, history
  <2>2. /\ phase' \in BeforeEnd \cup {"end"} => phase \in BeforeEnd \/ UNCHANGED phase
        /\ phase' \in BeforeEnd2 \cup {"end2"} => phase \in BeforeEnd2 \/ UNCHANGED phase
        /\ phase' # "done" => UNCHANGED phase
        /\ todo' \subseteq todo
    BY <1>3 DEF LogDirSizes, ListGroups, FetchOffsets, FetchOffsetsError, Finish, Deadline,
                Answer, BeforeEnd, BeforeEnd2
  <2>3. CASE phase' = "done"
    BY <2>1, <2>3, ProbePhase DEF BeforeEnd, BeforeEnd2
  <2>4. CASE UNCHANGED phase
    <3>1. ProbedOnce'
      BY <2>1, <2>2, <2>4 DEF OffsetVars, ProbeInv, ProbedOnce
    <3>2. StartsBehind' /\ EndsCounted' /\ OffsetsOrdered' /\ DeltaSound'
      BY <2>1 DEF OffsetVars, ProbeInv, StartsBehind, EndsCounted, OffsetsOrdered,
                  DeltaSound, BetweenProbes
    <3> QED BY <3>1, <3>2 DEF ProbeInv
  <2> QED BY <2>2, <2>3, <2>4
<1>4. ASSUME NEW tp \in TP, StartOffsets(tp)
      PROVE  ProbeInv'
  <2>1. PICK o \in flattenOffsets(start, tp) : startOff' = [startOff EXCEPT ![tp] = o]
    BY <1>4 DEF StartOffsets
  <2>2. /\ phase = "start" /\ phase' = phase /\ todo' \subseteq todo
        /\ UNCHANGED <<replicas, start, end, endOff, endOff2, stable, appended>>
    BY <1>4 DEF StartOffsets, Answer, cluster, history
  <2>3. o # Absent => replicas[tp] # {} /\ o = start[tp]
    BY AnswerReal
  <2>4. start[tp] \in Nat /\ \A x \in TP : endOff[x] = Absent
    BY <2>2 DEF Typed, TypeOK, ClusterTypeOK, ProbeInv, ProbedOnce, BeforeEnd
  <2>5. startOff \in [TP -> Nat \cup {Absent}]
    BY DEF Typed, TypeOK
  <2>6. StartsBehind'
    BY <2>1, <2>2, <2>3, <2>4, <2>5 DEF ProbeInv, StartsBehind
  <2>7. OffsetsOrdered' /\ DeltaSound' /\ EndsCounted'
    BY <2>2, <2>4 DEF ProbeInv, OffsetsOrdered, DeltaSound, EndsCounted, BetweenProbes
  <2>8. ProbedOnce'
    BY <2>2 DEF ProbeInv, ProbedOnce, BeforeEnd, BeforeEnd2
  <2> QED BY <2>6, <2>7, <2>8 DEF ProbeInv
<1>5. ASSUME NEW tp \in TP, EndOffsets(tp)
      PROVE  ProbeInv'
  <2>1. PICK o \in flattenOffsets(end, tp) : endOff' = [endOff EXCEPT ![tp] = o]
    BY <1>5 DEF EndOffsets
  <2>2. /\ phase = "end" /\ phase' = phase /\ tp \in todo /\ todo' = todo \ {tp}
        /\ UNCHANGED <<replicas, start, end, startOff, endOff2, stable, appended>>
    BY <1>5 DEF EndOffsets, Answer, cluster, history
  <2>3. o # Absent => replicas[tp] # {} /\ o = end[tp]
    BY AnswerReal
  <2>4. /\ start[tp] \in Nat /\ end[tp] \in Nat /\ start[tp] <= end[tp]
        /\ endOff \in [TP -> Nat \cup {Absent}]
        /\ startOff \in [TP -> Nat \cup {Absent}]
    BY DEF Typed, TypeOK, ClusterTypeOK, LogOrder
  <2>5. endOff[tp] = Absent /\ appended[tp] = 0 /\ \A x \in TP : endOff2[x] = Absent
    BY <2>2 DEF ProbeInv, ProbedOnce, BeforeEnd, BeforeEnd2
  <2>6. \A x \in TP : x # tp => endOff'[x] = endOff[x]
    BY <2>1, <2>4
  <2>7. endOff'[tp] = o
    BY <2>1, <2>4
  <2>8. ProbedOnce'
    BY <2>2, <2>5, <2>6 DEF ProbeInv, ProbedOnce, BeforeEnd, BeforeEnd2
  <2>9. StartsBehind'
    BY <2>2 DEF ProbeInv, StartsBehind
  <2>10. EndsCounted'
    BY <2>2, <2>3, <2>4, <2>5, <2>6, <2>7 DEF ProbeInv, EndsCounted, BetweenProbes
  <2>11. OffsetsOrdered'
    <3>1. tp[1] \in stable /\ startOff[tp] # Absent /\ o # Absent => startOff[tp] <= o
      <4> SUFFICES ASSUME tp[1] \in stable, startOff[tp] # Absent, o # Absent
                   PROVE  startOff[tp] <= o
          OBVIOUS
      <4>1. startOff[tp] <= start[tp] /\ startOff[tp] \in Nat
        BY <2>4 DEF ProbeInv, StartsBehind
      <4> QED BY <4>1, <2>3, <2>4
    <3> QED BY <2>2, <2>6, <2>7, <3>1 DEF ProbeInv, OffsetsOrdered
  <2>12. DeltaSound'
    BY <2>2, <2>5 DEF DeltaSound
  <2> QED BY <2>8, <2>9, <2>10, <2>11, <2>12 DEF ProbeInv
<1>6. ASSUME NEW tp \in TP, EndOffsetsAgain(tp)
      PROVE  ProbeInv'
  <2>1. PICK o \in flattenOffsets(end, tp) : endOff2' = [endOff2 EXCEPT ![tp] = o]
    BY <1>6 DEF EndOffsetsAgain
  <2>2. /\ phase = "end2" /\ phase' = phase /\ tp \in todo /\ todo' = todo \ {tp}
        /\ UNCHANGED <<replicas, start, end, startOff, endOff, stable, appended>>
    BY <1>6 DEF EndOffsetsAgain, Answer, cluster, history
  <2>3. o # Absent => replicas[tp] # {} /\ o = end[tp]
    BY AnswerReal
  <2>4. /\ end[tp] \in Nat /\ appended[tp] \in Nat
        /\ endOff[tp] \in Nat \cup {Absent}
        /\ endOff2 \in [TP -> Nat \cup {Absent}]
    BY DEF Typed, TypeOK, ClusterTypeOK
  <2>5. endOff2[tp] = Absent
    BY <2>2 DEF ProbeInv, ProbedOnce
  <2>6. \A x \in TP : x # tp => endOff2'[x] = endOff2[x]
    BY <2>1, <2>4
  <2>7. endOff2'[tp] = o
    BY <2>1, <2>4
  <2>8. ProbedOnce'
    BY <2>2, <2>5, <2>6 DEF ProbeInv, ProbedOnce, BeforeEnd, BeforeEnd2
  <2>9. StartsBehind' /\ OffsetsOrdered'
    BY <2>2 DEF ProbeInv, StartsBehind, OffsetsOrdered
  <2>10. EndsCounted'
    BY <2>2, <2>5, <2>6 DEF ProbeInv, EndsCounted, BetweenProbes
  <2>11. DeltaSound'
    <3>1. (endOff[tp] # Absent /\ o # Absent) =>
              /\ o - endOff[tp] <= appended[tp]
              /\ tp[1] \in stable => o - endOff[tp] = appended[tp]
      <4> SUFFICES ASSUME endOff[tp] # Absent, o # Absent
                   PROVE  /\ o - endOff[tp] <= appended[tp]
                          /\ tp[1] \in stable => o - endOff[tp] = appended[tp]
          OBVIOUS
      <4>1. /\ end[tp] <= endOff[tp] + appended[tp]
            /\ tp[1] \in stable => end[tp] = endOff[tp] + appended[tp]
        BY <2>5 DEF ProbeInv, EndsCounted, BetweenProbes
      <4> QED BY <4>1, <2>3, <2>4
    <3> QED BY <2>2, <2>6, <2>7, <3>1 DEF ProbeInv, DeltaSound
  <2> QED BY <2>8, <2>9, <2>10, <2>11 DEF ProbeInv
<1>7. CASE Change
  <2>1. /\ UNCHANGED <<phase, todo, startOff, endOff, endOff2>>
        /\ Observe
    BY <1>7 DEF Change, build, reads
  <2>2. /\ ClusterTypeOK'
        /\ \A tp \in TP : (replicas[tp] # {} /\ replicas'[tp] # {}) =>
               start[tp] <= start'[tp] /\ end[tp] <= end'[tp]
    BY <1>7, ClusterStep DEF Change, Typed, TypeOK
  <2>3. stable' \subseteq stable
    BY <2>1 DEF Observe
  <2>4. \A tp \in TP : tp[1] \in stable' /\ replicas[tp] # {} => replicas'[tp] # {}
    <3> SUFFICES ASSUME NEW tp \in TP, tp[1] \in stable', replicas[tp] # {}
                 PROVE  replicas'[tp] # {}
        OBVIOUS
    <3>1. tp[2] \in Partitions /\ tp = <<tp[1], tp[2]>>
      BY DEF TP
    <3> QED BY <2>1, <3>1 DEF Observe
  <2>5. \A tp \in TP : /\ start[tp] \in Nat /\ start'[tp] \in Nat
                       /\ end[tp] \in Nat /\ end'[tp] \in Nat
                       /\ startOff[tp] \in Nat \cup {Absent}
                       /\ endOff[tp] \in Nat \cup {Absent}
                       /\ appended[tp] \in Nat
    BY <2>2 DEF Typed, TypeOK, ClusterTypeOK
  <2>6. \A tp \in TP : appended'[tp] =
            IF BetweenProbes(tp) THEN appended[tp] + Gain(tp) ELSE appended[tp]
    BY <2>1 DEF Observe
  <2>7. ProbedOnce'
    BY <2>1, <2>6 DEF ProbeInv, ProbedOnce, BetweenProbes
  <2>8. StartsBehind'
    <3> SUFFICES ASSUME NEW tp \in TP, tp[1] \in stable', startOff[tp] # Absent
                 PROVE  replicas'[tp] # {} /\ startOff[tp] <= start'[tp]
        BY <2>1 DEF StartsBehind
    <3>1. replicas[tp] # {} /\ startOff[tp] <= start[tp]
      BY <2>3 DEF ProbeInv, StartsBehind
    <3>2. replicas'[tp] # {} /\ start[tp] <= start'[tp]
      BY <2>2, <2>4, <3>1
    <3>3. startOff[tp] \in Nat
      BY <2>5
    <3> QED BY <2>5, <3>1, <3>2, <3>3
  <2>9. EndsCounted'
    <3> SUFFICES ASSUME NEW tp \in TP, BetweenProbes(tp)
                 PROVE  /\ end'[tp] <= endOff[tp] + appended'[tp]
                        /\ tp[1] \in stable' =>
                               /\ replicas'[tp] # {}
                               /\ end'[tp] = endOff[tp] + appended'[tp]
        BY <2>1 DEF EndsCounted, BetweenProbes
    <3>1. /\ end[tp] <= endOff[tp] + appended[tp]
          /\ tp[1] \in stable => /\ replicas[tp] # {}
                                 /\ end[tp] = endOff[tp] + appended[tp]
      BY DEF ProbeInv, EndsCounted
    <3>2. appended'[tp] = appended[tp] + Gain(tp)
      BY <2>6
    <3>3. endOff[tp] \in Nat
      BY <2>5 DEF BetweenProbes
    <3>4. end'[tp] <= endOff[tp] + appended'[tp]
      BY <2>5, <3>1, <3>2, <3>3 DEF Gain
    <3>5. ASSUME tp[1] \in stable'
          PROVE  replicas'[tp] # {} /\ end'[tp] = endOff[tp] + appended'[tp]
      <4>1. replicas[tp] # {} /\ end[tp] = endOff[tp] + appended[tp]
        BY <2>3, <3>1, <3>5
      <4>2. replicas'[tp] # {} /\ end[tp] <= end'[tp]
        BY <2>2, <2>4, <3>5, <4>1
      <4>3. end'[tp] = end[tp] + Gain(tp)
        BY <2>5, <4>2 DEF Gain
      <4>4. Gain(tp) \in Nat
        BY <2>5 DEF Gain
      <4> QED BY <2>5, <3>2, <3>3, <4>1, <4>2, <4>3, <4>4
    <3> QED BY <3>4, <3>5
  <2>10. OffsetsOrdered'
    BY <2>1, <2>3 DEF ProbeInv, OffsetsOrdered
  <2>11. DeltaSound'
    BY <2>1, <2>3, <2>6 DEF ProbeInv, DeltaSound, BetweenProbes
  <2> QED BY <2>7, <2>8, <2>9, <2>10, <2>11 DEF ProbeInv
<1>8. CASE UNCHANGED vars
  BY <1>8, ProbeSame DEF vars, cluster, build, reads, history, ProbeVars
<1> QED
  BY <1>1, <1>2, <1>3, <1>4, <1>5, <1>6, <1>7, <1>8 DEF Next, Step, Finished

\* ProbeInv holds all through every collection.
LEMMA ProbeInvariant == Spec => []ProbeInv
<1>1. Init => Typed /\ ProbeInv
  BY TypedInit, ProbeInit
<1>2. (Typed /\ ProbeInv) /\ [Next]_vars => (Typed /\ ProbeInv)'
  BY TypedStep, ProbeStep
<1> QED BY <1>1, <1>2, PTL DEF Spec

\* For every cluster and every interleaving of its changes with the reads, a
\* partition of a topic that was not deleted is never recorded as ending before
\* it starts: build asks for the start offsets first.
THEOREM OffsetsStayOrdered == Spec => []OffsetsOrdered
<1>1. ProbeInv => OffsetsOrdered
  BY DEF ProbeInv
<1> QED BY <1>1, ProbeInvariant, PTL

\* The delta between the two end probes never exceeds the records appended
\* between them, even when the topic is deleted and recreated in between, and
\* is exact for a topic that is not.
THEOREM DeltaIsSound == Spec => []DeltaSound
<1>1. ProbeInv => DeltaSound
  BY DEF ProbeInv
<1> QED BY <1>1, ProbeInvariant, PTL

-----------------------------------------------------------------------------
(* The deadline and the committed offsets.                                   *)

\* What an expired context hid stays behind the second probe: the context stays
\* expired, and no partition answers on it any more.
LateInv ==
    /\ late # {} => expired
    /\ late # {} /\ opts.window =>
           phase \in {"committed", "sleep", "failed"} \/ (phase = "end2" /\ todo = TP)

\* No fetch has failed when build begins.
LEMMA LateInit == Init => LateInv
  BY DEF Init, LateInv

\* With a sample window, the step out of CommittedOffsets leads to ctxSleep.  If
\* its timer wins over a context that is done, the second probe, which has a
\* partition to ask about, cannot be answered any more.
LEMMA LateStep == Typed /\ LateInv /\ [Next]_vars => LateInv'
<1> SUFFICES ASSUME Typed, LateInv, [Next]_vars PROVE LateInv'
    OBVIOUS
<1> USE DEF LateInv
<1>1. CASE ReadBrokers \/ ReadTopics
  <2>1. ~expired /\ Proceed /\ UNCHANGED late
    BY <1>1 DEF ReadBrokers, ReadTopics, history
  <2> QED BY <2>1 DEF Proceed
<1>2. CASE TopicConfigs \/ Collected \/ ctxSleep
  <2>1. /\ Proceed /\ UNCHANGED late /\ phase # "failed"
        /\ phase = "end2" => todo = {}
    BY <1>2 DEF TopicConfigs, Collected, ctxSleep, history
  <2>2. /\ UNCHANGED <<opts, expired>>
        /\ phase' = After(phase) /\ todo' = Work(phase')
    BY <2>1 DEF Proceed
  <2>3. phase = "committed" /\ opts.window => phase' = "sleep"
    BY <2>2 DEF After
  <2>4. phase = "sleep" => phase' = "end2" /\ todo' = TP
    <3>1. phase = "sleep" => phase' = "end2"
      BY <2>2 DEF After
    <3>2. Work("end2") = TP
      BY DEF Work
    <3> QED BY <2>2, <3>1, <3>2
  <2>5. TP # {}
    <3>1. PICK t \in Topics : TRUE
      BY ClusterAssumption
    <3>2. 0 \in Partitions
      BY ClusterAssumption DEF Partitions
    <3>3. <<t, 0>> \in TP
      BY <3>1, <3>2 DEF TP
    <3> QED BY <3>3
  <2> QED BY <2>1, <2>2, <2>3, <2>4, <2>5
<1>3. CASE TopicConfigsError \/ RequestError \/ CtxError
  BY <1>3 DEF TopicConfigsError, RequestError, CtxError, Fail, history
<1>4. CASE \/ \E b \in Brokers : \/ \E unseen \in SUBSET DescribedLogDirs(b) : LogDirSizes(b, unseen)
                                 \/ \E kept \in SUBSET Groups : ListGroups(b, kept)
           \/ \E tp \in TP : StartOffsets(tp) \/ EndOffsets(tp) \/ EndOffsetsAgain(tp)
           \/ \E g \in Groups : \E hidden \in SUBSET Topics : FetchOffsets(g, hidden)
  BY <1>4 DEF LogDirSizes, ListGroups, StartOffsets, EndOffsets, EndOffsetsAgain,
              FetchOffsets, Answer, history
<1>5. ASSUME NEW g \in Groups, FetchOffsetsError(g)
      PROVE  LateInv'
  BY <1>5 DEF FetchOffsetsError
<1>6. CASE Finish
  BY <1>6 DEF Finish, history
<1>7. CASE Deadline
  BY <1>7 DEF Deadline, history
<1>8. CASE Change
  BY <1>8 DEF Change, Observe, build
<1>9. CASE UNCHANGED vars
  BY <1>9 DEF vars, build, history
<1> QED
  BY <1>1, <1>2, <1>3, <1>4, <1>5, <1>6, <1>7, <1>8, <1>9 DEF Next, Step, Finished

\* With a sample window, no snapshot is ever returned that lost a group's
\* committed offsets to the deadline, although CommittedOffsets swallows that
\* error: the sleep that follows or, at the latest, the second probe reports it.
THEOREM SampledSnapshotNotLate == Spec => []SampledNotLate
<1>1. LateInv => SampledNotLate
  BY DEF LateInv, SampledNotLate
<1>2. Init => Typed /\ LateInv
  BY TypedInit, LateInit
<1>3. (Typed /\ LateInv) /\ [Next]_vars => (Typed /\ LateInv)'
  BY TypedStep, LateStep
<1> QED BY <1>1, <1>2, <1>3, PTL DEF Spec

-----------------------------------------------------------------------------
(* Why a collection fails.                                                   *)

\* A listed topic that was never deleted has the partitions it was listed with.
ListedStays ==
    \A tp \in TP : listed[tp] # {} /\ tp[1] \in stable => replicas[tp] # {}

FailInv == ListedStays /\ FailureHasCause

\* Nothing is listed and nothing has failed when build begins.
LEMMA FailInit == Init => FailInv
  BY DEF Init, FailInv, ListedStays, FailureHasCause

\* Steps that leave the layout and what was listed of it alone.
LayoutVars == <<replicas, listed, stable>>

\* Going on keeps FailInv: After never leads to a failure.
LEMMA FailProceed ==
    ASSUME FailInv, UNCHANGED LayoutVars, phase \in ReadPhases, Proceed
    PROVE  FailInv'
<1>1. phase' # "failed"
  BY DEF Proceed, After, ReadPhases
<1> QED BY <1>1 DEF FailInv, LayoutVars, ListedStays, FailureHasCause

\* A topic missing from the describe answer was deleted after it was listed;
\* every other step that fails gives its own reason.
LEMMA FailStep == Typed /\ FailInv /\ [Next]_vars => FailInv'
<1> SUFFICES ASSUME Typed, FailInv, [Next]_vars PROVE FailInv'
    OBVIOUS
<1>1. CASE ReadBrokers \/ TopicConfigs \/ Collected \/ ctxSleep
  <2>1. Proceed /\ phase \in ReadPhases
    BY <1>1 DEF ReadBrokers, TopicConfigs, Collected, ctxSleep, ReadPhases
  <2>2. UNCHANGED LayoutVars
    BY <1>1 DEF ReadBrokers, TopicConfigs, Collected, ctxSleep, LayoutVars, reads,
                cluster, history
  <2> QED BY <2>1, <2>2, FailProceed
<1>2. CASE ReadTopics
  <2>1. phase' = "configs"
    BY <1>2 DEF ReadTopics, Proceed, After
  <2>2. UNCHANGED <<replicas, stable>>
    BY <1>2 DEF ReadTopics, cluster, history
  <2>3. \A tp \in TP : listed'[tp] # {} => replicas[tp] # {}
    BY <1>2 DEF ReadTopics
  <2> QED BY <2>1, <2>2, <2>3 DEF FailInv, ListedStays, FailureHasCause
<1>3. CASE TopicConfigsError
  <2>1. PICK t \in topicNames : ~Exists(t)
    BY <1>3 DEF TopicConfigsError
  <2>2. PICK p \in Partitions : listed[<<t, p>>] # {}
    BY <2>1 DEF topicNames
  <2>3. <<t, p>> \in TP /\ replicas[<<t, p>>] = {}
    BY <2>1, <2>2 DEF topicNames, TP, Exists
  <2>4. t \notin stable
    BY <2>2, <2>3 DEF FailInv, ListedStays
  <2>5. /\ phase' = "failed" /\ err' = "topic config"
        /\ UNCHANGED <<listed, replicas, stable>>
    BY <1>3 DEF TopicConfigsError, Fail, reads, cluster, history
  <2>6. topicNames' = topicNames
    BY <2>5 DEF topicNames
  <2> QED BY <2>1, <2>4, <2>5, <2>6 DEF FailInv, ListedStays, FailureHasCause
<1>4. CASE RequestError
  <2>1. /\ phase' = "failed" /\ err' = phase /\ phase \in ReadPhases
        /\ "request" \in Faults
        /\ UNCHANGED <<listed, replicas, stable>>
    BY <1>4 DEF RequestError, Fail, reads, cluster, history
  <2> QED BY <2>1 DEF FailInv, ListedStays, FailureHasCause
<1>5. CASE CtxError
  <2>1. /\ phase' = "failed" /\ err' = "context" /\ expired /\ expired' = expired
        /\ UNCHANGED <<listed, replicas, stable>>
    BY <1>5 DEF CtxError, Fail, reads, cluster, history
  <2> QED BY <2>1 DEF FailInv, ListedStays, FailureHasCause
<1>6. CASE \/ \E b \in Brokers : \/ \E unseen \in SUBSET DescribedLogDirs(b) : LogDirSizes(b, unseen)
                                 \/ \E kept \in SUBSET Groups : ListGroups(b, kept)
           \/ \E tp \in TP : StartOffsets(tp) \/ EndOffsets(tp) \/ EndOffsetsAgain(tp)
           \/ \E g \in Groups : \/ \E hidden \in SUBSET Topics : FetchOffsets(g, hidden)
                                \/ FetchOffsetsError(g)
           \/ Finish \/ Deadline
  <2>1. UNCHANGED LayoutVars /\ phase' # "failed"
    BY <1>6 DEF LogDirSizes, ListGroups, StartOffsets, EndOffsets, EndOffsetsAgain, FetchOffsets,
                FetchOffsetsError, Finish, Deadline, Answer, LayoutVars, reads, cluster,
                history, ReadPhases
  <2> QED BY <2>1 DEF FailInv, LayoutVars, ListedStays, FailureHasCause
<1>7. CASE Change
  <2>1. phase' # "failed" /\ listed' = listed /\ Observe
    BY <1>7 DEF Change, build, reads, ReadPhases
  <2>2. ASSUME NEW tp \in TP, listed[tp] # {}, tp[1] \in stable'
        PROVE  replicas'[tp] # {}
    <3>1. tp[1] \in stable /\ tp[2] \in Partitions /\ tp = <<tp[1], tp[2]>>
      BY <2>1, <2>2 DEF Observe, TP
    <3>2. replicas[tp] # {}
      BY <2>2, <3>1 DEF FailInv, ListedStays
    <3> QED BY <2>1, <2>2, <3>1, <3>2 DEF Observe
  <2> QED BY <2>1, <2>2 DEF FailInv, ListedStays, FailureHasCause
<1>8. CASE UNCHANGED vars
  <2>1. UNCHANGED <<phase, err, expired, listed, replicas, stable>>
    BY <1>8 DEF vars, build, cluster, history, reads
  <2>2. topicNames' = topicNames
    BY <2>1 DEF topicNames
  <2> QED BY <2>1, <2>2 DEF FailInv, ListedStays, FailureHasCause
<1> QED
  BY <1>1, <1>2, <1>3, <1>4, <1>5, <1>6, <1>7, <1>8 DEF Next, Step, Finished

\* A collection never fails because of a topic that is not in the snapshot, or
\* that was not deleted between Topics and TopicConfigs.
THEOREM FailureIsExplained == Spec => []FailureHasCause
<1>1. FailInv => FailureHasCause
  BY DEF FailInv
<1>2. Init => Typed /\ FailInv
  BY TypedInit, FailInit
<1>3. (Typed /\ FailInv) /\ [Next]_vars => (Typed /\ FailInv)'
  BY TypedStep, FailStep
<1> QED BY <1>1, <1>2, <1>3, PTL DEF Spec
=============================================================================
