-------------------------- MODULE CollectImplProofs --------------------------
(***************************************************************************)
(* Proofs that Collect implements Sampling, for any cluster: the offset       *)
(* probes, the topic list, the group list and the committed offsets.          *)
(***************************************************************************)
EXTENDS CollectImpl, CollectProofs

-----------------------------------------------------------------------------
(* Nothing is taken before its turn.                                         *)

\* What a read has not answered yet holds nothing.
TakenOnce ==
    /\ phase \in {"brokers", "topics"} => listed = [tp \in TP |-> {}]
    /\ \A tp \in TP : phase \in UntilStarts \/ (phase = "start" /\ tp \in todo)
                          => startOff[tp] = Absent
    /\ \A g \in Groups : phase \in UntilCommits \/ (phase = "committed" /\ g \in todo)
                          => committed[g] = {}

TakenVars == <<listed, startOff, committed>>

\* Moving to a later phase: a read is only begun from the phase before it.
LEMMA TakenPhase ==
    ASSUME TakenOnce, UNCHANGED TakenVars,
           phase' \in {"brokers", "topics"} => phase \in {"brokers", "topics"},
           phase' \in UntilStarts \cup {"start"} => phase \in UntilStarts,
           phase' \in UntilCommits \cup {"committed"} => phase \in UntilCommits
    PROVE  TakenOnce'
  BY DEF TakenOnce, TakenVars

\* Every step keeps it: an answer takes its item out of todo.
LEMMA TakenStep == Typed /\ TakenOnce /\ [Next]_vars => TakenOnce'
<1> SUFFICES ASSUME Typed, TakenOnce, [Next]_vars PROVE TakenOnce'
    OBVIOUS
<1> USE DEF UntilTopics, UntilStarts, UntilEnds, UntilStates, UntilCommits
<1>1. CASE ReadBrokers \/ TopicConfigs \/ Collected \/ ctxSleep
  <2>1. /\ UNCHANGED TakenVars /\ phase' = After(phase)
        /\ phase \in ReadPhases \ {"topics"}
    BY <1>1 DEF ReadBrokers, TopicConfigs, Collected, ctxSleep, reads, TakenVars,
                Proceed, ReadPhases
  <2>2. /\ phase' \in {"brokers", "topics"} => phase \in {"brokers", "topics"}
        /\ phase' \in UntilStarts \cup {"start"} => phase \in UntilStarts
        /\ phase' \in UntilCommits \cup {"committed"} => phase \in UntilCommits
    BY <2>1 DEF After, ReadPhases
  <2> QED BY <2>1, <2>2, TakenPhase
<1>2. CASE ReadTopics
  <2>1. phase = "topics" /\ phase' = "configs"
    BY <1>2 DEF ReadTopics, Proceed, After
  <2>2. UNCHANGED <<startOff, committed>>
    BY <1>2 DEF ReadTopics
  <2> QED BY <2>1, <2>2 DEF TakenOnce
<1>3. ASSUME NEW tp \in TP, StartOffsets(tp)
      PROVE  TakenOnce'
  <2>1. /\ phase = "start" /\ phase' = phase /\ todo' = todo \ {tp}
        /\ UNCHANGED <<listed, committed>>
    BY <1>3 DEF StartOffsets, Answer
  <2>2. \A x \in TP : x # tp => startOff'[x] = startOff[x]
    BY <1>3 DEF StartOffsets, Typed, TypeOK
  <2> QED BY <2>1, <2>2 DEF TakenOnce
<1>4. ASSUME NEW g \in Groups, NEW hidden \in SUBSET Topics, FetchOffsets(g, hidden)
      PROVE  TakenOnce'
  <2>1. /\ phase = "committed" /\ phase' = phase /\ todo' = todo \ {g}
        /\ UNCHANGED <<listed, startOff>>
    BY <1>4 DEF FetchOffsets, Answer
  <2>2. \A x \in Groups : x # g => committed'[x] = committed[x]
    BY <1>4 DEF FetchOffsets, Typed, TypeOK
  <2> QED BY <2>1, <2>2 DEF TakenOnce
<1>5. CASE \/ \E b \in Brokers : \/ \E unseen \in SUBSET DescribedLogDirs(b) : LogDirSizes(b, unseen)
                                 \/ \E kept \in SUBSET Groups : ListGroups(b, kept)
           \/ \E tp \in TP : EndOffsets(tp) \/ EndOffsetsAgain(tp)
           \/ \E g \in Groups : FetchOffsetsError(g)
           \/ Deadline \/ Change \/ UNCHANGED vars
  <2>1. UNCHANGED TakenVars /\ phase' = phase /\ todo' \subseteq todo
    BY <1>5 DEF LogDirSizes, ListGroups, EndOffsets, EndOffsetsAgain, FetchOffsetsError,
                Deadline, Change, Answer, TakenVars, reads, build, vars
  <2> QED BY <2>1 DEF TakenOnce, TakenVars
<1>6. CASE TopicConfigsError \/ RequestError \/ CtxError \/ Finish
  <2>1. UNCHANGED TakenVars /\ phase' \in Terminal
    BY <1>6 DEF TopicConfigsError, RequestError, CtxError, Finish, Fail, TakenVars,
                reads, Terminal
  <2> QED BY <2>1, TakenPhase DEF Terminal
<1> QED BY <1>1, <1>2, <1>3, <1>4, <1>5, <1>6 DEF Next, Step, Finished

\* It holds all through every collection.
LEMMA TakenInvariant == Spec => []TakenOnce
<1>1. Init => Typed /\ TakenOnce
  BY TypedInit DEF Init, TakenOnce
<1>2. (Typed /\ TakenOnce) /\ [Next]_vars => (Typed /\ TakenOnce)'
  BY TypedStep, TakenStep
<1> QED BY <1>1, <1>2, PTL DEF Spec

-----------------------------------------------------------------------------
(* What a step is to a sampling.                                             *)

\* The read of phase p stays where it is, begins or ends.
Advances(before, p) ==
    \/ StatusOf(before, p)' = StatusOf(before, p)
    \/ StatusOf(before, p) = "waiting" /\ StatusOf(before, p)' \in {"reading", "over"}
    \/ StatusOf(before, p) = "reading" /\ StatusOf(before, p)' = "over"

Advancing ==
    /\ Advances(UntilTopics, "topics") /\ Advances(UntilStarts, "start")
    /\ Advances(UntilEnds, "end") /\ Advances(UntilStates, "groups")
    /\ Advances(UntilCommits, "committed") /\ Advances(UntilAgain, "end2")

\* Reads come in the order of their phases, none twice, and end with the build.
LEMMA PhaseAdvances ==
    ASSUME \/ phase' = phase
           \/ phase \in ReadPhases /\ phase' = After(phase)
           \/ phase' \in Terminal
    PROVE  Advancing
<1> USE DEF Advancing, Advances, StatusOf, UntilTopics, UntilStarts, UntilEnds, UntilStates,
            UntilCommits, UntilAgain
<1>1. CASE phase' = phase
  BY <1>1
<1>2. CASE phase \in ReadPhases /\ phase' = After(phase)
  BY <1>2 DEF After, ReadPhases
<1>3. CASE phase' \in Terminal
  BY <1>3 DEF Terminal
<1> QED BY <1>1, <1>2, <1>3

Sampled == <<listed, startOff, endOff, endOff2, groupInfo, committed>>

Moving == Advancing /\ UNCHANGED <<cluster, expired, Sampled>>
Expiring == phase' = phase /\ expired' = TRUE /\ UNCHANGED <<cluster, Sampled>>
Changing == phase' = phase /\ UNCHANGED <<expired, Sampled>>
Reading == Advancing /\ ~expired /\ UNCHANGED <<cluster, expired>>

\* The reads that fill a sampled part of the snapshot.
Filling ==
    \/ ReadTopics
    \/ \E b \in Brokers : \E kept \in SUBSET Groups : ListGroups(b, kept)
    \/ \E tp \in TP : StartOffsets(tp) \/ EndOffsets(tp) \/ EndOffsetsAgain(tp)
    \/ \E g \in Groups : \E hidden \in SUBSET Topics : FetchOffsets(g, hidden)

\* A read that answers does so before the deadline, and everything else leaves
\* what was taken alone.
LEMMA StepKind ==
    ASSUME [Next]_vars
    PROVE  Moving \/ Expiring \/ Changing \/ (Reading /\ Filling)
<1>1. CASE ReadBrokers \/ TopicConfigs \/ Collected \/ ctxSleep
  <2>1. /\ UNCHANGED <<cluster, expired, Sampled>> /\ phase \in ReadPhases
        /\ phase' = After(phase)
    BY <1>1 DEF ReadBrokers, TopicConfigs, Collected, ctxSleep, Proceed, ReadPhases,
                reads, Sampled
  <2> QED BY <2>1, PhaseAdvances DEF Moving
<1>2. CASE ReadTopics
  <2>1. /\ UNCHANGED <<cluster, expired>> /\ ~expired /\ phase \in ReadPhases
        /\ phase' = After(phase)
    BY <1>2 DEF ReadTopics, Proceed, ReadPhases
  <2> QED BY <1>2, <2>1, PhaseAdvances DEF Reading, Filling
<1>3. CASE \/ \E b \in Brokers : \E unseen \in SUBSET DescribedLogDirs(b) :
                  LogDirSizes(b, unseen)
           \/ \E g \in Groups : FetchOffsetsError(g)
           \/ UNCHANGED vars
  <2>1. UNCHANGED <<cluster, expired, Sampled, phase>>
    BY <1>3 DEF LogDirSizes, Answer, FetchOffsetsError, vars, build, reads, Sampled
  <2> QED BY <2>1, PhaseAdvances DEF Moving
<1>4. CASE \/ \E b \in Brokers : \E kept \in SUBSET Groups : ListGroups(b, kept)
           \/ \E tp \in TP : StartOffsets(tp) \/ EndOffsets(tp) \/ EndOffsetsAgain(tp)
           \/ \E g \in Groups : \E hidden \in SUBSET Topics : FetchOffsets(g, hidden)
  <2>1. UNCHANGED <<cluster, expired, phase>> /\ ~expired
    BY <1>4 DEF ListGroups, StartOffsets, EndOffsets, EndOffsetsAgain, FetchOffsets,
                Answer, cluster
  <2> QED BY <1>4, <2>1, PhaseAdvances DEF Reading, Filling
<1>5. CASE TopicConfigsError \/ RequestError \/ CtxError \/ Finish
  <2>1. UNCHANGED <<cluster, expired, Sampled>> /\ phase' \in Terminal
    BY <1>5 DEF TopicConfigsError, RequestError, CtxError, Finish, Fail, Terminal,
                reads, Sampled
  <2> QED BY <2>1, PhaseAdvances DEF Moving
<1>6. CASE Deadline
  BY <1>6 DEF Deadline, Expiring, reads, Sampled
<1>7. CASE Change
  BY <1>7 DEF Change, Changing, build, reads, Sampled
<1> QED BY <1>1, <1>2, <1>3, <1>4, <1>5, <1>6, <1>7 DEF Next, Step, Finished

-----------------------------------------------------------------------------
(* The topic list and the offset probes.                                     *)

\* To the start offsets, a step is an answer taken before the deadline, or one
\* that leaves them alone.
LEMMA StartsStep ==
    ASSUME Typed, TakenOnce, [Next]_vars
    PROVE  [Starts!Next]_(Starts!vars)
<1> USE DEF Starts!Next, Starts!vars
<1>1. ASSUME Advancing, UNCHANGED <<cluster, expired, startOff>>
      PROVE  [Starts!Next]_(Starts!vars)
  BY <1>1 DEF Advancing, Advances, cluster, Starts!Begin, Starts!End
<1>2. CASE Moving
  BY <1>1, <1>2 DEF Moving, Sampled
<1>3. CASE Expiring
  BY <1>3 DEF Expiring, StatusOf, cluster, Sampled, Starts!Expire
<1>4. CASE Changing
  BY <1>4 DEF Changing, StatusOf, Sampled, Starts!Change
<1>5. ASSUME Reading, NEW tp \in TP, StartOffsets(tp)
      PROVE  [Starts!Next]_(Starts!vars)
  <2>1. PICK o \in flattenOffsets(start, tp) : startOff' = [startOff EXCEPT ![tp] = o]
    BY <1>5 DEF StartOffsets
  <2>2. o = Absent \/ o = start[tp]
    BY DEF flattenOffsets
  <2>3. startOff \in [TP -> Nat \cup {Absent}] /\ startOff[tp] = Absent
    BY <1>5 DEF Typed, TypeOK, StartOffsets, Answer, TakenOnce
  <2>4. startOff' = [x \in TP |-> startOff'[x]]
    BY <2>1, <2>3
  <2>5. \A x \in TP : startOff'[x] # startOff[x] => startOff[x] = Absent /\ startOff'[x] = start[x]
    BY <2>1, <2>2, <2>3
  <2>6. StatusOf(UntilStarts, "start") = "reading" /\ StatusOf(UntilStarts, "start")' = "reading"
    BY <1>5 DEF StartOffsets, Answer, StatusOf, UntilTopics, UntilStarts, UntilEnds,
                UntilStates, UntilCommits, UntilAgain
  <2> QED BY <1>5, <2>4, <2>5, <2>6 DEF Reading, cluster, Starts!Take
<1>6. CASE Reading /\ startOff' = startOff
  BY <1>1, <1>6 DEF Reading
<1>7. Filling =>
          startOff' = startOff \/ \E tp \in TP : StartOffsets(tp)
  BY DEF Filling, ReadTopics, ListGroups, StartOffsets, EndOffsets, EndOffsetsAgain,
         FetchOffsets
<1> QED BY <1>2, <1>3, <1>4, <1>5, <1>6, <1>7, StepKind

\* The same for the first end probe.
LEMMA EndsStep ==
    ASSUME Typed, ProbedOnce, [Next]_vars
    PROVE  [Ends!Next]_(Ends!vars)
<1> USE DEF Ends!Next, Ends!vars
<1>1. ASSUME Advancing, UNCHANGED <<cluster, expired, endOff>>
      PROVE  [Ends!Next]_(Ends!vars)
  BY <1>1 DEF Advancing, Advances, cluster, Ends!Begin, Ends!End
<1>2. CASE Moving
  BY <1>1, <1>2 DEF Moving, Sampled
<1>3. CASE Expiring
  BY <1>3 DEF Expiring, StatusOf, cluster, Sampled, Ends!Expire
<1>4. CASE Changing
  BY <1>4 DEF Changing, StatusOf, Sampled, Ends!Change
<1>5. ASSUME Reading, NEW tp \in TP, EndOffsets(tp)
      PROVE  [Ends!Next]_(Ends!vars)
  <2>1. PICK o \in flattenOffsets(end, tp) : endOff' = [endOff EXCEPT ![tp] = o]
    BY <1>5 DEF EndOffsets
  <2>2. o = Absent \/ o = end[tp]
    BY DEF flattenOffsets
  <2>3. endOff \in [TP -> Nat \cup {Absent}] /\ endOff[tp] = Absent
    BY <1>5 DEF Typed, TypeOK, EndOffsets, Answer, ProbedOnce
  <2>4. endOff' = [x \in TP |-> endOff'[x]]
    BY <2>1, <2>3
  <2>5. \A x \in TP : endOff'[x] # endOff[x] => endOff[x] = Absent /\ endOff'[x] = end[x]
    BY <2>1, <2>2, <2>3
  <2>6. StatusOf(UntilEnds, "end") = "reading" /\ StatusOf(UntilEnds, "end")' = "reading"
    BY <1>5 DEF EndOffsets, Answer, StatusOf, UntilTopics, UntilStarts, UntilEnds,
                UntilStates, UntilCommits, UntilAgain
  <2> QED BY <1>5, <2>4, <2>5, <2>6 DEF Reading, cluster, Ends!Take
<1>6. CASE Reading /\ endOff' = endOff
  BY <1>1, <1>6 DEF Reading
<1>7. Filling =>
          endOff' = endOff \/ \E tp \in TP : EndOffsets(tp)
  BY DEF Filling, ReadTopics, ListGroups, StartOffsets, EndOffsets, EndOffsetsAgain,
         FetchOffsets
<1> QED BY <1>2, <1>3, <1>4, <1>5, <1>6, <1>7, StepKind

\* The same for the second end probe.
LEMMA EndsAgainStep ==
    ASSUME Typed, ProbedOnce, [Next]_vars
    PROVE  [EndsAgain!Next]_(EndsAgain!vars)
<1> USE DEF EndsAgain!Next, EndsAgain!vars
<1>1. ASSUME Advancing, UNCHANGED <<cluster, expired, endOff2>>
      PROVE  [EndsAgain!Next]_(EndsAgain!vars)
  BY <1>1 DEF Advancing, Advances, cluster, EndsAgain!Begin, EndsAgain!End
<1>2. CASE Moving
  BY <1>1, <1>2 DEF Moving, Sampled
<1>3. CASE Expiring
  BY <1>3 DEF Expiring, StatusOf, cluster, Sampled, EndsAgain!Expire
<1>4. CASE Changing
  BY <1>4 DEF Changing, StatusOf, Sampled, EndsAgain!Change
<1>5. ASSUME Reading, NEW tp \in TP, EndOffsetsAgain(tp)
      PROVE  [EndsAgain!Next]_(EndsAgain!vars)
  <2>1. PICK o \in flattenOffsets(end, tp) : endOff2' = [endOff2 EXCEPT ![tp] = o]
    BY <1>5 DEF EndOffsetsAgain
  <2>2. o = Absent \/ o = end[tp]
    BY DEF flattenOffsets
  <2>3. endOff2 \in [TP -> Nat \cup {Absent}] /\ endOff2[tp] = Absent
    BY <1>5 DEF Typed, TypeOK, EndOffsetsAgain, Answer, ProbedOnce
  <2>4. endOff2' = [x \in TP |-> endOff2'[x]]
    BY <2>1, <2>3
  <2>5. \A x \in TP : endOff2'[x] # endOff2[x] => endOff2[x] = Absent /\ endOff2'[x] = end[x]
    BY <2>1, <2>2, <2>3
  <2>6. StatusOf(UntilAgain, "end2") = "reading" /\ StatusOf(UntilAgain, "end2")' = "reading"
    BY <1>5 DEF EndOffsetsAgain, Answer, StatusOf, UntilTopics, UntilStarts, UntilEnds,
                UntilStates, UntilCommits, UntilAgain
  <2> QED BY <1>5, <2>4, <2>5, <2>6 DEF Reading, cluster, EndsAgain!Take
<1>6. CASE Reading /\ endOff2' = endOff2
  BY <1>1, <1>6 DEF Reading
<1>7. Filling =>
          endOff2' = endOff2 \/ \E tp \in TP : EndOffsetsAgain(tp)
  BY DEF Filling, ReadTopics, ListGroups, StartOffsets, EndOffsets, EndOffsetsAgain,
         FetchOffsets
<1> QED BY <1>2, <1>3, <1>4, <1>5, <1>6, <1>7, StepKind

\* The topic list is taken in one step, from nothing.
LEMMA LayoutStep ==
    ASSUME Typed, TakenOnce, [Next]_vars
    PROVE  [Layout!Next]_(Layout!vars)
<1> USE DEF Layout!Next, Layout!vars
<1>1. ASSUME Advancing, UNCHANGED <<cluster, expired, listed>>
      PROVE  [Layout!Next]_(Layout!vars)
  BY <1>1 DEF Advancing, Advances, cluster, Layout!Begin, Layout!End
<1>2. CASE Moving
  BY <1>1, <1>2 DEF Moving, Sampled
<1>3. CASE Expiring
  BY <1>3 DEF Expiring, StatusOf, cluster, Sampled, Layout!Expire
<1>4. CASE Changing
  BY <1>4 DEF Changing, StatusOf, Sampled, Layout!Change
<1>5. CASE Reading /\ ReadTopics
  <2>1. listed = [tp \in TP |-> {}]
    BY <1>5 DEF ReadTopics, TakenOnce
  <2>2. listed' = [tp \in TP |-> IF dropInternal(tp[1]) THEN {} ELSE replicas[tp]]
    BY <1>5 DEF ReadTopics
  <2>3. listed' = [tp \in TP |-> listed'[tp]]
    BY <2>2
  <2>4. \A tp \in TP : listed'[tp] # listed[tp] =>
            listed[tp] = {} /\ listed'[tp] = replicas[tp]
    BY <2>1, <2>2
  <2>5. /\ StatusOf(UntilTopics, "topics") = "reading"
        /\ StatusOf(UntilTopics, "topics")' = "over"
    BY <1>5 DEF ReadTopics, Proceed, After, StatusOf, UntilTopics
  <2> QED BY <1>5, <2>1, <2>3, <2>4, <2>5
          DEF Reading, cluster, Layout!Take, Layout!Untouched
<1>6. CASE Reading /\ listed' = listed
  BY <1>1, <1>6 DEF Reading
<1>7. Filling => listed' = listed \/ ReadTopics
  BY DEF Filling, ReadTopics, ListGroups, StartOffsets, EndOffsets, EndOffsetsAgain,
         FetchOffsets
<1> QED BY <1>2, <1>3, <1>4, <1>5, <1>6, <1>7, StepKind

\* For every cluster and every interleaving of its changes with the reads, the
\* layout and the offsets of a snapshot were the cluster's while they were read
\* and before the deadline, and no later probe revises them (collect.go:77-133).
THEOREM OffsetReadsHold == Spec => OffsetReads
<1>1. Init => Layout!Init /\ Starts!Init /\ Ends!Init /\ EndsAgain!Init
  BY DEF Init, StatusOf, UntilTopics, UntilStarts, UntilEnds, UntilStates, UntilCommits,
         UntilAgain, Layout!Init, Layout!Untouched, Starts!Init, Starts!Untouched,
         Ends!Init, Ends!Untouched, EndsAgain!Init, EndsAgain!Untouched
<1>2. ProbeInv => ProbedOnce
  BY DEF ProbeInv
<1>3. Spec => []Typed
  BY TypedInit, TypedStep, PTL DEF Spec
<1>4. Typed /\ TakenOnce /\ [Next]_vars => [Layout!Next]_(Layout!vars)
  BY LayoutStep
<1>5. Typed /\ TakenOnce /\ [Next]_vars => [Starts!Next]_(Starts!vars)
  BY StartsStep
<1>6. Typed /\ ProbedOnce /\ [Next]_vars => [Ends!Next]_(Ends!vars)
  BY EndsStep
<1>7. Typed /\ ProbedOnce /\ [Next]_vars => [EndsAgain!Next]_(EndsAgain!vars)
  BY EndsAgainStep
<1> QED BY <1>1, <1>2, <1>3, <1>4, <1>5, <1>6, <1>7, ProbeInvariant, TakenInvariant, PTL
        DEF Spec, OffsetReads, Layout!Spec, Starts!Spec, Ends!Spec, EndsAgain!Spec

-----------------------------------------------------------------------------
(* The groups and their committed offsets.                                   *)

\* Every state in a broker's answer is the group's at that moment, whatever an
\* earlier answer said.
LEMMA StatesStep ==
    ASSUME Typed, TakenOnce, [Next]_vars
    PROVE  [States!Next]_(States!vars)
<1> USE DEF States!Next, States!vars
<1>1. ASSUME Advancing, UNCHANGED <<cluster, expired, groupInfo>>
      PROVE  [States!Next]_(States!vars)
  BY <1>1 DEF Advancing, Advances, cluster, States!Begin, States!End
<1>2. CASE Moving
  BY <1>1, <1>2 DEF Moving, Sampled
<1>3. CASE Expiring
  BY <1>3 DEF Expiring, StatusOf, cluster, Sampled, States!Expire
<1>4. CASE Changing
  BY <1>4 DEF Changing, StatusOf, Sampled, States!Change
<1>5. ASSUME Reading, NEW b \in Brokers, NEW kept \in SUBSET Groups, ListGroups(b, kept)
      PROVE  [States!Next]_(States!vars)
  <2>1. groupInfo' = [g \in Groups |->
            IF coordinator[g] = b /\ state[g] # NoGroup /\ g \notin kept
            THEN state[g] ELSE groupInfo[g]]
    BY <1>5 DEF ListGroups
  <2>2. groupInfo' = [g \in Groups |-> groupInfo'[g]]
    BY <2>1
  <2>3. \A g \in Groups : groupInfo'[g] # groupInfo[g] => groupInfo'[g] = state[g]
    BY <2>1
  <2>4. StatusOf(UntilStates, "groups") = "reading" /\ StatusOf(UntilStates, "groups")' = "reading"
    BY <1>5 DEF ListGroups, Answer, StatusOf, UntilTopics, UntilStarts, UntilEnds,
                UntilStates
  <2> QED BY <1>5, <2>2, <2>3, <2>4 DEF Reading, cluster, States!Take
<1>6. CASE Reading /\ groupInfo' = groupInfo
  BY <1>1, <1>6 DEF Reading
<1>7. Filling =>
          \/ groupInfo' = groupInfo
          \/ \E b \in Brokers : \E kept \in SUBSET Groups : ListGroups(b, kept)
  BY DEF Filling, ReadTopics, ListGroups, StartOffsets, EndOffsets, EndOffsetsAgain,
         FetchOffsets
<1> QED BY <1>2, <1>3, <1>4, <1>5, <1>6, <1>7, StepKind

HasCommitted == [x \in Groups \X Topics |-> x[2] \in commits[x[1]]]
HoldsCommit == [x \in Groups \X Topics |-> x[2] \in committed[x[1]]]

\* A fetch holds commits the group has, or hides some of them.
LEMMA CommitsStep ==
    ASSUME Typed, TakenOnce, [Next]_vars
    PROVE  [Commits!Next]_(Commits!vars)
<1> USE DEF Commits!Next, Commits!vars
<1>1. ASSUME Advancing, UNCHANGED <<cluster, expired, committed>>
      PROVE  [Commits!Next]_(Commits!vars)
  BY <1>1 DEF Advancing, Advances, cluster, Commits!Begin, Commits!End
<1>2. CASE Moving
  BY <1>1, <1>2 DEF Moving, Sampled
<1>3. CASE Expiring
  BY <1>3 DEF Expiring, StatusOf, cluster, Sampled, Commits!Expire
<1>4. CASE Changing
  BY <1>4 DEF Changing, StatusOf, Sampled, Commits!Change
<1>5. ASSUME Reading, NEW g \in Groups, NEW hidden \in SUBSET Topics,
             FetchOffsets(g, hidden)
      PROVE  [Commits!Next]_(Commits!vars)
  <2>1. /\ committed' = [committed EXCEPT ![g] = commits[g] \ hidden]
        /\ committed \in [Groups -> SUBSET Topics] /\ committed[g] = {}
    BY <1>5 DEF FetchOffsets, Answer, TakenOnce, Typed, TypeOK
  <2>2. \A x \in Groups \X Topics :
            x[2] \in committed'[x[1]] /\ x[2] \notin committed[x[1]] =>
                x[2] \in commits[x[1]]
    BY <2>1
  <2>3. \A x \in Groups \X Topics :
            x[2] \in committed[x[1]] => x[2] \in committed'[x[1]]
    BY <2>1
  <2>4. \A x \in Groups \X Topics : HoldsCommit'[x] # HoldsCommit[x] =>
            HoldsCommit[x] = FALSE /\ HoldsCommit'[x] = HasCommitted[x]
    <3> SUFFICES ASSUME NEW x \in Groups \X Topics, HoldsCommit'[x] # HoldsCommit[x]
                 PROVE  HoldsCommit[x] = FALSE /\ HoldsCommit'[x] = HasCommitted[x]
        OBVIOUS
    <3>1. /\ HoldsCommit'[x] \in BOOLEAN /\ HoldsCommit[x] \in BOOLEAN
          /\ HasCommitted[x] \in BOOLEAN
          /\ HoldsCommit'[x] <=> x[2] \in committed'[x[1]]
          /\ HoldsCommit[x] <=> x[2] \in committed[x[1]]
          /\ HasCommitted[x] <=> x[2] \in commits[x[1]]
      <4>1. HoldsCommit'[x] = (x[2] \in committed'[x[1]])
        BY Zenon DEF HoldsCommit
      <4>2. HoldsCommit[x] = (x[2] \in committed[x[1]])
        BY Zenon DEF HoldsCommit
      <4>3. HasCommitted[x] = (x[2] \in commits[x[1]])
        BY Zenon DEF HasCommitted
      <4>4. /\ HoldsCommit' \in [Groups \X Topics -> BOOLEAN]
            /\ HoldsCommit \in [Groups \X Topics -> BOOLEAN]
            /\ HasCommitted \in [Groups \X Topics -> BOOLEAN]
        BY DEF HoldsCommit, HasCommitted
      <4>5. HoldsCommit'[x] <=> x[2] \in committed'[x[1]]
        BY <4>1, Zenon
      <4>6. HoldsCommit[x] <=> x[2] \in committed[x[1]]
        BY <4>2, Zenon
      <4>7. HasCommitted[x] <=> x[2] \in commits[x[1]]
        BY <4>3, Zenon
      <4> QED BY <4>4, <4>5, <4>6, <4>7
    <3>2. HoldsCommit'[x] /\ ~HoldsCommit[x]
      BY <2>3, <3>1
    <3>3. HasCommitted[x]
      BY <2>2, <3>1, <3>2
    <3> QED BY <3>1, <3>2, <3>3
  <2>5. HoldsCommit' = [x \in Groups \X Topics |-> HoldsCommit'[x]]
    BY DEF HoldsCommit
  <2>6. /\ StatusOf(UntilCommits, "committed") = "reading"
        /\ StatusOf(UntilCommits, "committed")' = "reading"
    BY <1>5 DEF FetchOffsets, Answer, StatusOf, UntilTopics, UntilStarts, UntilEnds,
                UntilStates, UntilCommits
  <2>7. Commits!Take
    BY <1>5, <2>4, <2>5, <2>6 DEF Reading, cluster, Commits!Take, HoldsCommit, HasCommitted
  <2> QED BY <2>7
<1>6. CASE Reading /\ committed' = committed
  BY <1>1, <1>6 DEF Reading
<1>7. Filling =>
          \/ committed' = committed
          \/ \E g \in Groups : \E hidden \in SUBSET Topics : FetchOffsets(g, hidden)
  BY DEF Filling, ReadTopics, ListGroups, StartOffsets, EndOffsets, EndOffsetsAgain,
         FetchOffsets
<1> QED BY <1>2, <1>3, <1>4, <1>5, <1>6, <1>7, StepKind

\* Each state in a snapshot is one its group had while the brokers were asked for
\* their groups, and a commit it counts was there when the group was asked for
\* its offsets (collect.go:102-114, reads.go:213-248).
THEOREM GroupReadsHold == Spec => GroupReads
<1>1. Init => States!Init
  BY DEF Init, StatusOf, UntilTopics, UntilStarts, UntilEnds, UntilStates, States!Init,
         States!Untouched
<1>2. Init => Commits!Init
  <2> SUFFICES ASSUME Init PROVE Commits!Init
      OBVIOUS
  <2>1. \A x \in Groups \X Topics : (x[2] \in committed[x[1]]) = FALSE
    BY DEF Init
  <2>2. HoldsCommit = [x \in Groups \X Topics |-> FALSE]
    BY <2>1, Zenon DEF HoldsCommit
  <2>3. StatusOf(UntilCommits, "committed") = "waiting"
    BY DEF Init, StatusOf, UntilTopics, UntilStarts, UntilEnds, UntilStates, UntilCommits
  <2> QED BY <2>2, <2>3 DEF HoldsCommit, Commits!Init, Commits!Untouched
<1>3. Spec => []Typed
  BY TypedInit, TypedStep, PTL DEF Spec
<1>4. Typed /\ TakenOnce /\ [Next]_vars => [States!Next]_(States!vars)
  BY StatesStep
<1>5. Typed /\ TakenOnce /\ [Next]_vars => [Commits!Next]_(Commits!vars)
  BY CommitsStep
<1> QED BY <1>1, <1>2, <1>3, <1>4, <1>5, TakenInvariant, PTL
        DEF Spec, GroupReads, States!Spec, Commits!Spec
=============================================================================
