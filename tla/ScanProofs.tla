------------------------------ MODULE ScanProofs ------------------------------
(***************************************************************************)
(* Proofs about what a scan reads off the snapshot of a cluster that keeps    *)
(* changing, for any cluster, any options and any faults: the consumers that  *)
(* Collect counts (ConsumersCounted, NoGhostConsumers), the bytes it          *)
(* estimates (EstimateBounded), and the topics R1 and R8 tell to delete       *)
(* (DeadIsIdle, DeadIsUnconsumed, OrphanIsUnowned).                           *)
(***************************************************************************)
EXTENDS Scan, CollectProofs, SumTheorems

-----------------------------------------------------------------------------
(* The groups.                                                               *)

Active == {"Stable", "PreparingRebalance"}

\* Phases in which the group list is there.
AfterGroups == {"committed", "sleep", "end2", "mapping", "done"}

\* What was seen of a group was so at some time.
SeenInv ==
    \A g \in Groups :
        /\ Consuming(g) => g \in consumed
        /\ groupInfo[g] \in Active => g \in consumed
        /\ \A t \in Topics : t \in commits[g] \cup committed[g] => <<g, t>> \in tracked

\* The broker that coordinates the group has been asked for its groups.
Asked(g) == \/ phase = "groups" /\ coordinator[g] \notin todo
            \/ phase \in AfterGroups

\* The group's offsets have been fetched.
Fetched(g) == phase \in AfterGroups /\ ~(phase = "committed" /\ g \in todo)

\* A group that consumed all the time is only seen doing so; and it is seen, if
\* its coordinator stayed while the brokers were asked.
SteadyInv ==
    \A x \in steady :
        /\ Consuming(x[1]) /\ x[2] \in commits[x[1]]
        /\ groupInfo[x[1]] \in Active \cup {NoGroup}
        /\ x[1] \in settled =>
               /\ Asked(x[1]) => groupInfo[x[1]] \in Active
               /\ Fetched(x[1]) /\ x \notin lost => x[2] \in committed[x[1]]

\* The rows hold the counts of what was read.
RowInv == phase = "done" => \A t \in DOMAIN snap :
              t \in Topics /\ snap[t].active = activeConsumers(t)

GroupInv == SeenInv /\ SteadyInv /\ RowInv

GroupVars == <<groupInfo, committed, coordinator, state, commits, consumed,
               tracked, steady, settled, lost>>

\* Nothing has been read when build begins.
LEMMA GroupInit == Init => GroupInv
<1> SUFFICES ASSUME Init PROVE GroupInv
    OBVIOUS
<1>1. SeenInv
  <2> SUFFICES ASSUME NEW g \in Groups
               PROVE  /\ Consuming(g) => g \in consumed
                      /\ groupInfo[g] \in Active => g \in consumed
                      /\ \A t \in Topics : t \in commits[g] \cup committed[g]
                             => <<g, t>> \in tracked
      BY DEF SeenInv
  <2>1. groupInfo[g] = NoGroup /\ committed[g] = {}
    BY DEF Init
  <2> QED BY <2>1 DEF Init, NoGroup, Active
<1>2. SteadyInv
  <2>1. \A x \in steady : x[1] \in Groups /\ groupInfo[x[1]] = NoGroup
    BY DEF Init
  <2> QED BY <2>1 DEF Init, SteadyInv, Asked, Fetched, AfterGroups
<1> QED BY <1>1, <1>2 DEF Init, GroupInv, RowInv

\* Steps that look at no group; the deadline and the other reads among them.
LEMMA GroupSame ==
    ASSUME Typed, GroupInv, UNCHANGED GroupVars, phase' # "done",
           phase' \in AfterGroups => phase \in AfterGroups,
           phase' = "groups" => todo' = Brokers,
           \/ phase' = phase /\ todo' = todo
           \/ phase' # "committed" /\ (phase = "committed" => todo = {})
    PROVE  GroupInv'
<1>1. SeenInv'
  BY DEF GroupInv, GroupVars, SeenInv, Consuming
<1>2. SteadyInv'
  <2> SUFFICES ASSUME NEW x \in steady
               PROVE  /\ Consuming(x[1]) /\ x[2] \in commits[x[1]]
                      /\ groupInfo[x[1]] \in Active \cup {NoGroup}
                      /\ x[1] \in settled =>
                             /\ Asked(x[1])' => groupInfo[x[1]] \in Active
                             /\ Fetched(x[1])' /\ x \notin lost => x[2] \in committed[x[1]]
      BY DEF SteadyInv, GroupVars, Consuming
  <2>1. coordinator'[x[1]] \in Brokers
    BY DEF Typed, TypeOK, ClusterTypeOK, GroupVars
  <2>2. (Asked(x[1])' => Asked(x[1])) /\ (Fetched(x[1])' => Fetched(x[1]))
    BY <2>1 DEF Asked, Fetched
  <2> QED BY <2>2 DEF GroupInv, SteadyInv
<1> QED BY <1>1, <1>2 DEF GroupInv, RowInv

\* A broker's answer names every group it coordinates, as it is now.
LEMMA GroupListed ==
    ASSUME Typed, GroupInv, NEW b \in Brokers, NEW kept \in SUBSET Groups,
           ListGroups(b, kept)
    PROVE  GroupInv'
<1>1. /\ phase = "groups" /\ phase' = phase /\ todo' = todo \ {b}
      /\ \A g \in kept : groupInfo[g] # NoGroup
      /\ groupInfo' = [g \in Groups |->
             IF coordinator[g] = b /\ state[g] # NoGroup /\ g \notin kept
             THEN state[g] ELSE groupInfo[g]]
      /\ UNCHANGED <<coordinator, state, commits, committed, consumed, tracked,
                     steady, settled, lost>>
  BY DEF ListGroups, Answer, cluster, history
<1>2. \A g \in Groups : groupInfo'[g] \in {state[g], groupInfo[g]}
  BY <1>1
<1>3. SeenInv'
  BY <1>1, <1>2 DEF GroupInv, SeenInv, Consuming, Active
<1>4. SteadyInv'
  <2> SUFFICES ASSUME NEW x \in steady
               PROVE  /\ Consuming(x[1])' /\ x[2] \in commits'[x[1]]
                      /\ groupInfo'[x[1]] \in Active \cup {NoGroup}
                      /\ x[1] \in settled /\ Asked(x[1])' => groupInfo'[x[1]] \in Active
      BY <1>1 DEF SteadyInv, Fetched, AfterGroups
  <2>1. /\ x[1] \in Groups /\ state[x[1]] \in Active
        /\ groupInfo[x[1]] \in Active \cup {NoGroup}
    BY DEF Typed, TypeOK, GroupInv, SteadyInv, Consuming, Active
  <2>2. groupInfo'[x[1]] \in Active \cup {NoGroup}
    BY <1>2, <2>1
  <2>3. ASSUME x[1] \in settled, Asked(x[1])' PROVE groupInfo'[x[1]] \in Active
    <3>1. coordinator[x[1]] \notin todo \ {b}
      BY <1>1, <2>3 DEF Asked, AfterGroups
    <3>2. CASE coordinator[x[1]] = b
      <4>1. state[x[1]] # NoGroup
        BY <2>1 DEF Active, NoGroup
      <4> QED BY <1>1, <2>1, <3>2, <4>1
    <3>3. CASE coordinator[x[1]] # b
      <4>1. groupInfo[x[1]] \in Active
        BY <1>1, <2>3, <3>1, <3>3 DEF GroupInv, SteadyInv, Asked
      <4> QED BY <1>1, <2>1, <3>3, <4>1
    <3> QED BY <3>2, <3>3
  <2> QED BY <1>1, <2>2, <2>3 DEF GroupInv, SteadyInv, Consuming
<1> QED BY <1>1, <1>3, <1>4 DEF GroupInv, RowInv

\* With every broker's answer in, the groups found are those to fetch.
LEMMA GroupsCollected ==
    ASSUME Typed, GroupInv, Collected, phase = "groups"
    PROVE  GroupInv'
<1>1. /\ todo = {} /\ phase' = "committed"
      /\ todo' = {g \in Groups : groupInfo'[g] # NoGroup}
      /\ UNCHANGED GroupVars
  BY DEF Collected, Proceed, After, Work, GroupVars, reads, cluster, history
<1>2. SeenInv'
  BY <1>1 DEF GroupInv, GroupVars, SeenInv, Consuming
<1>3. ASSUME NEW x \in steady, x[1] \in settled
      PROVE  groupInfo[x[1]] \in Active /\ x[1] \in todo'
  <2>1. x[1] \in Groups
    BY DEF Typed, TypeOK
  <2>2. groupInfo[x[1]] \in Active
    BY <1>1, <1>3 DEF GroupInv, SteadyInv, Asked
  <2> QED BY <1>1, <2>1, <2>2 DEF GroupVars, Active, NoGroup
<1>4. SteadyInv'
  BY <1>1, <1>3 DEF GroupInv, GroupVars, SteadyInv, Consuming, Fetched
<1> QED BY <1>1, <1>2, <1>4 DEF GroupInv, RowInv

\* Every step keeps it; the group list, the fetches and the cluster's own
\* changes are the ones that matter.
LEMMA GroupStep == Typed /\ GroupInv /\ [Next]_vars => GroupInv'
<1> SUFFICES ASSUME Typed, GroupInv, [Next]_vars PROVE GroupInv'
    OBVIOUS
<1>1. CASE \/ ReadBrokers \/ ReadTopics \/ TopicConfigs \/ ctxSleep
           \/ Collected /\ phase # "groups"
  <2>1. /\ UNCHANGED GroupVars /\ phase' = After(phase) /\ todo' = Work(phase')
        /\ phase \in ReadPhases \ {"groups"}
        /\ phase = "committed" => todo = {}
    BY <1>1 DEF ReadBrokers, ReadTopics, TopicConfigs, Collected, ctxSleep, Proceed,
                GroupVars, reads, cluster, history, ReadPhases
  <2>2. /\ phase' \notin {"done", "committed"}
        /\ phase' \in AfterGroups => phase \in AfterGroups
    BY <2>1 DEF After, ReadPhases, AfterGroups
  <2>3. phase' = "groups" => todo' = Brokers
    BY <2>1 DEF Work
  <2> QED BY <2>1, <2>2, <2>3, GroupSame
<1>2. CASE \/ \E b \in Brokers : \E kept \in SUBSET Groups : ListGroups(b, kept)
           \/ Collected /\ phase = "groups"
  BY <1>2, GroupListed, GroupsCollected
<1>3. ASSUME NEW g \in Groups, NEW hidden \in SUBSET Topics, FetchOffsets(g, hidden)
      PROVE  GroupInv'
  <2>1. /\ phase = "committed" /\ phase' = phase /\ g \in todo /\ todo' = todo \ {g}
        /\ committed' = [committed EXCEPT ![g] = commits[g] \ hidden]
        /\ lost' = lost \cup ({g} \X hidden)
        /\ UNCHANGED <<groupInfo, coordinator, state, commits, consumed, tracked,
                       steady, settled>>
    BY <1>3 DEF FetchOffsets, Answer, cluster
  <2>2. committed \in [Groups -> SUBSET Topics] /\ steady \subseteq Groups \X Topics
    BY DEF Typed, TypeOK
  <2>3. SeenInv'
    BY <2>1, <2>2 DEF GroupInv, SeenInv, Consuming
  <2>4. SteadyInv'
    <3> SUFFICES ASSUME NEW x \in steady
                 PROVE  /\ Consuming(x[1]) /\ x[2] \in commits[x[1]]
                        /\ groupInfo[x[1]] \in Active \cup {NoGroup}
                        /\ x[1] \in settled =>
                               /\ groupInfo[x[1]] \in Active
                               /\ x \notin lost' /\ x[1] \notin todo'
                                      => x[2] \in committed'[x[1]]
        BY <2>1 DEF SteadyInv, Consuming, Fetched
    <3>1. /\ Consuming(x[1]) /\ x[2] \in commits[x[1]]
          /\ groupInfo[x[1]] \in Active \cup {NoGroup}
          /\ x[1] \in settled =>
                 /\ groupInfo[x[1]] \in Active
                 /\ x \notin lost /\ x[1] \notin todo => x[2] \in committed[x[1]]
      BY <2>1 DEF GroupInv, SteadyInv, Asked, Fetched, AfterGroups
    <3>2. x[1] \in Groups /\ x = <<x[1], x[2]>>
      BY <2>2
    <3>3. CASE x[1] = g
      BY <2>1, <2>2, <3>1, <3>2, <3>3
    <3>4. CASE x[1] # g
      BY <2>1, <2>2, <3>1, <3>2, <3>4
    <3> QED BY <3>3, <3>4
  <2> QED BY <2>1, <2>3, <2>4 DEF GroupInv, RowInv
<1>4. ASSUME NEW g \in Groups, FetchOffsetsError(g)
      PROVE  GroupInv'
  <2>1. /\ phase = "committed" /\ phase' = phase /\ todo' = todo \ {g}
        /\ lost' = lost \cup ({g} \X Topics)
        /\ UNCHANGED <<groupInfo, committed, coordinator, state, commits, consumed,
                       tracked, steady, settled>>
    BY <1>4 DEF FetchOffsetsError, reads, cluster
  <2>2. SeenInv'
    BY <2>1 DEF GroupInv, SeenInv, Consuming
  <2>3. SteadyInv'
    <3>1. \A x \in steady : x[1] = g => x \in lost'
      BY <2>1 DEF Typed, TypeOK
    <3> QED BY <2>1, <3>1 DEF GroupInv, SteadyInv, Consuming, Asked, Fetched, AfterGroups
  <2> QED BY <2>1, <2>2, <2>3 DEF GroupInv, RowInv
<1>5. CASE \/ \E b \in Brokers : \E unseen \in SUBSET DescribedLogDirs(b) : LogDirSizes(b, unseen)
           \/ \E tp \in TP : StartOffsets(tp) \/ EndOffsets(tp) \/ EndOffsetsAgain(tp)
  <2>1. /\ UNCHANGED GroupVars /\ phase' = phase /\ phase \notin {"done", "committed", "groups"}
    BY <1>5 DEF LogDirSizes, StartOffsets, EndOffsets, EndOffsetsAgain, Answer,
                GroupVars, reads, cluster, history
  <2> QED BY <2>1, GroupSame
<1>6. CASE TopicConfigsError \/ RequestError \/ CtxError
  <2>1. /\ UNCHANGED GroupVars /\ phase' = "failed" /\ phase # "committed"
    BY <1>6 DEF TopicConfigsError, RequestError, CtxError, Fail, GroupVars, reads,
                cluster, history
  <2> QED BY <2>1, GroupSame DEF AfterGroups
<1>7. CASE Finish
  <2>1. /\ phase = "mapping" /\ phase' = "done"
        /\ UNCHANGED GroupVars
    BY <1>7 DEF Finish, GroupVars, reads, cluster, history
  <2>2. PICK first \in [topicNames -> Partitions] :
            snap' = [t \in topicNames |-> Row(t, first[t])]
    BY <1>7 DEF Finish
  <2>3. \A t \in DOMAIN snap' : t \in Topics /\ snap'[t].active = activeConsumers(t)
    BY <2>2 DEF Row, topicNames
  <2>4. \A t : activeConsumers(t)' = activeConsumers(t)
    BY <2>1 DEF activeConsumers, GroupVars
  <2>5. SeenInv'
    BY <2>1 DEF GroupInv, GroupVars, SeenInv, Consuming
  <2>6. SteadyInv'
    BY <2>1 DEF GroupInv, GroupVars, SteadyInv, Consuming, Asked, Fetched, AfterGroups
  <2> QED BY <2>3, <2>4, <2>5, <2>6 DEF GroupInv, RowInv
<1>8. CASE Change
  <2>1. /\ phase' = phase /\ phase \in ReadPhases /\ todo' = todo
        /\ UNCHANGED <<groupInfo, committed, lost>> /\ Observe
        /\ ClusterTypeOK'
    BY <1>8, ClusterStep DEF Change, build, reads, Observe, Typed, TypeOK
  <2>2. SeenInv'
    <3> SUFFICES ASSUME NEW g \in Groups
                 PROVE  /\ Consuming(g)' => g \in consumed'
                        /\ groupInfo'[g] \in Active => g \in consumed'
                        /\ \A t \in Topics : t \in commits'[g] \cup committed'[g]
                               => <<g, t>> \in tracked'
        BY DEF SeenInv
    <3>1. Consuming(g)' => g \in consumed'
      BY <2>1 DEF Observe
    <3>2. consumed \subseteq consumed' /\ tracked \subseteq tracked'
      BY <2>1 DEF Observe
    <3>3. \A t \in Topics : t \in commits'[g] => <<g, t>> \in tracked'
      BY <2>1 DEF Observe
    <3> QED BY <2>1, <3>1, <3>2, <3>3 DEF GroupInv, SeenInv
  <2>3. SteadyInv'
    <3>1. \A x \in steady' : /\ x \in steady
                             /\ Consuming(x[1])' /\ x[2] \in commits'[x[1]]
      BY <2>1 DEF Observe
    <3>2. \A g \in settled' : g \in settled /\ (Asked(g)' => Asked(g))
      BY <2>1 DEF Observe, Asked
    <3>3. \A g : Fetched(g)' = Fetched(g)
      BY <2>1 DEF Fetched
    <3> QED BY <2>1, <3>1, <3>2, <3>3 DEF GroupInv, SteadyInv
  <2> QED BY <2>1, <2>2, <2>3 DEF GroupInv, RowInv, ReadPhases
<1>9. CASE Deadline \/ UNCHANGED vars
  <2>1. UNCHANGED <<phase, todo, snap>> /\ UNCHANGED GroupVars
    BY <1>9 DEF Deadline, vars, build, reads, cluster, history, GroupVars
  <2>2. SeenInv'
    BY <2>1 DEF GroupInv, GroupVars, SeenInv, Consuming
  <2>5. SteadyInv'
    BY <2>1 DEF GroupInv, GroupVars, SteadyInv, Consuming, Asked, Fetched
  <2>3. \A t : activeConsumers(t)' = activeConsumers(t)
    BY <2>1 DEF activeConsumers, GroupVars
  <2> QED BY <2>1, <2>2, <2>3, <2>5 DEF GroupInv, RowInv
<1>10. CASE Step
  BY <1>1, <1>2, <1>3, <1>4, <1>5, <1>6, <1>7, <1>10 DEF Step
<1> QED BY <1>8, <1>9, <1>10 DEF Next, Finished

\* It holds all through every collection.
LEMMA GroupInvariant == Spec => [](Typed /\ GroupInv)
<1>1. Init => Typed /\ GroupInv
  BY TypedInit, GroupInit
<1>2. (Typed /\ GroupInv) /\ [Next]_vars => (Typed /\ GroupInv)'
  BY TypedStep, GroupStep
<1> QED BY <1>1, <1>2, PTL DEF Spec

\* The groups that activeConsumers counts.
Counted(t) == {g \in Groups : /\ groupInfo[g] # NoGroup
                              /\ ~isInactiveState(groupInfo[g])
                              /\ t \in committed[g]}

\* A state that is not inactive is one of a consuming group.
LEMMA CountedActive ==
    ASSUME Typed, NEW g \in Groups
    PROVE  groupInfo[g] # NoGroup /\ ~isInactiveState(groupInfo[g])
               <=> groupInfo[g] \in Active
<1>1. groupInfo[g] \in GroupStates \cup {NoGroup}
  BY DEF Typed, TypeOK
<1> QED BY <1>1 DEF isInactiveState, Active, GroupStates, NoGroup

\* So is a settled group that consumed the topic all the time.
LEMMA SteadyCounted ==
    ASSUME Typed, GroupInv, phase = "done", NEW t,
           NEW g \in settled, <<g, t>> \in steady \ lost
    PROVE  g \in Counted(t)
<1>1. g \in Groups
  BY DEF Typed, TypeOK
<1>2. groupInfo[g] \in Active /\ t \in committed[g]
  BY DEF GroupInv, SteadyInv, Asked, Fetched, AfterGroups
<1> QED BY <1>1, <1>2, CountedActive DEF Counted

\* No snapshot counts a group on a topic that never consumed, or never committed
\* on it, during the collection (collect.go:279-300).
THEOREM NoGhostIsCounted == Spec => []NoGhostConsumers
<1>1. ASSUME Typed, GroupInv, phase = "done", NEW t \in DOMAIN snap
      PROVE  snap[t].active <= Cardinality({g \in consumed : <<g, t>> \in tracked})
  <2>1. t \in Topics /\ snap[t].active = Cardinality(Counted(t))
    BY <1>1 DEF GroupInv, RowInv, activeConsumers, Counted
  <2>2. Counted(t) \subseteq {g \in consumed : <<g, t>> \in tracked}
    BY <1>1, <2>1, CountedActive DEF GroupInv, SeenInv, Counted
  <2>3. IsFiniteSet({g \in consumed : <<g, t>> \in tracked})
    BY <1>1, ClusterAssumption, FS_Subset DEF Typed, TypeOK
  <2>4. Cardinality(Counted(t)) <= Cardinality({g \in consumed : <<g, t>> \in tracked})
    BY <2>2, <2>3, FS_Subset
  <2> QED BY <2>1, <2>4
<1>2. Typed /\ GroupInv => NoGhostConsumers
  BY <1>1 DEF NoGhostConsumers
<1> QED BY <1>2, GroupInvariant, PTL

\* Every group that consumed a topic all through the collection is counted on
\* it, unless an error hid its offsets or its coordinator moved while the groups
\* were listed (collect.go:279-290, reads.go:214).
THEOREM SteadyIsCounted == Spec => []ConsumersCounted
<1>1. ASSUME Typed, GroupInv, phase = "done", NEW t \in DOMAIN snap
      PROVE  snap[t].active >= Cardinality({g \in settled : <<g, t>> \in steady \ lost})
  <2>1. t \in Topics /\ snap[t].active = Cardinality(Counted(t))
    BY <1>1 DEF GroupInv, RowInv, activeConsumers, Counted
  <2>2. {g \in settled : <<g, t>> \in steady \ lost} \subseteq Counted(t)
    BY <1>1, SteadyCounted
  <2>3. IsFiniteSet(Counted(t))
    BY ClusterAssumption, FS_Subset DEF Counted
  <2>4. Cardinality({g \in settled : <<g, t>> \in steady \ lost}) <= Cardinality(Counted(t))
    BY <2>2, <2>3, FS_Subset
  <2>5. /\ Cardinality(Counted(t)) \in Nat
        /\ Cardinality({g \in settled : <<g, t>> \in steady \ lost}) \in Nat
    BY <2>2, <2>3, FS_Subset, FS_CardinalityType
  <2> QED BY <2>1, <2>4, <2>5
<1>2. Typed /\ GroupInv => ConsumersCounted
  BY <1>1 DEF ConsumersCounted
<1> QED BY <1>2, GroupInvariant, PTL

\* R1 reports no topic dead that a group consumed all through the collection,
\* unless an error hid its offsets or its coordinator moved while the groups
\* were listed (r1_dead_topic.go:34 on collect.go:279-300, reads.go:214, 233).
THEOREM DeadTopicsAreUnconsumed == Spec => []DeadIsUnconsumed
<1>1. ASSUME Typed, GroupInv, phase = "done", NEW t \in deadTopics,
             NEW g \in settled, <<g, t>> \in steady \ lost
      PROVE  FALSE
  <2>1. t \in DOMAIN snap /\ snap[t].active = 0
    BY DEF deadTopics, looksDead
  <2>2. Cardinality(Counted(t)) = 0
    BY <1>1, <2>1 DEF GroupInv, RowInv, activeConsumers, Counted
  <2>3. IsFiniteSet(Counted(t))
    BY ClusterAssumption, FS_Subset DEF Counted
  <2> QED BY <1>1, <2>2, <2>3, SteadyCounted, FS_EmptySet
<1>2. Typed /\ GroupInv => DeadIsUnconsumed
  BY <1>1 DEF DeadIsUnconsumed
<1> QED BY <1>2, GroupInvariant, PTL

-----------------------------------------------------------------------------
(***************************************************************************)
(* The inductive invariant behind EstimateBounded and DeadIsIdle: how the     *)
(* layout, the replica sizes and the offsets that were read relate to the     *)
(* logs as they are now, for the topics that stayed quiet.                    *)
(***************************************************************************)
AfterTopics == {"configs", "logdirs", "start", "end", "groups", "committed",
                "sleep", "end2", "mapping", "done"}
BeforeDirs == {"brokers", "topics", "configs"}

\* A quiet topic was listed with the partitions it has; every broker that holds
\* a partition now has held it.
LayoutKept ==
    /\ quiet \subseteq stable
    /\ \A tp \in TP : replicas[tp] \subseteq held[tp]
    /\ phase \in AfterTopics =>
           \A tp \in TP : tp[1] \in quiet =>
               (listed[tp] = {} <=> dropInternal(tp[1]) \/ replicas[tp] = {})

\* A broker answers once, with at most one size for a partition.
DirsOnce ==
    /\ phase \in BeforeDirs => logDirs = {}
    /\ phase = "logdirs" => \A d \in logDirs : d.broker \notin todo
    /\ \A d, e \in logDirs : d.tp = e.tp /\ d.broker = e.broker => d = e

\* A size is one of a replica, of then or of now, and at most what the log holds
\* now and what it held when its end was probed.
DirsFit ==
    \A d \in logDirs : d.tp[1] \in quiet =>
        /\ d.broker \in held[d.tp] /\ replicas[d.tp] # {}
        /\ d.size + start[d.tp] <= end[d.tp]
        /\ endOff[d.tp] # Absent => d.size + start[d.tp] <= endOff[d.tp]

QuietProbes ==
    \A tp \in TP : tp[1] \in quiet =>
        /\ startOff[tp] \in {Absent, start[tp]}
        /\ endOff[tp] # Absent => replicas[tp] # {}

BytesInv == LayoutKept /\ DirsOnce /\ DirsFit /\ QuietProbes

BytesVars == <<opts, quiet, stable, held, listed, replicas, start, end, logDirs,
               startOff, endOff>>

LEMMA BytesInit == Init => BytesInv
<1> SUFFICES ASSUME Init PROVE BytesInv
    OBVIOUS
<1>1. /\ \A tp \in TP : startOff[tp] = Absent /\ endOff[tp] = Absent
      /\ logDirs = {} /\ quiet = Topics /\ stable = Topics /\ phase = "brokers"
      /\ held = replicas
  BY DEF Init
<1> QED BY <1>1 DEF BytesInv, LayoutKept, DirsOnce, DirsFit, QuietProbes, AfterTopics

\* Steps that leave the logs, and what was read of them, alone.
LEMMA BytesSame ==
    ASSUME BytesInv, UNCHANGED BytesVars,
           phase' \in AfterTopics => phase \in AfterTopics,
           phase' \in BeforeDirs => phase \in BeforeDirs,
           phase' = "logdirs" => phase = "configs" \/ (phase = "logdirs" /\ todo' = todo)
    PROVE  BytesInv'
<1>1. LayoutKept'
  BY DEF BytesVars, BytesInv, LayoutKept, dropInternal
<1>2. DirsOnce'
  BY DEF BytesVars, BytesInv, DirsOnce, BeforeDirs
<1>3. DirsFit' /\ QuietProbes'
  BY DEF BytesVars, BytesInv, DirsFit, QuietProbes
<1> QED BY <1>1, <1>2, <1>3 DEF BytesInv

\* A broker's answer: one size for each replica it holds, none for the shadow
\* copies.
LEMMA BytesDirs ==
    ASSUME Typed, ProbeInv, BytesInv, NEW b \in Brokers,
           NEW unseen \in SUBSET DescribedLogDirs(b), LogDirSizes(b, unseen)
    PROVE  BytesInv'
<1>1. /\ phase = "logdirs" /\ phase' = phase /\ b \in todo /\ todo' = todo \ {b}
      /\ UNCHANGED <<opts, quiet, stable, held, listed, replicas, start, end, startOff,
                     endOff>>
  BY DEF LogDirSizes, Answer, cluster, history
<1> DEFINE New == {d \in DescribedLogDirs(b) \ unseen : KeepSize(d)}
<1>2. logDirs' = logDirs \cup New
  BY DEF LogDirSizes
<1>3. \A tp \in TP : endOff[tp] = Absent
  BY <1>1 DEF ProbeInv, ProbedOnce, BeforeEnd
<1>4. ASSUME NEW d \in New
      PROVE  /\ d.tp \in TP /\ d.broker = b /\ b \in replicas[d.tp]
             /\ d = [tp |-> d.tp, broker |-> b, isFuture |-> FALSE,
                     size |-> end[d.tp] - start[d.tp]]
  BY DEF DescribedLogDirs, KeepSize
<1>5. \A d \in logDirs : d.broker \notin todo /\ d.tp \in TP
  BY <1>1 DEF BytesInv, DirsOnce, Typed, TypeOK
<1>6. LayoutKept' /\ QuietProbes'
  BY <1>1 DEF BytesInv, LayoutKept, QuietProbes, dropInternal
<1>7. DirsOnce'
  <2>1. \A d \in logDirs' : d.broker \notin todo'
    BY <1>1, <1>2, <1>4, <1>5
  <2>2. ASSUME NEW d \in logDirs', NEW e \in logDirs', d.tp = e.tp, d.broker = e.broker
        PROVE  d = e
    <3>1. CASE d \in logDirs /\ e \in logDirs
      BY <2>2, <3>1 DEF BytesInv, DirsOnce
    <3>2. CASE d \in New /\ e \in New
      BY <2>2, <3>2, <1>4
    <3>3. d.broker = b => d \in New
      BY <1>1, <1>2, <1>5
    <3>4. e.broker = b => e \in New
      BY <1>1, <1>2, <1>5
    <3> QED BY <1>2, <1>4, <2>2, <3>1, <3>2, <3>3, <3>4
  <2> QED BY <1>1, <2>1, <2>2 DEF DirsOnce, BeforeDirs
<1>8. DirsFit'
  <2> SUFFICES ASSUME NEW d \in logDirs', d.tp[1] \in quiet
               PROVE  /\ d.broker \in held[d.tp] /\ replicas[d.tp] # {}
                      /\ d.size + start[d.tp] <= end[d.tp]
                      /\ endOff[d.tp] # Absent => d.size + start[d.tp] <= endOff[d.tp]
      BY <1>1 DEF DirsFit
  <2>1. CASE d \in logDirs
    BY <2>1 DEF BytesInv, DirsFit
  <2>2. CASE d \in New
    <3>1. start[d.tp] \in Nat /\ end[d.tp] \in Nat
      BY <1>4, <2>2 DEF Typed, TypeOK, ClusterTypeOK
    <3>2. d.size = end[d.tp] - start[d.tp]
      BY <1>4, <2>2
    <3>3. d.broker \in held[d.tp] /\ replicas[d.tp] # {}
      BY <1>4, <2>2 DEF BytesInv, LayoutKept
    <3> QED BY <1>3, <1>4, <2>2, <3>1, <3>2, <3>3
  <2> QED BY <1>2, <2>1, <2>2
<1> QED BY <1>6, <1>7, <1>8 DEF BytesInv

\* The first two probes record what the logs are.
LEMMA BytesProbes ==
    ASSUME Typed, ProbeInv, BytesInv, NEW tp \in TP, StartOffsets(tp) \/ EndOffsets(tp)
    PROVE  BytesInv'
<1>1. /\ phase \in {"start", "end"} /\ phase' = phase
      /\ UNCHANGED <<opts, quiet, stable, held, listed, replicas, start, end, logDirs>>
  BY DEF StartOffsets, EndOffsets, Answer, cluster, history
<1>2. LayoutKept' /\ DirsOnce'
  BY <1>1 DEF BytesInv, LayoutKept, DirsOnce, dropInternal, BeforeDirs
<1>3. startOff \in [TP -> Nat \cup {Absent}] /\ endOff \in [TP -> Nat \cup {Absent}]
  BY DEF Typed, TypeOK
<1>4. CASE StartOffsets(tp)
  <2>1. PICK o \in flattenOffsets(start, tp) : startOff' = [startOff EXCEPT ![tp] = o]
    BY <1>4 DEF StartOffsets
  <2>2. o \in {Absent, start[tp]} /\ endOff' = endOff
    BY <1>4 DEF flattenOffsets, StartOffsets
  <2>3. QuietProbes'
    BY <1>1, <1>3, <2>1, <2>2 DEF BytesInv, QuietProbes
  <2> QED BY <1>1, <1>2, <2>2, <2>3 DEF BytesInv, DirsFit
<1>5. CASE EndOffsets(tp)
  <2>1. PICK o \in flattenOffsets(end, tp) : endOff' = [endOff EXCEPT ![tp] = o]
    BY <1>5 DEF EndOffsets
  <2>2. startOff' = startOff /\ (o # Absent => replicas[tp] # {} /\ o = end[tp])
    BY <1>5, AnswerReal DEF EndOffsets
  <2>3. QuietProbes'
    BY <1>1, <1>3, <2>1, <2>2 DEF BytesInv, QuietProbes
  <2>4. DirsFit'
    <3> SUFFICES ASSUME NEW d \in logDirs, d.tp[1] \in quiet
                 PROVE  /\ d.broker \in held[d.tp] /\ replicas[d.tp] # {}
                        /\ d.size + start[d.tp] <= end[d.tp]
                        /\ endOff'[d.tp] # Absent => d.size + start[d.tp] <= endOff'[d.tp]
        BY <1>1 DEF DirsFit
    <3>1. d.tp \in TP
      BY DEF Typed, TypeOK
    <3>2. CASE d.tp = tp
      BY <1>3, <2>1, <2>2, <3>2 DEF BytesInv, DirsFit
    <3>3. CASE d.tp # tp
      BY <1>3, <2>1, <3>1, <3>3 DEF BytesInv, DirsFit
    <3> QED BY <3>2, <3>3
  <2> QED BY <1>2, <2>3, <2>4 DEF BytesInv
<1> QED BY <1>4, <1>5

\* The cluster's own changes: on a topic that stays quiet only ends grow.
LEMMA BytesChange ==
    ASSUME Typed, BytesInv, Change
    PROVE  BytesInv'
<1>1. /\ phase' = phase /\ todo' = todo /\ Observe
      /\ UNCHANGED <<opts, listed, logDirs, startOff, endOff>>
  BY DEF Change, build, reads
<1>2. \A tp \in TP : (replicas[tp] # {} /\ replicas'[tp] # {}) => end[tp] <= end'[tp]
  BY ClusterStep DEF Change, Typed, TypeOK
<1>3. quiet' \subseteq quiet
  BY <1>1 DEF Observe
<1>4. ASSUME NEW tp \in TP, tp[1] \in quiet'
      PROVE  (replicas'[tp] = {} <=> replicas[tp] = {}) /\ start'[tp] = start[tp]
  <2>1. tp = <<tp[1], tp[2]>> /\ tp[2] \in Partitions
    BY DEF TP
  <2> QED BY <1>1, <1>4, <2>1 DEF Observe
<1>5. LayoutKept'
  <2>1. quiet' \subseteq stable'
    <3> SUFFICES ASSUME NEW t \in quiet' PROVE t \in stable'
        OBVIOUS
    <3>1. t \in stable /\ t \in Topics
      BY <1>3 DEF BytesInv, LayoutKept, Typed, TypeOK
    <3>2. \A p \in Partitions : replicas'[<<t, p>>] = {} <=> replicas[<<t, p>>] = {}
      BY <1>1 DEF Observe
    <3> QED BY <1>1, <3>1, <3>2 DEF Observe
  <2>2. ASSUME phase \in AfterTopics, NEW tp \in TP, tp[1] \in quiet'
        PROVE  listed[tp] = {} <=> dropInternal(tp[1]) \/ replicas'[tp] = {}
    BY <1>3, <1>4, <2>2 DEF BytesInv, LayoutKept
  <2>3. \A tp \in TP : replicas'[tp] \subseteq held'[tp]
    BY <1>1 DEF Observe
  <2> QED BY <1>1, <2>1, <2>2, <2>3 DEF LayoutKept, dropInternal
<1>6. DirsOnce'
  BY <1>1 DEF BytesInv, DirsOnce
<1>7. DirsFit'
  <2> SUFFICES ASSUME NEW d \in logDirs, d.tp[1] \in quiet'
               PROVE  /\ d.broker \in held'[d.tp] /\ replicas'[d.tp] # {}
                      /\ d.size + start'[d.tp] <= end'[d.tp]
                      /\ endOff[d.tp] # Absent => d.size + start'[d.tp] <= endOff[d.tp]
      BY <1>1 DEF DirsFit
  <2>1. d.tp \in TP /\ d.size \in Nat
    BY DEF Typed, TypeOK
  <2>2. (replicas'[d.tp] = {} <=> replicas[d.tp] = {}) /\ start'[d.tp] = start[d.tp]
    BY <1>4, <2>1
  <2>3. /\ d.broker \in held[d.tp] /\ replicas[d.tp] # {}
        /\ d.size + start[d.tp] <= end[d.tp]
        /\ endOff[d.tp] # Absent => d.size + start[d.tp] <= endOff[d.tp]
    BY <1>3 DEF BytesInv, DirsFit
  <2>4. end[d.tp] <= end'[d.tp]
    BY <1>2, <2>1, <2>2, <2>3
  <2>5. start[d.tp] \in Nat /\ end[d.tp] \in Nat /\ end'[d.tp] \in Nat
    BY <2>1, ClusterStep DEF Change, Typed, TypeOK, ClusterTypeOK
  <2>6. held[d.tp] \subseteq held'[d.tp]
    BY <1>1, <2>1 DEF Observe
  <2> QED BY <2>1, <2>2, <2>3, <2>4, <2>5, <2>6
<1>8. QuietProbes'
  BY <1>1, <1>3, <1>4 DEF BytesInv, QuietProbes
<1> QED BY <1>5, <1>6, <1>7, <1>8 DEF BytesInv

\* Every step keeps it.
LEMMA BytesStep == Typed /\ ProbeInv /\ BytesInv /\ [Next]_vars => BytesInv'
<1> SUFFICES ASSUME Typed, ProbeInv, BytesInv, [Next]_vars PROVE BytesInv'
    OBVIOUS
<1>1. CASE ReadBrokers \/ TopicConfigs \/ Collected \/ ctxSleep
  <2>1. /\ UNCHANGED BytesVars /\ phase' = After(phase)
        /\ phase \in ReadPhases \ {"topics"}
    BY <1>1 DEF ReadBrokers, TopicConfigs, Collected, ctxSleep, Proceed,
                BytesVars, reads, cluster, history, ReadPhases
  <2>2. /\ phase' \in AfterTopics => phase \in AfterTopics
        /\ phase' \in BeforeDirs => phase \in BeforeDirs
        /\ phase' = "logdirs" => phase = "configs"
    BY <2>1 DEF After, ReadPhases, AfterTopics, BeforeDirs
  <2> QED BY <2>1, <2>2, BytesSame
<1>2. CASE ReadTopics
  <2>1. /\ phase = "topics" /\ phase' = "configs"
        /\ listed' = [tp \in TP |-> IF dropInternal(tp[1]) THEN {} ELSE replicas[tp]]
        /\ UNCHANGED <<opts, quiet, stable, held, replicas, start, end, logDirs, startOff,
                       endOff>>
    BY <1>2 DEF ReadTopics, Proceed, After, cluster, history
  <2>2. LayoutKept'
    BY <2>1 DEF BytesInv, LayoutKept, dropInternal
  <2>3. DirsOnce' /\ DirsFit' /\ QuietProbes'
    BY <2>1 DEF BytesInv, DirsOnce, DirsFit, QuietProbes, BeforeDirs
  <2> QED BY <2>2, <2>3 DEF BytesInv
<1>3. CASE \E b \in Brokers : \E unseen \in SUBSET DescribedLogDirs(b) : LogDirSizes(b, unseen)
  BY <1>3, BytesDirs
<1>4. CASE \E tp \in TP : StartOffsets(tp) \/ EndOffsets(tp)
  BY <1>4, BytesProbes
<1>5. CASE \/ \E b \in Brokers : \E kept \in SUBSET Groups : ListGroups(b, kept)
           \/ \E tp \in TP : EndOffsetsAgain(tp)
           \/ \E g \in Groups : \/ \E hidden \in SUBSET Topics : FetchOffsets(g, hidden)
                                \/ FetchOffsetsError(g)
           \/ Deadline \/ UNCHANGED vars
  <2>1. /\ UNCHANGED BytesVars /\ phase' = phase
        /\ phase = "logdirs" => todo' = todo
    BY <1>5 DEF ListGroups, EndOffsetsAgain, FetchOffsets, FetchOffsetsError, Deadline, Answer, BytesVars,
                vars, build, reads, cluster, history
  <2> QED BY <2>1, BytesSame
<1>6. CASE TopicConfigsError \/ RequestError \/ CtxError \/ Finish
  <2>1. /\ UNCHANGED BytesVars
        /\ phase' = "failed" \/ (phase = "mapping" /\ phase' = "done")
    BY <1>6 DEF TopicConfigsError, RequestError, CtxError, Fail, Finish, BytesVars, reads,
                cluster, history
  <2>2. phase' \notin BeforeDirs \cup {"logdirs"} /\ (phase' \in AfterTopics => phase \in AfterTopics)
    BY <2>1 DEF BeforeDirs, AfterTopics
  <2> QED BY <2>1, <2>2, BytesSame
<1>7. CASE Change
  BY <1>7, BytesChange
<1>8. CASE Step
  BY <1>1, <1>2, <1>3, <1>4, <1>5, <1>6, <1>8 DEF Step
<1> QED BY <1>5, <1>7, <1>8 DEF Next, Finished

\* It holds all through every collection.
LEMMA BytesInvariant == Spec => [](Typed /\ ProbeInv /\ BytesInv)
<1>1. Init => Typed /\ ProbeInv /\ BytesInv
  BY TypedInit, ProbeInit, BytesInit
<1>2. (Typed /\ ProbeInv /\ BytesInv) /\ [Next]_vars => (Typed /\ ProbeInv /\ BytesInv)'
  BY TypedStep, ProbeStep, BytesStep
<1> QED BY <1>1, <1>2, PTL DEF Spec

-----------------------------------------------------------------------------
(* The rows of the snapshot, and the estimate in them.                       *)

\* The rows hold the sums of what was read.
RowBytes ==
    phase = "done" => \A t \in DOMAIN snap :
        /\ t \in topicNames
        /\ snap[t].retained = sumReplicaBytes(t)
        /\ snap[t].bytesIn = IF opts.window THEN estimateBytesIn(t)
                             ELSE [num |-> 0, den |-> 1]

LEMMA RowBytesStep == RowBytes /\ [Next]_vars => RowBytes'
<1> SUFFICES ASSUME RowBytes, [Next]_vars, phase' = "done" PROVE RowBytes'
    BY DEF RowBytes
<1>1. CASE Finish
  <2>1. UNCHANGED <<opts, reads>>
    BY <1>1 DEF Finish
  <2>2. PICK first \in [topicNames -> Partitions] :
            snap' = [t \in topicNames |-> Row(t, first[t])]
    BY <1>1 DEF Finish
  <2>3. DOMAIN snap' = topicNames /\ \A t \in topicNames : snap'[t] = Row(t, first[t])
    BY <2>2
  <2>4. \A t \in topicNames :
            /\ snap'[t].retained = sumReplicaBytes(t)
            /\ snap'[t].bytesIn = IF opts.window THEN estimateBytesIn(t)
                                  ELSE [num |-> 0, den |-> 1]
    BY <2>3 DEF Row
  <2>5. /\ topicNames' = topicNames
        /\ \A t : /\ sumReplicaBytes(t)' = sumReplicaBytes(t)
                  /\ estimateBytesIn(t)' = estimateBytesIn(t)
    BY <2>1 DEF reads, topicNames, sumReplicaBytes, estimateBytesIn, totalRecords,
                deltaRecords, probed
  <2> QED BY <2>1, <2>3, <2>4, <2>5 DEF RowBytes
<1>2. CASE UNCHANGED vars
  <2>1. UNCHANGED <<opts, reads, snap, phase>>
    BY <1>2 DEF vars, build
  <2>2. /\ topicNames' = topicNames
        /\ \A t : /\ sumReplicaBytes(t)' = sumReplicaBytes(t)
                  /\ estimateBytesIn(t)' = estimateBytesIn(t)
    BY <2>1 DEF reads, topicNames, sumReplicaBytes, estimateBytesIn, totalRecords,
                deltaRecords, probed
  <2> QED BY <2>1, <2>2 DEF RowBytes
<1>3. ~(ReadBrokers \/ ReadTopics \/ TopicConfigs \/ Collected \/ ctxSleep)
  BY DEF ReadBrokers, ReadTopics, TopicConfigs, Collected, ctxSleep, Proceed, After
<1>4. ~(TopicConfigsError \/ RequestError \/ CtxError)
  BY DEF TopicConfigsError, RequestError, CtxError, Fail
<1>5. ~(Deadline \/ Change)
  BY DEF Deadline, Change, build, ReadPhases
<1>6. /\ \A b, unseen : ~LogDirSizes(b, unseen)
      /\ \A b, kept : ~ListGroups(b, kept)
      /\ \A tp : ~(StartOffsets(tp) \/ EndOffsets(tp) \/ EndOffsetsAgain(tp))
      /\ \A g, hidden : ~FetchOffsets(g, hidden)
      /\ \A g : ~FetchOffsetsError(g)
  BY DEF LogDirSizes, ListGroups, StartOffsets, EndOffsets, EndOffsetsAgain, FetchOffsets,
         FetchOffsetsError, Answer
<1>7. Finish \/ UNCHANGED vars
  BY <1>3, <1>4, <1>5, <1>6 DEF Next, Step, Finished
<1> QED BY <1>1, <1>2, <1>7

EstimateInv == Typed /\ ProbeInv /\ BytesInv /\ RowBytes

LEMMA EstimateInvariant == Spec => []EstimateInv
<1>1. Init => RowBytes
  BY DEF Init, RowBytes
<1>2. RowBytes /\ [Next]_vars => RowBytes'
  BY RowBytesStep
<1>3. Spec => []RowBytes
  BY <1>1, <1>2, PTL DEF Spec
<1> QED BY <1>3, BytesInvariant, PTL DEF EstimateInv

\* The parts of the estimate: the records each partition holds between its
\* offsets, and the records it gained between the probes.
Records(t) ==
    [p \in probed(t) |-> Max({0, endOff[<<t, p>>] - Max({0, startOff[<<t, p>>]})})]
Deltas(t) == [p \in probed(t) |-> Max({0, endOff2[<<t, p>>] - endOff[<<t, p>>]})]
Gained(t) == [p \in Partitions |-> appended[<<t, p>>]]

LEMMA EstimateParts ==
    ASSUME NEW t
    PROVE  /\ totalRecords(t) = SumFunction(Records(t))
           /\ deltaRecords(t) = SumFunction(Deltas(t))
           /\ Ingress(t) = SumFunction(Gained(t))
  BY DEF totalRecords, deltaRecords, Ingress, Records, Deltas, Gained

LEMMA PartsTyped ==
    ASSUME Typed, NEW t \in Topics
    PROVE  /\ IsFiniteSet(Partitions) /\ IsFiniteSet(probed(t))
           /\ DOMAIN Records(t) = probed(t) /\ DOMAIN Deltas(t) = probed(t)
           /\ DOMAIN Gained(t) = Partitions
           /\ \A p \in probed(t) : Records(t)[p] \in Nat /\ Deltas(t)[p] \in Nat
           /\ \A p \in Partitions : Gained(t)[p] \in Nat
           /\ probed(t) \subseteq Partitions
           /\ SumFunction(Records(t)) \in Nat /\ SumFunction(Deltas(t)) \in Nat
           /\ SumFunction(Gained(t)) \in Nat
<1>1. IsFiniteSet(Partitions) /\ IsFiniteSet(probed(t))
  <2>1. IsFiniteSet(Partitions)
    BY ClusterAssumption, FS_Interval DEF Partitions
  <2> QED BY <2>1, FS_Subset DEF probed
<1>2. ASSUME NEW n \in Int PROVE Max({0, n}) \in Nat
  BY MaxWithZero
<1>3. \A p \in Partitions : <<t, p>> \in TP
  BY DEF TP
<1>4. ASSUME NEW p \in probed(t) PROVE Records(t)[p] \in Nat /\ Deltas(t)[p] \in Nat
  <2>0. <<t, p>> \in TP
    BY <1>3 DEF probed
  <2>1. /\ endOff[<<t, p>>] \in Int /\ endOff2[<<t, p>>] \in Int /\ startOff[<<t, p>>] \in Int
    <3>1. /\ endOff[<<t, p>>] \in Nat \cup {Absent} /\ endOff2[<<t, p>>] \in Nat \cup {Absent}
          /\ startOff[<<t, p>>] \in Nat \cup {Absent}
      BY <2>0 DEF Typed, TypeOK
    <3> QED BY <3>1 DEF Absent
  <2>2. Max({0, startOff[<<t, p>>]}) \in Int
    BY <1>2, <2>1
  <2> QED BY <1>2, <2>1, <2>2 DEF Records, Deltas
<1>5. \A p \in Partitions : Gained(t)[p] \in Nat
  BY <1>3 DEF Gained, Typed, TypeOK
<1>6. /\ DOMAIN Records(t) = probed(t) /\ DOMAIN Deltas(t) = probed(t)
      /\ DOMAIN Gained(t) = Partitions
  BY DEF Records, Deltas, Gained
<1>7. SumFunction(Records(t)) \in Nat
  BY <1>1, <1>4, <1>6, SumNat DEF SumFunction
<1>8. SumFunction(Deltas(t)) \in Nat
  BY <1>1, <1>4, <1>6, SumNat DEF SumFunction
<1>9. SumFunction(Gained(t)) \in Nat
  BY <1>1, <1>5, <1>6, SumNat DEF SumFunction
<1>10. probed(t) \subseteq Partitions
  BY DEF probed
<1> QED BY <1>1, <1>4, <1>5, <1>6, <1>7, <1>8, <1>9, <1>10

\* No partition seems to gain more than was appended to it.
LEMMA DeltaBound ==
    ASSUME Typed, ProbeInv, NEW t \in Topics
    PROVE  SumFunction(Deltas(t)) <= SumFunction(Gained(t))
<1>1. ASSUME NEW p \in probed(t) PROVE Deltas(t)[p] <= Gained(t)[p]
  <2>1. <<t, p>> \in TP /\ p \in Partitions /\ endOff[<<t, p>>] # Absent
    BY DEF probed, TP
  <2>2. /\ endOff[<<t, p>>] \in Nat /\ endOff2[<<t, p>>] \in Nat \cup {-1}
        /\ appended[<<t, p>>] \in Nat
    BY <2>1 DEF Typed, TypeOK, Absent
  <2>3. endOff2[<<t, p>>] - endOff[<<t, p>>] <= appended[<<t, p>>]
    BY <2>1, <2>2 DEF ProbeInv, DeltaSound, Absent
  <2>4. Deltas(t)[p] = Max({0, endOff2[<<t, p>>] - endOff[<<t, p>>]})
    BY DEF Deltas
  <2> QED BY <2>1, <2>2, <2>3, <2>4, MaxWithZero DEF Gained
<1>2. /\ IsFiniteSet(Partitions) /\ IsFiniteSet(probed(t)) /\ probed(t) \in SUBSET Partitions
      /\ \A p \in probed(t) : Deltas(t)[p] \in Int
      /\ \A p \in Partitions : Gained(t)[p] \in Nat
  BY PartsTyped
<1>3. \A p \in probed(t) : Gained(t)[p] \in Int
  BY <1>2
<1>4. SumFunctionOnSet(Deltas(t), probed(t)) <= SumFunctionOnSet(Gained(t), probed(t))
  BY <1>1, <1>2, <1>3, SumLeq
<1>5. SumFunctionOnSet(Gained(t), probed(t)) <= SumFunctionOnSet(Gained(t), Partitions)
  BY <1>2, SumSubset
<1>6. /\ SumFunctionOnSet(Deltas(t), probed(t)) \in Int
      /\ SumFunctionOnSet(Gained(t), probed(t)) \in Int
  BY <1>2, <1>3, SumInt
<1>7. SumFunctionOnSet(Gained(t), Partitions) = SumFunction(Gained(t))
  BY PartsTyped DEF SumFunction
<1>8. SumFunctionOnSet(Deltas(t), probed(t)) = SumFunction(Deltas(t))
  BY PartsTyped DEF SumFunction
<1>9. SumFunction(Gained(t)) \in Int
  BY PartsTyped
<1> QED BY <1>4, <1>5, <1>6, <1>7, <1>8, <1>9

\* A broker answers once for a partition, so the sizes are finitely many.
LEMMA DirsFinite ==
    ASSUME Typed, BytesInv
    PROVE  IsFiniteSet(logDirs)
<1> DEFINE m == [d \in logDirs |-> <<d.tp, d.broker>>]
<1>1. \A d \in logDirs : d.tp \in TP /\ d.broker \in Brokers
  BY DEF Typed, TypeOK
<1>2. IsFiniteSet(TP \X Brokers)
  <2>1. IsFiniteSet(Partitions)
    BY ClusterAssumption, FS_Interval DEF Partitions
  <2>2. IsFiniteSet(TP)
    BY <2>1, ClusterAssumption, FS_Product DEF TP
  <2> QED BY <2>2, ClusterAssumption, FS_Product
<1>3. m \in Injection(logDirs, TP \X Brokers)
  BY <1>1 DEF Injection, IsInjective, BytesInv, DirsOnce
<1> HIDE DEF m
<1> QED BY <1>2, <1>3, FS_Injection

\* No partition was held by more brokers than the most widely held one.
LEMMA FactorBound ==
    ASSUME Typed, NEW t \in Topics
    PROVE  /\ Copies(t) \in Nat
           /\ \A p \in Partitions :
                  /\ IsFiniteSet(held[<<t, p>>])
                  /\ Cardinality(held[<<t, p>>]) \in Nat
                  /\ Cardinality(held[<<t, p>>]) <= Copies(t)
<1> DEFINE c == [p \in Partitions |-> Cardinality(held[<<t, p>>])]
           C == {c[p] : p \in Partitions}
<1>1. ASSUME NEW p \in Partitions
      PROVE  IsFiniteSet(held[<<t, p>>]) /\ Cardinality(held[<<t, p>>]) \in Nat
  <2>1. held[<<t, p>>] \subseteq Brokers
    <3>1. <<t, p>> \in TP
      BY DEF TP
    <3> QED BY <3>1 DEF Typed, TypeOK
  <2> QED BY <2>1, ClusterAssumption, FS_Subset, FS_CardinalityType
<1>2. IsFiniteSet(Partitions)
  BY ClusterAssumption, FS_Interval DEF Partitions
<1>3. IsFiniteSet(C)
  <2>1. c \in Surjection(Partitions, C)
    BY DEF Surjection
  <2> HIDE DEF c, C
  <2> QED BY <1>2, <2>1, FS_Surjection
<1>4. C \in SUBSET Nat /\ C \in SUBSET Int /\ C # {}
  <2>1. 0 \in Partitions
    BY ClusterAssumption DEF Partitions
  <2>2. c[0] \in C
    BY <2>1
  <2>3. \A p \in Partitions : c[p] \in Nat
    BY <1>1
  <2> HIDE DEF c
  <2> QED BY <2>2, <2>3
<1>5. Max(C) \in C /\ \A n \in C : n <= Max(C)
  <2> HIDE DEF C
  <2> QED BY <1>3, <1>4, MaxIsLargest
<1>6. Copies(t) = Max(C)
  <2>1. C = {Cardinality(held[<<t, p>>]) : p \in Partitions}
    OBVIOUS
  <2> QED BY <2>1 DEF Copies
<1>7. \A p \in Partitions : Cardinality(held[<<t, p>>]) \in C
  OBVIOUS
<1> HIDE DEF C
<1> QED BY <1>1, <1>4, <1>5, <1>6, <1>7

\* The replica sizes of one partition add up to at most what it held at the end
\* probe, once per broker that held it.
LEMMA PartitionSizeBound ==
    ASSUME Typed, BytesInv, phase = "done", NEW t \in quiet \cap topicNames,
           NEW p \in listedPartitions(t), endOff[<<t, p>>] # Absent,
           NEW size, \A d \in logDirs : size[d] = d.size
    PROVE  SumFunctionOnSet(size, {d \in logDirs : d.tp = <<t, p>>})
               <= Copies(t) * Records(t)[p]
<1> DEFINE X == {d \in logDirs : d.tp = <<t, p>>}
           w == Records(t)[p]
           const == [d \in X |-> w]
           most == Copies(t)
           R == held[<<t, p>>]
<1>0. /\ t \in Topics /\ p \in Partitions /\ <<t, p>> \in TP /\ p \in probed(t)
      /\ IsFiniteSet(X)
  <2>1. t \in Topics /\ p \in Partitions
    BY DEF topicNames, listedPartitions
  <2>2. IsFiniteSet(X)
    BY DirsFinite, FS_Subset
  <2> QED BY <2>1, <2>2 DEF TP, probed
<1>2. w \in Nat /\ w = Max({0, endOff[<<t, p>>] - Max({0, startOff[<<t, p>>]})})
  BY <1>0, PartsTyped DEF Records
<1>3. ASSUME NEW d \in X PROVE d.size \in Nat /\ d.size <= w
  <2>1. d.size \in Nat /\ d.size + start[<<t, p>>] <= endOff[<<t, p>>]
    <3>1. d \in logDirs /\ d.tp = <<t, p>> /\ d.tp[1] \in quiet
      OBVIOUS
    <3>2. d.size \in Nat
      BY <3>1 DEF Typed, TypeOK
    <3>3. d.size + start[d.tp] <= endOff[d.tp]
      BY <3>1 DEF BytesInv, DirsFit
    <3> QED BY <3>1, <3>2, <3>3
  <2>2. /\ start[<<t, p>>] \in Nat /\ endOff[<<t, p>>] \in Nat
        /\ startOff[<<t, p>>] \in {-1, start[<<t, p>>]}
    <3>1. start[<<t, p>>] \in Nat /\ endOff[<<t, p>>] \in Nat \cup {Absent}
      BY <1>0 DEF Typed, TypeOK, ClusterTypeOK
    <3>2. startOff[<<t, p>>] \in {Absent, start[<<t, p>>]}
      BY <1>0 DEF BytesInv, QuietProbes
    <3> QED BY <3>1, <3>2 DEF Absent
  <2>3. Max({0, startOff[<<t, p>>]}) \in Nat /\ Max({0, startOff[<<t, p>>]}) <= start[<<t, p>>]
    BY <2>2, MaxWithZero
  <2>4. endOff[<<t, p>>] - Max({0, startOff[<<t, p>>]}) \in Int
    BY <2>2, <2>3
  <2>5. w = IF endOff[<<t, p>>] - Max({0, startOff[<<t, p>>]}) > 0
            THEN endOff[<<t, p>>] - Max({0, startOff[<<t, p>>]}) ELSE 0
    BY <1>2, <2>4, MaxWithZero
  <2> HIDE DEF w
  <2> QED BY <2>1, <2>2, <2>3, <2>5
<1>4. SumFunctionOnSet(size, X) <= SumFunctionOnSet(const, X)
  <2>1. \A d \in X : size[d] \in Int /\ const[d] \in Int /\ size[d] <= const[d]
    <3> SUFFICES ASSUME NEW d \in X
                 PROVE  size[d] \in Int /\ const[d] \in Int /\ size[d] <= const[d]
        OBVIOUS
    <3>1. size[d] = d.size /\ const[d] = w
      OBVIOUS
    <3>2. d.size \in Nat /\ d.size <= w
      BY <1>3
    <3> HIDE DEF w, const
    <3> QED BY <1>2, <3>1, <3>2
  <2> HIDE DEF X, const
  <2> QED BY <1>0, <2>1, SumLeq
<1>5. SumFunctionOnSet(const, X) = w * Cardinality(X)
  <2>1. \A d \in X : const[d] = w
    OBVIOUS
  <2>2. w \in Int
    <3> HIDE DEF w
    <3> QED BY <1>2
  <2> HIDE DEF X, const, w
  <2> QED BY <1>0, <2>1, <2>2, SumConstant
<1>6. Cardinality(X) \in Nat /\ Cardinality(X) <= Cardinality(R)
  <2> DEFINE m == [d \in X |-> d.broker]
  <2>1. m \in Injection(X, R)
    <3>1. \A d \in X : d.broker \in R
      BY DEF BytesInv, DirsFit
    <3> QED BY <3>1 DEF Injection, IsInjective, BytesInv, DirsOnce
  <2>2. IsFiniteSet(R)
    BY <1>0, FactorBound
  <2>3. IsFiniteSet(X) /\ Cardinality(X) <= Cardinality(R)
    <3> HIDE DEF m, X, R
    <3> QED BY <2>1, <2>2, FS_Injection
  <2> QED BY <2>3, FS_CardinalityType
<1>7. Cardinality(R) \in Nat /\ Cardinality(R) <= most /\ most \in Nat
  BY <1>0, FactorBound
<1>8. w * Cardinality(X) <= w * most
  <2> HIDE DEF w, X, most, R
  <2>1. Cardinality(X) <= most
    BY <1>6, <1>7
  <2> QED BY <1>2, <1>6, <1>7, <2>1, MulMonotone
<1>9. SumFunctionOnSet(size, X) \in Int
  <2>1. \A d \in X : size[d] \in Int
    BY <1>3
  <2> HIDE DEF X
  <2> QED BY <1>0, <2>1, SumInt
<1> HIDE DEF w, X, most, const
<1>10. SumFunctionOnSet(size, X) <= most * w
  BY <1>2, <1>4, <1>5, <1>6, <1>7, <1>8, <1>9
<1> QED BY <1>10 DEF X, most, w

\* Partition by partition, the sizes add up to what they are all together.
LEMMA SizesByPartition ==
    ASSUME NEW D, IsFiniteSet(D), NEW C, IsFiniteSet(C),
           \A d \in D : d.size \in Int /\ d.tp[2] \in C
    PROVE  LET size == [d \in D |-> d.size]
               h == [p \in C |-> SumFunctionOnSet(size, {d \in D : d.tp[2] = p})]
           IN  SumFunctionOnSet(h, C) = SumFunctionOnSet(size, D)
<1> DEFINE size == [d \in D |-> d.size]
           part == [d \in D |-> d.tp[2]]
           of == [p \in C |-> {d \in D : d.tp[2] = p}]
           h == [p \in C |-> SumFunctionOnSet(size, {d \in D : d.tp[2] = p})]
<1>1. \A d \in D : size[d] \in Int /\ part[d] \in C
  OBVIOUS
<1>2. \A p \in C : h[p] = SumFunctionOnSet(size, of[p])
  OBVIOUS
<1>3. \A p \in C : of[p] = {d \in D : part[d] = p}
  OBVIOUS
<1>4. SumFunctionOnSet(h, C) = SumFunctionOnSet(size, D)
  <2> HIDE DEF size, part, of, h
  <2> QED BY <1>1, <1>2, <1>3, SumByClass
<1> QED BY <1>4

\* All replica sizes of a quiet topic together are at most the records between
\* its offsets, once per broker that held a copy.
LEMMA SizeBound ==
    ASSUME Typed, BytesInv, phase = "done", NEW t \in quiet \cap topicNames,
           Complete(endOff, t)
    PROVE  /\ sumReplicaBytes(t) \in Nat
           /\ sumReplicaBytes(t) <= Copies(t) * SumFunction(Records(t))
<1> DEFINE D == {d \in logDirs : d.tp[1] = t}
           size == [d \in D |-> d.size]
           part == [d \in D |-> d.tp[2]]
           C == listedPartitions(t)
           h == [p \in C |-> SumFunctionOnSet(size, {d \in D : part[d] = p})]
           most == Copies(t)
           rec == Records(t)
           bound == [p \in C |-> most * rec[p]]
<1>0. /\ t \in Topics /\ IsFiniteSet(D) /\ C \in SUBSET probed(t) /\ IsFiniteSet(C)
  <2>1. t \in Topics
    BY DEF topicNames
  <2>2. C \in SUBSET probed(t)
    BY DEF Complete, probed, listedPartitions
  <2>3. IsFiniteSet(D)
    BY DirsFinite, FS_Subset
  <2> QED BY <2>1, <2>2, <2>3, PartsTyped, FS_Subset
<1>1. \A d \in D : size[d] \in Nat
  BY DEF Typed, TypeOK
<1>2. \A d \in D : part[d] \in C
  <2> SUFFICES ASSUME NEW d \in D PROVE d.tp[2] \in C
      OBVIOUS
  <2>1. d.tp = <<t, d.tp[2]>> /\ d.tp[2] \in Partitions /\ d.tp \in TP
    <3>1. d \in logDirs /\ d.tp[1] = t
      OBVIOUS
    <3>2. d.tp \in TP
      BY <3>1 DEF Typed, TypeOK
    <3>3. PICK t1 \in Topics, p1 \in Partitions : d.tp = <<t1, p1>>
      BY <3>2 DEF TP
    <3> QED BY <3>1, <3>2, <3>3
  <2>2. replicas[d.tp] # {}
    BY DEF BytesInv, DirsFit
  <2>3. ~dropInternal(t)
    <3>1. PICK p \in Partitions : listed[<<t, p>>] # {}
      BY DEF topicNames
    <3>2. <<t, p>> \in TP
      BY <1>0 DEF TP
    <3> QED BY <3>1, <3>2 DEF BytesInv, LayoutKept, AfterTopics
  <2>4. listed[d.tp] # {}
    BY <2>1, <2>2, <2>3 DEF BytesInv, LayoutKept, AfterTopics
  <2> QED BY <2>1, <2>4 DEF listedPartitions
<1>3. SumFunctionOnSet(h, C) = SumFunctionOnSet(size, D)
  <2>1. \A d \in D : d.size \in Int /\ d.tp[2] \in C
    <3>1. \A d \in D : d.size = size[d] /\ d.tp[2] = part[d]
      OBVIOUS
    <3> HIDE DEF size, part, D, C
    <3> QED BY <1>1, <1>2, <3>1
  <2>2. IsFiniteSet(D) /\ IsFiniteSet(C)
    BY <1>0
  <2>3. h = [p \in C |-> SumFunctionOnSet(size, {d \in D : d.tp[2] = p})]
    <3>1. \A p \in C : {d \in D : part[d] = p} = {d \in D : d.tp[2] = p}
      OBVIOUS
    <3> QED BY <3>1
  <2> HIDE DEF D, C, h
  <2> QED BY <2>1, <2>2, <2>3, SizesByPartition
<1>4. SumFunctionOnSet(size, D) \in Nat /\ sumReplicaBytes(t) = SumFunctionOnSet(size, D)
  <2>1. SumFunctionOnSet(size, D) \in Nat
    <3> HIDE DEF size, D
    <3> QED BY <1>0, <1>1, SumNat
  <2> QED BY <2>1 DEF sumReplicaBytes, SumFunction
<1>5. ASSUME NEW p \in C PROVE h[p] \in Int /\ h[p] <= most * rec[p]
  <2> DEFINE X == {d \in logDirs : d.tp = <<t, p>>}
             all == [d \in logDirs |-> d.size]
  <2>1. {d \in D : part[d] = p} = X
    <3>1. ASSUME NEW d \in logDirs PROVE d.tp = <<d.tp[1], d.tp[2]>>
      <4>1. d.tp \in TP
        BY DEF Typed, TypeOK
      <4>2. PICK t1 \in Topics, p1 \in Partitions : d.tp = <<t1, p1>>
        BY <4>1 DEF TP
      <4> QED BY <4>2
    <3>2. ASSUME NEW d \in logDirs
          PROVE  (d.tp[1] = t /\ d.tp[2] = p) <=> d.tp = <<t, p>>
      BY <3>1
    <3>3. \A d \in D : part[d] = d.tp[2]
      OBVIOUS
    <3> HIDE DEF part
    <3> QED BY <3>2, <3>3
  <2>2. IsFiniteSet(X) /\ X \subseteq D
    BY DirsFinite, FS_Subset
  <2>3. SumFunctionOnSet(size, X) = SumFunctionOnSet(all, X)
    <3>1. \A d \in X : size[d] = all[d]
      BY <2>2
    <3> HIDE DEF size, all, X
    <3> QED BY <2>2, <3>1, SumSame
  <2>4. SumFunctionOnSet(all, X) <= most * rec[p]
    <3>1. \A d \in logDirs : all[d] = d.size
      OBVIOUS
    <3>2. endOff[<<t, p>>] # Absent
      BY DEF Complete
    <3> HIDE DEF all
    <3> QED BY <3>1, <3>2, PartitionSizeBound
  <2>5. SumFunctionOnSet(size, X) \in Int
    <3>1. \A d \in X : size[d] \in Int
      BY <1>1, <2>2
    <3> HIDE DEF size, X
    <3> QED BY <2>2, <3>1, SumInt
  <2>6. h[p] = SumFunctionOnSet(size, X)
    BY <2>1
  <2> HIDE DEF h, size, all, X, most, rec
  <2> QED BY <2>3, <2>4, <2>5, <2>6
<1>6. /\ most \in Nat /\ \A p \in probed(t) : rec[p] \in Nat
      /\ DOMAIN rec = probed(t) /\ IsFiniteSet(probed(t)) /\ SumFunction(rec) \in Nat
  BY <1>0, FactorBound, PartsTyped
<1>7. SumFunctionOnSet(h, C) <= SumFunctionOnSet(bound, C)
  <2>1. \A p \in C : bound[p] = most * rec[p] /\ bound[p] \in Int
    <3>1. \A a, b \in Nat : a * b \in Int
      OBVIOUS
    <3> HIDE DEF most, rec
    <3> QED BY <1>0, <1>6, <3>1
  <2>2. \A p \in C : h[p] \in Int /\ bound[p] \in Int /\ h[p] <= bound[p]
    BY <1>5, <2>1
  <2> HIDE DEF h, bound, C
  <2> QED BY <1>0, <2>2, SumLeq
<1>8. SumFunctionOnSet(bound, C) = most * SumFunctionOnSet(rec, C)
  <2>1. \A p \in C : rec[p] \in Int /\ bound[p] = most * rec[p]
    BY <1>0, <1>6
  <2>2. most \in Int
    BY <1>6
  <2> HIDE DEF most, rec, bound, C
  <2> QED BY <1>0, <2>1, <2>2, SumTimes
<1>9. SumFunctionOnSet(rec, C) \in Nat /\ SumFunctionOnSet(rec, C) <= SumFunction(rec)
  <2>1. \A p \in C : rec[p] \in Nat
    BY <1>0, <1>6
  <2> HIDE DEF rec, C
  <2>2. SumFunctionOnSet(rec, C) \in Nat
    BY <1>0, <2>1, SumNat
  <2>3. SumFunctionOnSet(rec, C) <= SumFunctionOnSet(rec, probed(t))
    BY <1>0, <1>6, SumSubset
  <2> QED BY <1>6, <2>2, <2>3 DEF SumFunction
<1>10. most * SumFunctionOnSet(rec, C) <= most * SumFunction(rec)
  <2> HIDE DEF most, rec, C
  <2> QED BY <1>6, <1>9, MulMonotone
<1> HIDE DEF h, bound, C, rec, most, size, D
<1>11. sumReplicaBytes(t) <= most * SumFunction(rec)
  BY <1>3, <1>4, <1>6, <1>7, <1>8, <1>9, <1>10
<1> QED BY <1>4, <1>11 DEF most, rec

\* The estimate of a topic whose partitions and log starts do not change is at
\* most what was appended to it between the probes, once per broker that held a
\* copy of a partition: whichever replicas move, directories and offsets are not
\* answered, the sizes never exceed what those brokers hold between the offsets
\* (collect.go:222-230, 336-356).
THEOREM EstimateIsBounded == Spec => []EstimateBounded
<1>1. ASSUME EstimateInv, phase = "done", NEW t \in DOMAIN snap \cap quiet,
             Complete(endOff, t)
      PROVE  snap[t].bytesIn.num <= Copies(t) * snap[t].bytesIn.den * Ingress(t)
  <2> DEFINE Total == totalRecords(t)
             delta == deltaRecords(t)
             gain == Ingress(t)
             kept == sumReplicaBytes(t)
             most == Copies(t)
             est == snap[t].bytesIn
  <2>1. /\ t \in topicNames /\ t \in Topics
        /\ est = IF opts.window THEN estimateBytesIn(t) ELSE [num |-> 0, den |-> 1]
    BY <1>1 DEF EstimateInv, RowBytes, topicNames
  <2>2. /\ Total \in Nat /\ delta \in Nat /\ gain \in Nat /\ most \in Nat
    BY <1>1, <2>1, PartsTyped, EstimateParts, FactorBound DEF EstimateInv
  <2>3. delta <= gain
    BY <1>1, <2>1, DeltaBound, EstimateParts DEF EstimateInv
  <2>4. kept \in Nat /\ kept <= most * Total
    BY <1>1, <2>1, SizeBound, EstimateParts DEF EstimateInv
  <2>5. \/ est = [num |-> 0, den |-> 1]
        \/ est = [num |-> delta * kept, den |-> Total]
    BY <2>1 DEF estimateBytesIn
  <2> HIDE DEF Total, delta, gain, kept, most, est
  <2>6. 0 <= most * 1 * gain
    <3>1. \A a, b \in Nat : 0 <= a * 1 * b
      OBVIOUS
    <3> QED BY <2>2, <3>1
  <2>7. delta * kept <= most * Total * gain
    <3>1. most * Total \in Nat
      <4>1. \A a, b \in Nat : a * b \in Nat
        OBVIOUS
      <4> QED BY <2>2, <4>1
    <3>2. delta * kept <= delta * (most * Total)
      BY <2>2, <2>4, <3>1, MulMonotone
    <3>3. (most * Total) * delta <= (most * Total) * gain
      BY <2>2, <2>3, <3>1, MulMonotone
    <3> DEFINE m == most * Total
    <3> HIDE DEF m
    <3>4. m \in Nat /\ delta * kept <= delta * m /\ m * delta <= m * gain
      BY <3>1, <3>2, <3>3 DEF m
    <3>5. delta * kept <= m * gain
      BY <2>2, <2>4, <3>4
    <3> QED BY <3>5 DEF m
  <2>8. est.num <= most * est.den * gain
    BY <2>5, <2>6, <2>7
  <2> QED BY <2>8 DEF est, gain, most
<1>2. EstimateInv => EstimateBounded
  BY <1>1 DEF EstimateBounded
<1> QED BY <1>2, EstimateInvariant, PTL

\* On a quiet topic the offset deltas are all that was appended between the
\* probes, if the second probe lost no answer of it.
LEMMA DeltaIsIngress ==
    ASSUME Typed, ProbeInv, BytesInv, phase = "done", NEW t \in quiet \cap topicNames,
           Complete(endOff2, t)
    PROVE  deltaRecords(t) = Ingress(t)
<1> DEFINE P == probed(t)
           Q == Partitions \ P
           del == Deltas(t)
           gain == Gained(t)
<1>1. t \in Topics /\ t \in stable
  BY DEF topicNames, BytesInv, LayoutKept
<1>2. ASSUME NEW p \in Partitions
      PROVE  /\ <<t, p>> \in TP /\ appended[<<t, p>>] \in Nat
             /\ endOff[<<t, p>>] \in Nat \cup {Absent} /\ endOff2[<<t, p>>] \in Nat \cup {Absent}
  <2>1. <<t, p>> \in TP
    BY <1>1 DEF TP
  <2> QED BY <2>1 DEF Typed, TypeOK
<1>3. ASSUME NEW p \in Q PROVE gain[p] = 0
  <2>1. endOff[<<t, p>>] = Absent
    BY DEF probed
  <2> QED BY <1>2, <2>1 DEF ProbeInv, ProbedOnce, Gained
<1>4. ASSUME NEW p \in P PROVE del[p] = gain[p]
  <2>0. p \in Partitions /\ endOff[<<t, p>>] # Absent
    BY DEF probed
  <2>1. p \in listedPartitions(t)
    <3>1. replicas[<<t, p>>] # {}
      BY <1>2, <2>0 DEF BytesInv, QuietProbes
    <3>2. PICK q \in Partitions : listed[<<t, q>>] # {}
      BY DEF topicNames
    <3>3. <<t, q>> \in TP
      BY <1>1 DEF TP
    <3>4. ~dropInternal(t)
      BY <3>2, <3>3 DEF BytesInv, LayoutKept, AfterTopics
    <3> QED BY <1>2, <2>0, <3>1, <3>4 DEF BytesInv, LayoutKept, AfterTopics, listedPartitions
  <2>2. endOff2[<<t, p>>] # Absent
    BY <2>1 DEF Complete
  <2>3. endOff2[<<t, p>>] - endOff[<<t, p>>] = appended[<<t, p>>]
    BY <1>1, <1>2, <2>0, <2>2 DEF ProbeInv, DeltaSound
  <2>4. del[p] = Max({0, appended[<<t, p>>]}) /\ gain[p] = appended[<<t, p>>]
    BY <2>0, <2>3 DEF Deltas, Gained
  <2> QED BY <1>2, <2>0, <2>4, MaxWithZero
<1>5. /\ IsFiniteSet(P) /\ IsFiniteSet(Q) /\ P \cap Q = {} /\ P \cup Q = Partitions
      /\ \A p \in Partitions : gain[p] \in Int
      /\ DOMAIN del = P /\ DOMAIN gain = Partitions
  <2>1. /\ IsFiniteSet(Partitions) /\ IsFiniteSet(P) /\ P \subseteq Partitions
        /\ DOMAIN del = P /\ DOMAIN gain = Partitions
        /\ \A p \in Partitions : gain[p] \in Nat
    BY <1>1, PartsTyped
  <2>2. IsFiniteSet(Q)
    BY <2>1, FS_Subset
  <2> HIDE DEF P, del, gain
  <2> QED BY <2>1, <2>2
<1> HIDE DEF P, Q, del, gain
<1>6. SumFunctionOnSet(gain, Partitions)
          = SumFunctionOnSet(gain, P) + SumFunctionOnSet(gain, Q)
  <2>1. \A p \in P \cup Q : gain[p] \in Int
    BY <1>5
  <2>2. SumFunctionOnSet(gain, P \cup Q)
            = SumFunctionOnSet(gain, P) + SumFunctionOnSet(gain, Q)
    BY <1>5, <2>1, SumUnion
  <2> QED BY <1>5, <2>2
<1>7. SumFunctionOnSet(gain, Q) = 0
  BY <1>3, <1>5, SumZero
<1>8. SumFunctionOnSet(del, P) = SumFunctionOnSet(gain, P)
  BY <1>4, <1>5, SumSame
<1>9. SumFunctionOnSet(gain, P) \in Int
  BY <1>5, SumInt
<1>10. SumFunction(del) = SumFunctionOnSet(del, P)
       /\ SumFunction(gain) = SumFunctionOnSet(gain, Partitions)
  BY <1>5 DEF SumFunction
<1>11. SumFunction(del) = SumFunction(gain)
  BY <1>6, <1>7, <1>8, <1>9, <1>10
<1> QED BY <1>11, EstimateParts DEF del, gain

\* A multiple of the delta within a multiple of the tolerance, where the first
\* factor is no smaller, means a delta within the tolerance.
LEMMA WithinTolerance ==
    ASSUME NEW delta \in Nat, NEW kept \in Nat, NEW total \in Nat, NEW most \in Nat,
           total > 0, kept >= total, delta * kept <= most * total
    PROVE  delta <= most
<1>1. SUFFICES ASSUME delta > most PROVE FALSE
  OBVIOUS
<1>2. delta * total <= delta * kept
  BY MulMonotone
<1>3. total * (most + 1) <= total * delta
  BY <1>1, MulMonotone
<1>4. total * (most + 1) = most * total + total
  OBVIOUS
<1>5. delta * total = total * delta
  OBVIOUS
<1> DEFINE a == delta * total
           b == delta * kept
           c == most * total
<1>6. a \in Nat /\ b \in Nat /\ c \in Nat
  OBVIOUS
<1>7. a <= b /\ b <= c /\ c + total <= a
  BY <1>2, <1>3, <1>4, <1>5
<1> HIDE DEF a, b, c
<1> QED BY <1>6, <1>7

\* A topic that R1 reports dead from a sampled snapshot got no more bytes
\* between the probes than R1 tolerates, provided it stayed quiet, no answer
\* about its offsets was lost and its records were all sized
\* (r1_dead_topic.go:31-39 on collect.go:145-178).
THEOREM DeadTopicsAreIdle == Spec => []DeadIsIdle
<1>1. ASSUME EstimateInv, phase = "done", opts.window,
             NEW t \in deadTopics \cap quiet,
             Complete(endOff, t), Complete(endOff2, t), Covered(t)
      PROVE  Ingress(t) <= MaxBytesIn
  <2> DEFINE total == totalRecords(t)
             delta == deltaRecords(t)
             kept == sumReplicaBytes(t)
             most == Copies(t)
             est == snap[t].bytesIn
  <2>1. /\ t \in DOMAIN snap /\ est.num <= MaxBytesIn * est.den
        /\ snap[t].retained >= MinRetained /\ snap[t].retained >= total
    BY <1>1 DEF deadTopics, looksDead, Covered
  <2>2. /\ t \in topicNames /\ t \in Topics /\ snap[t].retained = kept
        /\ est = estimateBytesIn(t)
    BY <1>1, <2>1 DEF EstimateInv, RowBytes, topicNames
  <2>3. delta = Ingress(t)
    BY <1>1, <2>2, DeltaIsIngress DEF EstimateInv
  <2>4. total \in Nat /\ delta \in Nat /\ most \in Nat
    BY <1>1, <2>2, PartsTyped, EstimateParts, FactorBound DEF EstimateInv
  <2>5. kept \in Nat /\ kept <= most * total
    BY <1>1, <2>2, SizeBound, EstimateParts DEF EstimateInv
  <2>6. est = IF total = 0 \/ delta = 0 \/ kept = 0 THEN [num |-> 0, den |-> 1]
              ELSE [num |-> delta * kept, den |-> total]
    BY <2>2 DEF estimateBytesIn
  <2>7. kept > 0 /\ kept >= total
    <3> HIDE DEF kept, total
    <3> QED BY <2>1, <2>2, <2>5, ScanAssumption
  <2> HIDE DEF total, delta, kept, most, est
  <2>8. total > 0
    <3>1. \A a \in Nat : a * 0 = 0
      OBVIOUS
    <3> QED BY <2>4, <2>5, <2>7, <3>1
  <2>9. delta <= MaxBytesIn
    <3>1. CASE delta = 0
      BY <3>1, ScanAssumption
    <3>2. CASE delta # 0
      <4>1. est = [num |-> delta * kept, den |-> total]
        BY <2>6, <2>7, <2>8, <3>2
      <4>2. delta * kept <= MaxBytesIn * total
        BY <2>1, <4>1
      <4> QED BY <2>4, <2>5, <2>7, <2>8, <4>2, ScanAssumption, WithinTolerance
    <3> QED BY <3>1, <3>2
  <2> QED BY <2>3, <2>9
<1>2. EstimateInv => DeadIsIdle
  BY <1>1 DEF DeadIsIdle
<1> QED BY <1>2, EstimateInvariant, PTL

\* A settled group that consumed all through the collection is among the
\* snapshot's.
LEMMA SteadyIsMapped ==
    ASSUME Typed, GroupInv, phase = "done", NEW x \in steady, x[1] \in settled
    PROVE  \E g \in mapGroups : g.id = x[1]
<1>1. x[1] \in Groups
  BY DEF Typed, TypeOK
<1>2. groupInfo[x[1]] # NoGroup
  BY DEF GroupInv, SteadyInv, Asked, AfterGroups, Active, NoGroup
<1>3. [id |-> x[1], state |-> groupInfo[x[1]], lastCommitAgeDays |-> -1] \in mapGroups
  BY <1>1, <1>2 DEF mapGroups
<1> QED BY <1>3

\* Whatever groups' ids are a prefix of a topic's name, it is only reported as
\* orphaned if none of them consumed anything all through the collection, but
\* for those whose coordinator moved while the groups were listed
\* (r8_internal.go:33-43, 91-98 on collect.go:314-326, reads.go:214).
THEOREM OrphansAreUnowned == Spec => []OrphanIsUnowned
<1>1. ASSUME Typed, GroupInv, phase = "done", NEW owners \in SUBSET Groups,
             orphanedTopics(owners) # {}
      PROVE  steady \cap ((owners \cap settled) \X Topics) = {}
  <2>1. ~hasOwningApp(owners)
    BY <1>1 DEF orphanedTopics
  <2>2. ASSUME NEW x \in steady \cap ((owners \cap settled) \X Topics) PROVE FALSE
    <3>1. x[1] \in owners /\ x[1] \in settled
      BY <2>2
    <3>2. PICK g \in mapGroups : g.id = x[1]
      BY <1>1, <2>2, <3>1, SteadyIsMapped
    <3> QED BY <2>1, <3>1, <3>2 DEF hasOwningApp
  <2> QED BY <2>2
<1>2. Typed /\ GroupInv => OrphanIsUnowned
  BY <1>1 DEF OrphanIsUnowned
<1> QED BY <1>2, GroupInvariant, PTL
=============================================================================
