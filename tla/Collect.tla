------------------------------ MODULE Collect ------------------------------
(***************************************************************************)
(* internal/collect.build over internal/kafka's reads: one collection of a  *)
(* snapshot from a cluster that keeps changing.  The reads are sequential,  *)
(* some are many requests (one answer per broker, per partition or per      *)
(* group), every one of them can fail, and the caller's context can expire  *)
(* at any moment.                                                            *)
(***************************************************************************)
EXTENDS Cluster, FiniteSetsExt

CONSTANTS
    Options,    \* bound: the Options explored, see opts
    Faults,     \* bound: the kinds of failing answer explored
    MaxChanges  \* bound: cluster changes during one collection

\* request: a whole request fails; partition: one partition of an offset
\* answer carries an error; dir: log directories are missing from a broker's
\* answer; fetch: (part of) one group's committed offsets cannot be read.
AllFaults == {"request", "partition", "dir", "fetch"}

ASSUME CollectAssumption ==
    /\ Options \subseteq [window : BOOLEAN, internal : BOOLEAN]
    /\ Faults \subseteq AllFaults
    /\ MaxChanges \in Nat

VARIABLES
    opts,       \* Options: window (SampleWindow > 0), internal (IncludeInternal)
    phase,      \* the read in progress, then "mapping", "done" or "failed"
    todo,       \* what the read in progress still waits for
    expired,    \* the caller's context is done
    err,        \* the read that failed, or "none"
    listed,     \* Topics: partition -> replicas, {} when not listed
    configs,    \* TopicConfigs
    logDirs,    \* LogDirSizes: the replica sizes that were kept
    startOff, endOff, endOff2,  \* Start/EndOffsets, Absent where missing
    groupInfo,  \* Groups: group -> state, NoGroup when not listed
    committed,  \* CommittedOffsets: group -> topics
    snap        \* the topics of the returned snapshot, by name

reads == <<listed, configs, logDirs, startOff, endOff, endOff2, groupInfo,
           committed>>
build == <<opts, phase, todo, expired, err, reads, snap>>

(***************************************************************************)
(* History: facts about the cluster over the time of the collection, which  *)
(* the snapshot is compared with.  No step depends on them.                 *)
(***************************************************************************)
VARIABLES
    stable,     \* topics no partition of which was deleted so far
    quiet,      \* topics whose set of partitions and log starts never changed
    held,       \* partition -> brokers that were its replicas at some time
    appended,   \* partition -> records appended between its two end probes
    steady,     \* <<g, t>>: g consumed, with t committed, all the time
    settled,    \* groups whose coordinator stayed while the groups were listed
    consumed,   \* groups that consumed at some time
    tracked,    \* <<g, t>>: g had committed on t at some time
    lost,       \* <<g, t>>: committed offsets an error hid from the build
    late,       \* groups whose fetch failed because the context had expired
    changes     \* cluster changes so far, for the bound

history == <<stable, quiet, held, appended, steady, settled, consumed,
             tracked, lost, late, changes>>
vars == <<cluster, build, history>>

Absent == -1        \* no entry in an offset map
Terminal == {"done", "failed"}
ReadPhases == {"brokers", "topics", "configs", "logdirs", "start", "end",
               "groups", "committed", "sleep", "end2"}
Phases == ReadPhases \cup {"mapping"} \cup Terminal

\* Slips (here and below): an operator named Slip_... is its neighbour with a
\* plausible mistake, used to check that a property would notice it.
\* Slip: the end offsets are read before the start offsets.
Slip_EndBeforeStart(p) ==
    CASE p = "brokers" -> "topics" [] p = "topics" -> "configs"
      [] p = "configs" -> "logdirs" [] p = "logdirs" -> "end"
      [] p = "end" -> "start" [] p = "start" -> "groups"
      [] p = "groups" -> "committed"
      [] p = "committed" -> IF opts.window THEN "sleep" ELSE "mapping"
      [] p = "sleep" -> "end2" [] p = "end2" -> "mapping"

\* Slip: the committed offsets are read last, after the second probe.
Slip_CommittedLast(p) ==
    CASE p = "brokers" -> "topics" [] p = "topics" -> "configs"
      [] p = "configs" -> "logdirs" [] p = "logdirs" -> "start"
      [] p = "start" -> "end" [] p = "end" -> "groups"
      [] p = "groups" -> IF opts.window THEN "sleep" ELSE "committed"
      [] p = "sleep" -> "end2" [] p = "end2" -> "committed"
      [] p = "committed" -> "mapping"

\* The order of build's calls; the second probe only with a sample window.
After(p) ==
    CASE p = "brokers"   -> "topics"
      [] p = "topics"    -> "configs"
      [] p = "configs"   -> "logdirs"
      [] p = "logdirs"   -> "start"
      [] p = "start"     -> "end"
      [] p = "end"       -> "groups"
      [] p = "groups"    -> "committed"
      [] p = "committed" -> IF opts.window THEN "sleep" ELSE "mapping"
      [] p = "sleep"     -> "end2"
      [] p = "end2"      -> "mapping"

\* The answers the next read waits for.
Work(p) ==
    CASE p \in {"logdirs", "groups"}    -> Brokers
      [] p \in {"start", "end", "end2"} -> TP
      [] p = "committed"                -> {g \in Groups : groupInfo'[g] # NoGroup}
      [] OTHER                          -> {}

Proceed == /\ phase' = After(phase)
           /\ todo' = Work(phase')
           /\ UNCHANGED <<opts, expired, err, snap>>

\* One answer of the read in progress is in.
Answer(x) == /\ x \in todo
             /\ ~expired
             /\ todo' = todo \ {x}
             /\ UNCHANGED <<opts, phase, expired, err, snap>>

\* build returns the zero Snapshot and the error of the read.
Fail(e) == /\ phase' = "failed"
           /\ err' = e
           /\ todo' = {}
           /\ UNCHANGED <<opts, expired, reads, snap, cluster, history>>

dropInternal(t) == ~opts.internal /\ t \in Internal
topicNames == {t \in Topics : \E p \in Partitions : listed[<<t, p>>] # {}}

(***************************************************************************)
(* The reads.                                                                *)
(***************************************************************************)
ReadBrokers ==
    /\ phase = "brokers" /\ ~expired
    /\ Proceed
    /\ UNCHANGED <<reads, cluster, history>>

ReadTopics ==
    /\ phase = "topics" /\ ~expired
    /\ listed' = [tp \in TP |-> IF dropInternal(tp[1]) THEN {} ELSE replicas[tp]]
    /\ Proceed
    /\ UNCHANGED <<configs, logDirs, startOff, endOff, endOff2, groupInfo,
                   committed, cluster, history>>

\* With no topic to describe no request is sent, so the context is not looked
\* at either.
TopicConfigs ==
    /\ phase = "configs"
    /\ \/ topicNames = {} /\ configs' = configs
       \/ /\ topicNames # {} /\ ~expired
          /\ \A t \in topicNames : Exists(t)
          /\ configs' = [t \in Topics |-> IF t \in topicNames THEN {config[t]} ELSE {}]
    /\ Proceed
    /\ UNCHANGED <<listed, logDirs, startOff, endOff, endOff2, groupInfo,
                   committed, cluster, history>>

\* Slip: the configs of dropped internal topics are asked for as well.
Slip_ConfigsOfAll ==
    /\ phase = "configs" /\ ~expired
    /\ \E t \in Topics : ~Exists(t)
    /\ Fail("topic config")

\* A topic that was deleted after Topics is answered with an error of its own.
TopicConfigsError ==
    /\ phase = "configs" /\ ~expired
    /\ \E t \in topicNames : ~Exists(t)
    /\ Fail("topic config")

\* What broker b's directories hold: its replicas, and the shadow copies of
\* those being moved.  A record is one byte.
DescribedLogDirs(b) ==
    {[tp |-> tp, broker |-> b, isFuture |-> FALSE, size |-> end[tp] - start[tp]] :
         tp \in {x \in TP : b \in replicas[x]}}
    \cup
    {[tp |-> tp, broker |-> b, isFuture |-> TRUE, size |-> end[tp] - start[tp]] :
         tp \in {x \in TP : b \in future[x]}}

\* Slip: shadow copies are counted.
Slip_KeepFuture(d) == TRUE

KeepSize(d) == ~d.isFuture

\* A directory that answers an error is skipped with all it holds; which
\* replicas share one is up to the broker.
LogDirSizes(b, unseen) ==
    /\ phase = "logdirs"
    /\ Answer(b)
    /\ unseen = {} \/ "dir" \in Faults
    /\ logDirs' = logDirs \cup {d \in DescribedLogDirs(b) \ unseen : KeepSize(d)}
    /\ UNCHANGED <<listed, configs, startOff, endOff, endOff2, groupInfo,
                   committed, cluster, history>>

\* Slip: an entry with an error keeps the placeholder offset it came with.
Slip_KeepErr(log, tp) == {IF replicas[tp] = {} THEN -2 ELSE log[tp]}

\* flattenOffsets: a partition that is gone or answers an error has no entry.
flattenOffsets(log, tp) ==
    {IF replicas[tp] = {} THEN Absent ELSE log[tp]}
    \cup (IF "partition" \in Faults THEN {Absent} ELSE {})

StartOffsets(tp) ==
    /\ phase = "start"
    /\ Answer(tp)
    /\ \E o \in flattenOffsets(start, tp) : startOff' = [startOff EXCEPT ![tp] = o]
    /\ UNCHANGED <<listed, configs, logDirs, endOff, endOff2, groupInfo,
                   committed, cluster, history>>

\* Slip: EndOffsets asks for the start offsets.
Slip_EndAsksStart(tp) ==
    /\ phase = "end"
    /\ Answer(tp)
    /\ \E o \in flattenOffsets(start, tp) : endOff' = [endOff EXCEPT ![tp] = o]
    /\ UNCHANGED <<listed, configs, logDirs, startOff, endOff2, groupInfo,
                   committed, cluster, history>>

EndOffsets(tp) ==
    /\ phase = "end"
    /\ Answer(tp)
    /\ \E o \in flattenOffsets(end, tp) : endOff' = [endOff EXCEPT ![tp] = o]
    /\ UNCHANGED <<listed, configs, logDirs, startOff, endOff2, groupInfo,
                   committed, cluster, history>>

\* Slip: the second probe is assigned to the variable of the first.
Slip_SameVariable(tp) ==
    /\ phase = "end2"
    /\ Answer(tp)
    /\ \E o \in flattenOffsets(end, tp) : endOff' = [endOff EXCEPT ![tp] = o]
    /\ UNCHANGED <<listed, configs, logDirs, startOff, endOff2, groupInfo,
                   committed, cluster, history>>

EndOffsetsAgain(tp) ==
    /\ phase = "end2"
    /\ Answer(tp)
    /\ \E o \in flattenOffsets(end, tp) : endOff2' = [endOff2 EXCEPT ![tp] = o]
    /\ UNCHANGED <<listed, configs, logDirs, startOff, endOff, groupInfo,
                   committed, cluster, history>>

\* Every broker is asked for the groups it coordinates, and kadm merges the
\* answers by group id: of a group that two of them name either entry may stay.
ListGroups(b, kept) ==
    /\ phase = "groups"
    /\ Answer(b)
    /\ \A g \in kept : groupInfo[g] # NoGroup
    /\ groupInfo' = [g \in Groups |->
           IF coordinator[g] = b /\ state[g] # NoGroup /\ g \notin kept
           THEN state[g] ELSE groupInfo[g]]
    /\ UNCHANGED <<listed, configs, logDirs, startOff, endOff, endOff2,
                   committed, cluster, history>>

\* Slip: a group's state is refreshed when its offsets are fetched.
Slip_RefreshState(g, hidden) ==
    /\ phase = "committed"
    /\ Answer(g)
    /\ hidden \subseteq commits[g]
    /\ committed' = [committed EXCEPT ![g] = commits[g] \ hidden]
    /\ groupInfo' = [groupInfo EXCEPT ![g] = state[g]]
    /\ lost' = lost \cup ({g} \X hidden)
    /\ UNCHANGED <<listed, configs, logDirs, startOff, endOff, endOff2,
                   cluster, stable, quiet, held, appended, steady, settled,
                   consumed, tracked, late, changes>>

\* CommittedOffsets, one group at a time; entries with an error are left out.
FetchOffsets(g, hidden) ==
    /\ phase = "committed"
    /\ Answer(g)
    /\ hidden = {} \/ "fetch" \in Faults
    /\ hidden \subseteq commits[g]
    /\ committed' = [committed EXCEPT ![g] = commits[g] \ hidden]
    /\ lost' = lost \cup ({g} \X hidden)
    /\ UNCHANGED <<listed, configs, logDirs, startOff, endOff, endOff2, groupInfo,
                   cluster, stable, quiet, held, appended, steady, settled,
                   consumed, tracked, late, changes>>

\* Any error of a group's fetch is skipped, an expired context included.
FetchOffsetsError(g) ==
    /\ phase = "committed"
    /\ g \in todo
    /\ expired \/ "fetch" \in Faults
    /\ todo' = todo \ {g}
    /\ lost' = lost \cup ({g} \X Topics)
    /\ late' = IF expired THEN late \cup {g} ELSE late
    /\ UNCHANGED <<opts, phase, expired, err, snap, reads, cluster, stable, quiet,
                   held, appended, steady, settled, consumed, tracked, changes>>

\* Every answer of a read with several of them is in.
Collected ==
    /\ phase \in {"logdirs", "start", "end", "groups", "committed", "end2"}
    /\ todo = {}
    /\ UNCHANGED <<reads, cluster, history>>
    /\ Proceed

\* The request fails: unreachable broker, authorization, a topic's metadata
\* error.  CommittedOffsets never does; ctxSleep sends nothing.
RequestError ==
    /\ "request" \in Faults
    /\ phase \in ReadPhases \ {"committed", "sleep"}
    /\ phase = "configs" => topicNames # {}
    /\ Fail(phase)

\* ctxSleep, and every read but CommittedOffsets, return the context's error.
CtxError ==
    /\ expired
    /\ phase \in ReadPhases \ {"committed"}
    /\ phase = "configs" => topicNames # {}
    /\ phase \in {"logdirs", "start", "end", "groups", "end2"} => todo # {}
    /\ Fail("context")

\* The timer fires.  On a context that is done as well, Go's select may still
\* take the timer; the second probe then gets the error.
ctxSleep ==
    /\ phase = "sleep"
    /\ Proceed
    /\ UNCHANGED <<reads, cluster, history>>

(***************************************************************************)
(* The mapping: pure functions of what was read.                             *)
(***************************************************************************)
sumReplicaBytes(t) ==
    SumFunction([d \in {x \in logDirs : x.tp[1] = t} |-> d.size])

perPartitionBytes(t) ==
    [p \in {d.tp[2] : d \in {x \in logDirs : x.tp[1] = t}} |->
         SumFunction([d \in {x \in logDirs : x.tp = <<t, p>>} |-> d.size])]

listedPartitions(t) == {p \in Partitions : listed[<<t, p>>] # {}}

ReplicationFactor(t) == Max({Cardinality(listed[<<t, p>>]) : p \in Partitions})

Present(off, t, P) == {off[<<t, p>>] : p \in {q \in P : off[<<t, q>>] # Absent}}

\* The loop ranges over a Go map, so `first` is any listed partition; only it
\* may replace the initial 0 by something larger.
offsetSpan(t, first) ==
    [earliest |-> IF startOff[<<t, first>>] = Absent THEN 0
                  ELSE Min(Present(startOff, t, listedPartitions(t))),
     latest   |-> Max({0} \cup Present(endOff, t, listedPartitions(t)))]

\* Slip: a rebalancing group counts as inactive.
Slip_OnlyStable(s) == s # "Stable"

\* Slip: a dead group counts as active.
Slip_DeadIsActive(s) == s \in {"Empty", ""}

isInactiveState(s) == s \in {"Empty", "Dead", ""}

activeConsumers(t) ==
    Cardinality({g \in Groups : /\ groupInfo[g] # NoGroup
                                /\ ~isInactiveState(groupInfo[g])
                                /\ t \in committed[g]})

probed(t) == {p \in Partitions : endOff[<<t, p>>] # Absent}

\* Slip: the delta is taken the wrong way round.
Slip_DeltaReversed(t) ==
    SumFunction([p \in probed(t) |-> Max({0, endOff[<<t, p>>] - endOff2[<<t, p>>]})])

\* Records between the offsets, for the average size of one.  A missing start
\* offset counts as 0, Go's zero value.
totalRecords(t) ==
    LET From(p) == Max({0, startOff[<<t, p>>]})
    IN  SumFunction([p \in probed(t) |-> Max({0, endOff[<<t, p>>] - From(p)})])

\* Records produced between the two probes of the end offsets.
deltaRecords(t) ==
    SumFunction([p \in probed(t) |-> Max({0, endOff2[<<t, p>>] - endOff[<<t, p>>]})])

\* Bytes per sample window as a quotient: delta records times the average size
\* of a record.
estimateBytesIn(t) ==
    LET retained == sumReplicaBytes(t)
    IN  IF totalRecords(t) = 0 \/ deltaRecords(t) = 0 \/ retained = 0
        THEN [num |-> 0, den |-> 1]
        ELSE [num |-> deltaRecords(t) * retained, den |-> totalRecords(t)]

retentionMs(v) == IF v = <<>> THEN -1 ELSE v[1]
strOr(v, def) == IF v = "" THEN def ELSE v

Row(t, first) ==
    LET cfg  == CHOOSE c \in configs[t] : TRUE
        span == offsetSpan(t, first)
    IN  [partitions     |-> Cardinality(listedPartitions(t)),
         rf             |-> ReplicationFactor(t),
         retentionMs    |-> retentionMs(cfg.retention),
         compression    |-> strOr(cfg.compression, "producer"),
         retained       |-> sumReplicaBytes(t),
         partitionBytes |-> perPartitionBytes(t),
         earliest       |-> span.earliest,
         latest         |-> span.latest,
         active         |-> activeConsumers(t),
         bytesIn        |-> IF opts.window THEN estimateBytesIn(t)
                            ELSE [num |-> 0, den |-> 1],
         source         |-> IF opts.window THEN "estimated" ELSE "none"]

Finish ==
    /\ phase = "mapping"
    /\ \E first \in [topicNames -> Partitions] :
          /\ \A t \in topicNames : first[t] \in listedPartitions(t)
          /\ snap' = [t \in topicNames |-> Row(t, first[t])]
    /\ phase' = "done"
    /\ UNCHANGED <<opts, todo, expired, err, reads, cluster, history>>

(***************************************************************************)
(* Steps that are not brod's: time, and the cluster changing under it.       *)
(***************************************************************************)
\* Slip: the context has no deadline.
Slip_NoDeadline == FALSE /\ UNCHANGED vars

Deadline ==
    /\ ~expired
    /\ phase \in ReadPhases
    /\ expired' = TRUE
    /\ UNCHANGED <<opts, phase, todo, err, reads, snap, cluster, history>>

\* Records a partition gains in this step.
Gain(tp) == IF end'[tp] > end[tp] THEN end'[tp] - end[tp] ELSE 0

BetweenProbes(tp) == endOff[tp] # Absent /\ endOff2[tp] = Absent

Observe ==
    /\ stable' = {t \in stable : \A p \in Partitions :
                      replicas[<<t, p>>] # {} => replicas'[<<t, p>>] # {}}
    /\ quiet' = {t \in quiet : \A p \in Partitions :
                     /\ replicas'[<<t, p>>] = {} <=> replicas[<<t, p>>] = {}
                     /\ start'[<<t, p>>] = start[<<t, p>>]}
    /\ held' = [tp \in TP |-> held[tp] \cup replicas'[tp]]
    /\ appended' = [tp \in TP |->
           IF BetweenProbes(tp) THEN appended[tp] + Gain(tp) ELSE appended[tp]]
    /\ steady' = {x \in steady : Consuming(x[1])' /\ x[2] \in commits'[x[1]]}
    /\ settled' = {g \in settled : phase = "groups" => coordinator'[g] = coordinator[g]}
    /\ consumed' = consumed \cup {g \in Groups : Consuming(g)'}
    /\ tracked' = tracked \cup {x \in Groups \X Topics : x[2] \in commits'[x[1]]}
    /\ UNCHANGED <<lost, late>>

\* The cluster may change while a read is in progress; once the last answer
\* is in, nothing of the build looks at it again.
Change ==
    /\ phase \in ReadPhases
    /\ ClusterNext
    /\ Observe
    /\ changes < MaxChanges
    /\ changes' = changes + 1
    /\ UNCHANGED build

Finished == phase \in Terminal /\ UNCHANGED vars

Init ==
    /\ ClusterInit
    /\ opts \in Options
    /\ phase = "brokers" /\ todo = {} /\ expired = FALSE /\ err = "none"
    /\ listed = [tp \in TP |-> {}]
    /\ configs = [t \in Topics |-> {}]
    /\ logDirs = {}
    /\ startOff = [tp \in TP |-> Absent]
    /\ endOff = [tp \in TP |-> Absent]
    /\ endOff2 = [tp \in TP |-> Absent]
    /\ groupInfo = [g \in Groups |-> NoGroup]
    /\ committed = [g \in Groups |-> {}]
    /\ snap = <<>>
    /\ stable = Topics /\ quiet = Topics /\ held = replicas
    /\ appended = [tp \in TP |-> 0]
    /\ tracked = {x \in Groups \X Topics : x[2] \in commits[x[1]]}
    /\ consumed = {g \in Groups : Consuming(g)}
    /\ steady = {x \in tracked : x[1] \in consumed} /\ settled = Groups
    /\ lost = {} /\ late = {} /\ changes = 0

\* What brod does next, when the cluster has answered what was asked.
Step ==
    \/ ReadBrokers \/ ReadTopics \/ TopicConfigs \/ TopicConfigsError
    \/ \E b \in Brokers :
          \/ \E unseen \in SUBSET DescribedLogDirs(b) : LogDirSizes(b, unseen)
          \/ \E kept \in SUBSET Groups : ListGroups(b, kept)
    \/ \E tp \in TP : StartOffsets(tp) \/ EndOffsets(tp) \/ EndOffsetsAgain(tp)
    \/ \E g \in Groups :
          \/ \E hidden \in SUBSET Topics : FetchOffsets(g, hidden)
          \/ FetchOffsetsError(g)
    \/ Collected \/ RequestError \/ CtxError \/ ctxSleep \/ Finish

Next == Step \/ Deadline \/ Change \/ Finished

Spec == Init /\ [][Next]_vars

\* connectAndCollect gives the context a deadline, which comes; a request on a
\* context that is done returns; so does the timer.  Brokers promise nothing.
Fairness ==
    /\ WF_vars(Deadline)
    /\ WF_vars(CtxError)
    /\ WF_vars(expired /\ \E g \in Groups : FetchOffsetsError(g))
    /\ WF_vars(Collected) /\ WF_vars(TopicConfigs) /\ WF_vars(Finish)

FairSpec == Spec /\ Fairness

(***************************************************************************)
(* Properties.                                                               *)
(***************************************************************************)
\* What build holds is well formed: an offset it kept is a real one, never an
\* error's placeholder, and a size is never negative (reads.go:160-207).
TypeOK ==
    /\ ClusterTypeOK
    /\ opts \in Options
    /\ phase \in Phases
    /\ todo \subseteq TP \cup Brokers \cup Groups
    /\ expired \in BOOLEAN
    /\ err \in ReadPhases \cup {"none", "topic config", "context"}
    /\ listed \in [TP -> SUBSET Brokers]
    /\ configs \in [Topics -> SUBSET Configs]
    /\ \A d \in logDirs : d.tp \in TP /\ d.broker \in Brokers /\ d.size \in Nat
    /\ startOff \in [TP -> Nat \cup {Absent}]
    /\ endOff \in [TP -> Nat \cup {Absent}]
    /\ endOff2 \in [TP -> Nat \cup {Absent}]
    /\ groupInfo \in [Groups -> GroupStates \cup {NoGroup}]
    /\ committed \in [Groups -> SUBSET Topics]
    /\ stable \subseteq Topics /\ quiet \subseteq Topics
    /\ held \in [TP -> SUBSET Brokers]
    /\ appended \in [TP -> Nat]
    /\ steady \subseteq Groups \X Topics /\ tracked \subseteq Groups \X Topics
    /\ lost \subseteq Groups \X Topics /\ settled \subseteq Groups
    /\ consumed \subseteq Groups /\ late \subseteq Groups
    /\ changes \in 0 .. MaxChanges

\* The start probe precedes the end probe, so retention that runs between them
\* cannot make a partition that was never deleted look as if it ended before
\* it started (collect.go:94-98).
OffsetsOrdered ==
    \A tp \in TP :
        (tp[1] \in stable /\ startOff[tp] # Absent /\ endOff[tp] # Absent)
            => startOff[tp] <= endOff[tp]

\* Whatever happens to a topic between the two probes, deleting and recreating
\* it included, its offset delta counts no record that was not appended
\* between them, and counts all of them if it was not deleted
\* (collect.go:342-350).
DeltaSound ==
    \A tp \in TP : (endOff[tp] # Absent /\ endOff2[tp] # Absent) =>
        /\ endOff2[tp] - endOff[tp] <= appended[tp]
        /\ tp[1] \in stable => endOff2[tp] - endOff[tp] = appended[tp]

Complete(off, t) == \A p \in listedPartitions(t) : off[<<t, p>>] # Absent

\* The records that a topic's producers sent between the two probes.
Ingress(t) == SumFunction([p \in Partitions |-> appended[<<t, p>>]])

\* The most brokers that held one of its partitions during the collection.
Copies(t) == Max({Cardinality(held[<<t, p>>]) : p \in Partitions})

\* As replicated traffic the estimate is no exaggeration, also of a topic whose
\* replicas move between brokers and directories while they are sized: it is at
\* most what was appended between the probes, once per broker that held a copy.
\* Shadow copies, copies on the way and sizes older than the end offsets never
\* make it more.  (As ingress it is too much, see EstimateIsIngress.)
\* collect.go:222-230, 336-356
EstimateBounded ==
    phase = "done" => \A t \in DOMAIN snap \cap quiet :
        Complete(endOff, t) =>
            snap[t].bytesIn.num <= Copies(t) * snap[t].bytesIn.den * Ingress(t)

\* Every group that consumed the topic all through the collection is counted,
\* unless an error hid its offsets, or its coordinator moved while the brokers
\* were asked for their groups one by one (reads.go:214, collect.go:279-290).
ConsumersCounted ==
    phase = "done" => \A t \in DOMAIN snap :
        snap[t].active >= Cardinality({g \in settled : <<g, t>> \in steady \ lost})

\* No group is counted that never consumed or never committed on the topic
\* during the collection (collect.go:279-300).
NoGhostConsumers ==
    phase = "done" => \A t \in DOMAIN snap :
        snap[t].active <= Cardinality({g \in consumed : <<g, t>> \in tracked})

\* A sampled snapshot is only returned if the context outlived every read of
\* committed offsets: what an expired context hid is never mapped
\* (collect.go:124-131).
SampledNotLate == phase = "done" /\ opts.window => late = {}

\* A collection fails for one of three reasons: a request failed, the context
\* was done, or a topic that the snapshot would have had was deleted between
\* Topics and TopicConfigs.  A topic that comes, changes or goes at any other
\* moment, or that was dropped as internal, fails nothing
\* (reads.go:107-119, collect.go:73-131).
FailureHasCause ==
    phase = "failed" =>
        \/ err \in ReadPhases /\ "request" \in Faults
        \/ err = "context" /\ expired
        \/ err = "topic config" /\ ~(topicNames \subseteq stable)

\* Every collection returns: a cluster that stops answering cannot hold it past
\* the deadline (live.go:174-203, collect.go:185-194).
Returns == <>(phase \in Terminal)

(***************************************************************************)
(* What a comment of the code says and the code does not do.                *)
(***************************************************************************)
\* reads.go:235: only "a group can vanish between listing and fetching" is
\* tolerated; a snapshot is not made of what an expired context left out.
NotLate == phase = "done" => late = {}

\* collect.go:328-332: the estimate "approximates ingress" as records times
\* "avg_record_bytes".  On a topic whose replicas stay where they are and whose
\* answers are complete it is then at most what its producers sent.
EstimateIsIngress ==
    phase = "done" => \A t \in DOMAIN snap \cap quiet :
        Complete(endOff, t) /\ (\A p \in Partitions : held[<<t, p>>] = listed[<<t, p>>])
            => snap[t].bytesIn.num <= snap[t].bytesIn.den * Ingress(t)
=============================================================================
