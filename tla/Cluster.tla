------------------------------ MODULE Cluster ------------------------------
(***************************************************************************)
(* The Kafka cluster that brod reads, seen through the answers brod asks    *)
(* for: topic metadata, topic configs, log directories, log offsets, and    *)
(* consumer groups with their committed offsets.  It is external to the     *)
(* repository: what is kept is what internal/kafka/reads.go can observe.    *)
(* Other clients own the cluster, so any of these steps can fall between    *)
(* two requests of one collection.                                          *)
(***************************************************************************)
EXTENDS Integers, FiniteSets

CONSTANTS
    Topics,         \* topic names
    NumPartitions,  \* the most partitions a topic can have
    Brokers,        \* broker ids
    Groups,         \* consumer group ids
    Configs,        \* raw topic configs, see Collect!retentionMs and strOr
    Internal,       \* the topics that are Kafka's own (IsInternal or "__")
    MaxEnd,         \* bound: the highest log end offset explored
    Churn           \* bound: the kinds of cluster change explored

AllChurn == {"topics", "partitions", "append", "expire", "reassign", "move",
             "config", "groups", "coordinator", "commit"}

ASSUME ClusterAssumption ==
    /\ NumPartitions \in Nat \ {0}
    /\ Topics # {}
    /\ IsFiniteSet(Topics) /\ IsFiniteSet(Brokers) /\ IsFiniteSet(Groups)
    /\ Internal \subseteq Topics
    /\ MaxEnd \in Nat
    /\ Churn \subseteq AllChurn

VARIABLES
    replicas,   \* partition -> brokers that hold it; {}: it does not exist
    future,     \* partition -> brokers copying it to another of their dirs
    start,      \* partition -> log start offset
    end,        \* partition -> log end offset
    config,     \* topic -> its raw config
    coordinator, \* group -> the broker that answers for it
    state,      \* group -> its state, or "absent"
    commits     \* group -> topics it has committed offsets on

cluster == <<replicas, future, start, end, config, coordinator, state, commits>>

Partitions == 0 .. NumPartitions - 1
TP == Topics \X Partitions

\* Group states a broker can report; "" is what brokers that predate the
\* State field answer for every group.
GroupStates == {"Stable", "PreparingRebalance", "Empty", "Dead", ""}
NoGroup == "absent"

Exists(t) == \E p \in Partitions : replicas[<<t, p>>] # {}

\* The group has members that consume: the fact ActiveConsumers stands for.
Consuming(g) == state[g] \in {"Stable", "PreparingRebalance"}

ClusterTypeOK ==
    /\ replicas \in [TP -> SUBSET Brokers]
    /\ future \in [TP -> SUBSET Brokers]
    /\ start \in [TP -> Nat]
    /\ end \in [TP -> Nat]
    /\ config \in [Topics -> Configs]
    /\ coordinator \in [Groups -> Brokers]
    /\ state \in [Groups -> GroupStates \cup {NoGroup}]
    /\ commits \in [Groups -> SUBSET Topics]

\* Any layout brod may find: partitions replicated alike or not, logs filled or
\* empty, groups in any state.
ClusterInit ==
    /\ replicas \in [TP -> (SUBSET Brokers) \ {{}}]
    /\ future = [tp \in TP |-> {}]
    /\ start = [tp \in TP |-> 0]
    /\ end \in {[tp \in TP |-> n] : n \in 0 .. MaxEnd}
    /\ config \in [Topics -> Configs]
    /\ coordinator \in [Groups -> Brokers]
    /\ state \in [Groups -> GroupStates \cup {NoGroup}]
    /\ commits \in [Groups -> SUBSET Topics]
    /\ \A g \in Groups : state[g] = NoGroup => commits[g] = {}

(***************************************************************************)
(* Steps of the cluster's own administrators, producers and consumers.      *)
(***************************************************************************)
CreateTopic(t, n, R) ==
    /\ "topics" \in Churn
    /\ ~Exists(t)
    /\ replicas' = [tp \in TP |->
           IF tp[1] = t /\ tp[2] < n THEN R ELSE replicas[tp]]
    /\ UNCHANGED <<future, start, end, config, coordinator, state, commits>>

\* Deleting a topic drops its logs and the offsets committed on it.
DeleteTopic(t) ==
    /\ "topics" \in Churn
    /\ Exists(t)
    /\ replicas' = [tp \in TP |-> IF tp[1] = t THEN {} ELSE replicas[tp]]
    /\ future' = [tp \in TP |-> IF tp[1] = t THEN {} ELSE future[tp]]
    /\ start' = [tp \in TP |-> IF tp[1] = t THEN 0 ELSE start[tp]]
    /\ end' = [tp \in TP |-> IF tp[1] = t THEN 0 ELSE end[tp]]
    /\ commits' = [g \in Groups |-> commits[g] \ {t}]
    /\ UNCHANGED <<config, coordinator, state>>

AddPartition(t, p, R) ==
    /\ "partitions" \in Churn
    /\ Exists(t)
    /\ replicas[<<t, p>>] = {}
    /\ \A q \in 0 .. p - 1 : replicas[<<t, q>>] # {}
    /\ replicas' = [replicas EXCEPT ![<<t, p>>] = R]
    /\ UNCHANGED <<future, start, end, config, coordinator, state, commits>>

Append(tp) ==
    /\ "append" \in Churn
    /\ replicas[tp] # {}
    /\ end[tp] < MaxEnd
    /\ end' = [end EXCEPT ![tp] = @ + 1]
    /\ UNCHANGED <<replicas, future, start, config, coordinator, state, commits>>

\* Retention deletes the oldest records.
Expire(tp, n) ==
    /\ "expire" \in Churn
    /\ start[tp] < n /\ n <= end[tp]
    /\ start' = [start EXCEPT ![tp] = n]
    /\ UNCHANGED <<replicas, future, end, config, coordinator, state, commits>>

Reassign(tp, R) ==
    /\ "reassign" \in Churn
    /\ replicas[tp] # {} /\ R # replicas[tp]
    /\ replicas' = [replicas EXCEPT ![tp] = R]
    /\ future' = [future EXCEPT ![tp] = @ \cap R]
    /\ UNCHANGED <<start, end, config, coordinator, state, commits>>

\* A broker copies a replica to another of its log directories, then swaps.
MoveDir(tp, b) ==
    /\ "move" \in Churn
    /\ b \in replicas[tp]
    /\ future' = [future EXCEPT ![tp] = IF b \in @ THEN @ \ {b} ELSE @ \cup {b}]
    /\ UNCHANGED <<replicas, start, end, config, coordinator, state, commits>>

AlterConfig(t, c) ==
    /\ "config" \in Churn
    /\ config[t] # c
    /\ config' = [config EXCEPT ![t] = c]
    /\ UNCHANGED <<replicas, future, start, end, coordinator, state, commits>>

\* A group appears, rebalances, empties, or is deleted with its offsets.
ChangeGroup(g, s) ==
    /\ "groups" \in Churn
    /\ state[g] # s
    /\ state' = [state EXCEPT ![g] = s]
    /\ commits' = [commits EXCEPT ![g] = IF s = NoGroup THEN {} ELSE @]
    /\ UNCHANGED <<replicas, future, start, end, config, coordinator>>

\* Another broker takes the group over: its __consumer_offsets leader moved.
MoveCoordinator(g, b) ==
    /\ "coordinator" \in Churn
    /\ state[g] # NoGroup
    /\ coordinator[g] # b
    /\ coordinator' = [coordinator EXCEPT ![g] = b]
    /\ UNCHANGED <<replicas, future, start, end, config, state, commits>>

Commit(g, t) ==
    /\ "commit" \in Churn
    /\ Consuming(g) /\ Exists(t)
    /\ t \notin commits[g]
    /\ commits' = [commits EXCEPT ![g] = @ \cup {t}]
    /\ UNCHANGED <<replicas, future, start, end, config, coordinator, state>>

ClusterNext ==
    \/ \E t \in Topics :
          \/ DeleteTopic(t)
          \/ \E R \in (SUBSET Brokers) \ {{}} :
                \/ \E n \in 1 .. NumPartitions : CreateTopic(t, n, R)
                \/ \E p \in Partitions : AddPartition(t, p, R)
          \/ \E c \in Configs : AlterConfig(t, c)
    \/ \E tp \in TP :
          \/ Append(tp)
          \/ \E n \in 1 .. MaxEnd : Expire(tp, n)
          \/ \E R \in (SUBSET Brokers) \ {{}} : Reassign(tp, R)
          \/ \E b \in Brokers : MoveDir(tp, b)
    \/ \E g \in Groups :
          \/ \E s \in GroupStates \cup {NoGroup} : ChangeGroup(g, s)
          \/ \E b \in Brokers : MoveCoordinator(g, b)
          \/ \E t \in Topics : Commit(g, t)
=============================================================================
