-------------------------------- MODULE Scan --------------------------------
(***************************************************************************)
(* `brod scan --bootstrap`: the rules that recommend deleting a topic (R1,   *)
(* dead; R8, orphaned) on the snapshot that Collect returned, compared with  *)
(* what the cluster really did meanwhile.  Collect does not look at names,   *)
(* so a topic is judged both as a plain one, by R1, and as a Streams         *)
(* internal one, by R8, with any set of groups whose ids are a prefix of it. *)
(***************************************************************************)
EXTENDS Collect

CONSTANTS
    MinRetained,    \* R1's and R8's MinRetainedBytes
    MaxBytesIn      \* R1's MaxBytesInPerSec, times the sample window

ASSUME ScanAssumption == MinRetained \in Nat \ {0} /\ MaxBytesIn \in Nat

\* evalR1's guards on a row of the snapshot; a rate that cannot be told is 0.
looksDead(row) == /\ row.bytesIn.num <= MaxBytesIn * row.bytesIn.den
                  /\ row.active = 0
                  /\ row.retained >= MinRetained

deadTopics == {t \in DOMAIN snap : looksDead(snap[t])}

\* mapGroups: the snapshot's groups are those of ListGroups, whatever they do.
mapGroups == {[id |-> g, state |-> groupInfo[g], lastCommitAgeDays |-> -1] :
                  g \in {h \in Groups : groupInfo[h] # NoGroup}}

\* Slip: an owner that has committed nothing is not one.  (As in Collect, an
\* operator named Slip_... is its neighbour with a plausible mistake.)
Slip_OwnerByCommits(owners) == \E g \in owners : committed[g] # {}

hasOwningApp(owners) == \E g \in mapGroups : g.id \in owners

\* evalR8 on topics with these owners.
orphanedTopics(owners) ==
    {t \in DOMAIN snap : snap[t].retained >= MinRetained /\ ~hasOwningApp(owners)}

\* Every record between the offsets is held by some directory that was sized;
\* the average size of a record is then no less than the real one.
Covered(t) == snap[t].retained >= totalRecords(t)

\* A topic reported dead from a sampled snapshot got no more bytes between the
\* two probes than R1 tolerates as broker-metadata noise; provided its
\* partitions and log starts did not change, neither probe lost an answer and
\* its records were all sized (r1_dead_topic.go:31-39 on collect.go:145-170).
DeadIsIdle ==
    phase = "done" /\ opts.window => \A t \in deadTopics \cap quiet :
        Complete(endOff, t) /\ Complete(endOff2, t) /\ Covered(t)
            => Ingress(t) <= MaxBytesIn

\* No topic reported dead was consumed all through the collection, except by a
\* group whose offsets an error hid, or whose coordinator moved while the
\* brokers were asked for their groups one by one
\* (r1_dead_topic.go:34 on collect.go:279-300, reads.go:214, 233-239).
DeadIsUnconsumed ==
    phase = "done" => \A t \in deadTopics, g \in settled : <<g, t>> \notin steady \ lost

\* No owner of a Streams topic reported as orphaned consumed anything all
\* through the collection, however it rebalanced and whichever offset fetches
\* failed: only the group list decides.  An owner whose coordinator moved while
\* the brokers were asked for their groups one by one may be missed
\* (r8_internal.go:33-43, 91-98 on collect.go:314-326, reads.go:214).
OrphanIsUnowned ==
    phase = "done" => \A owners \in SUBSET Groups :
        orphanedTopics(owners) # {} =>
            steady \cap ((owners \cap settled) \X Topics) = {}
=============================================================================
