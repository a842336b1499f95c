# brod-cli in TLA+

brod reads the metadata of a Kafka cluster, builds a snapshot of it, and
evaluates eight waste rules and a cost allocation on the snapshot. This
directory models that pipeline, checks it with TLC on small instances, and
proves with TLAPS, for every instance, every safety property that the passing
runs check, and the refinement.

Run a model with `tlc -config <run>.cfg <module>` and the proofs with
`tlapm <Module>Proofs.tla`; PROJECT.json lists which module goes with which cfg.

## Inventory

| Component | State it keeps | Operations | Interacts with |
|---|---|---|---|
| Kafka cluster (external) | topics, replicas, logs, configs, groups, commits, ACLs | everything other clients do | answers brod's requests |
| `internal/kafka/client.go` | the kgo client | `Connect`, `Close`, `saslMechanism` | opened and closed by `connectAndCollect` |
| `internal/kafka/reads.go` | none | `Brokers`, `Topics`, `TopicConfigs`, `LogDirSizes`, `StartOffsets`, `EndOffsets`, `Groups`, `CommittedOffsets` | called in sequence by `build` |
| `internal/kafka/readonly.go` | none | `CheckReadOnly`, `writeishViolation` | called by `enforceReadOnly` |
| `internal/collect` | the answers of one collection, then the snapshot | `build`, `ctxSleep`, mapping helpers | reads above; returns to the live path |
| `cmd/brod/live.go` | flags, the context and its deadline; the `--out` file | `connectAndCollect`, `enforceReadOnly`, `cmdCollect` | client, gate, collect; leaves a document for other commands |
| `internal/rules` | none (pure) | `Evaluate`, `evalR1` .. `evalR8` | snapshot + cost model in, findings out |
| `internal/cost` | none (pure) | `Resolve`, `Allocate` | unit prices for the rules; `brod cost` |
| `cmd/brod/cost.go` | team rules | `cmdCost`, `teamFor`, `renderTeams` | `Allocate` |
| `cmd/brod/main.go` | the bytes read, exit status | `main`, `cmdScan`, `cmdSample`, `readSnapshot` | reads what `cmdCollect` left, or the embedded demo |
| `cmd/brod/report.go` | none | `renderReport` | writes findings to stdout |

A brod process is sequential, so nothing in it runs concurrently with itself.
What is hard is that the snapshot is made of some ten requests, several of
which are many requests (one answer per broker, partition or group), while the
cluster belongs to others, and that it then passes through a file or a pipe to
another process:

- every read can be stale by the time the next one is answered: topics are
  deleted and recreated, logs grow and expire, replicas move, groups rebalance,
  empty, die, commit or disappear between two requests;
- one answer of several can be missing (a log directory, a partition's offset,
  a group's commits, an ACL filter), and the code skips it silently;
- the context can expire between any two requests, and two places turn its
  error into an ordinary "nothing there" (`CommittedOffsets`, `CheckReadOnly`);
- the file is truncated and rewritten in place, by a process that can be killed
  or find the disk full at any byte, while another one may be reading it;
- nothing on stdin is a failed producer at one time and "use the demo" at
  another;
- the rules then draw conclusions ("dead", "orphaned", "recoverable") that add
  up over the same bytes.

What makes each part correct: offsets that cannot contradict each other, a
throughput that counts only what was produced (which it does once per replica,
see below), consumer counts bounded on both sides, a collection that ends; a gate whose word can be relied on and a client
that is always released; a report about one whole document or an error, and an exit
status that says which; savings within what the cluster costs, proposals that
are safe to apply; an allocation that never charges more than there is. The
"hazards" of PROJECT.json place each of these at its line.

## Modules

| Module | Models |
|---|---|
| `Cluster` | the external cluster: eight variables and eleven kinds of step |
| `Collect` | `collect.build` over `kafka/reads.go`, extending `Cluster` |
| `Sampling` | abstract: what one read promises of a cluster that keeps changing |
| `CollectImpl` | the refinement mappings from `Collect` to `Sampling`, one per read |
| `Scan` | R1 and R8 on the snapshot that `Collect` returns: composes collection and rules |
| `Live` | `connectAndCollect`: flags, `Connect`, the ACL gate, `Build`'s outcome, `Close` |
| `Pipeline` | the commands as processes: `collect` writing a file or a pipe, `scan`, `cost` or `sample` reading it, the demo, exit status |
| `CostModel` | `internal/cost` and the team split as pure operators |
| `Cost` | `brod cost`: allocate, then render by topic or by team |
| `Rules` | `rules.Evaluate` with R1 to R8, extending `CostModel` |
| `CollectProofs` | theorems about `Collect`: offsets, deadline and failures |
| `CollectImplProofs` | theorems: `Collect` implements `Sampling` |
| `ScanProofs` | theorems about the snapshot and what is concluded from it: consumers, throughput, dead and orphaned topics |
| `LiveProofs`, `PipelineProofs`, `CostProofs`, `RulesProofs` | theorems about `Live`, `Pipeline`, `Cost` and `Rules` |
| `SumTheorems` | lemmas about sums over finite sets, largest and smallest elements |
| `MC*` | values of the constants for TLC |

An operator named `Slip_...` stands next to the definition it misquotes: it is
that definition with a plausible mistake, and PROJECT.json says which property
notices it.

### Cluster and Collect

A partition is a pair of topic and number. `replicas[tp] = {}` means it does not
exist. A topic may be found with partitions replicated alike or not, and
`Reassign` and `MoveDir` change that at any time. `coordinator[g]` is the broker
that answers for a group; `MoveCoordinator` changes it. A record is one byte, so a log's size is `end - start`; the average
record size is then 1 and every over-estimate shows as a ratio above it. A
broker's log directories hold its replicas and, while one is copied between
directories, a second entry marked as future.

`phase` is the read of `build` in progress; `After` is the order of its calls
(collect.go:73-133). Reads answered at once (`ReadBrokers`, `ReadTopics`,
`TopicConfigs`) are one action. Reads fanned out over brokers,
partitions or groups take one action per answer, with `todo` holding what is
still out; the cluster may change between two answers. kadm shards offset
requests by leader broker; one answer per partition allows every such sharding.
`kadm.ListGroups` asks every broker and merges the answers by group id, so
`ListGroups(b, kept)` is one broker's answer: the groups it coordinates now, of
which `kept` are those that an earlier answer named and whose earlier entry stays.
`LogDirSizes(b, unseen)` leaves out any part of what a broker holds, since a
directory that answers an error is skipped with its replicas.
`FetchOffsetsError` is the `continue` of reads.go:236, with the context's error
included; `RequestError` and `CtxError` are the early returns. `Finish` is the
whole mapping loop (collect.go:135-182). `offsetSpan` takes the partition that
Go's map iteration visits first as a free choice. Missing map entries are
`Absent`; where Go reads a missing entry as its zero value the model does too.

The snapshot row keeps the fields the rules use. The broker list, cluster name,
time stamp and cleanup policy are copied by the code and left out.

The history variables (`stable`, `quiet`, `held`, `appended`, `settled`, ...)
record what the cluster really did during the collection. A `quiet` topic is one
whose partitions and log starts stay; its replicas may move. No action of the code reads them.

### Sampling and CollectImpl

`Sampling` says of one read what a user of its answer may assume. Every item
(a partition's offset, a group's state, whether a group has committed on a
topic) has a value the cluster gave it at some moment while the read was in
progress and before the deadline; `status` says when that is. In a read with
`Once` a value is never revised, and the items of an atomic read are all of one
moment. It does not promise that an item is taken, nor that two reads agree: that is what
`OffsetsOrdered`, `DeltaSound` and the consumer properties are about.

`CollectImpl` instantiates it six times: the topic list with its replicas
(atomic), start offsets, end offsets, end offsets again, group states,
and commits. The group states are of several moments, and not `Once`: a group that
moves between two brokers' answers is in both, and either entry may stay. Commits are read as one Boolean per group and topic, so that
`FetchOffsetsError` and a group without commits are both "nothing taken".

### Scan

`Scan` judges a row twice, since `Collect` never looks at a name: as a plain
topic by R1, and as a Streams internal one by R8. `MaxBytesIn` is R1's tolerance
of 1 B/s, times the window: a topic with that little traffic is dead to the code. For R8 the groups whose ids
are a prefix of the name are any subset of the groups.

### Pipeline

A document is its bytes: `Size[d]` of JSON, then the line feed of live.go:186.
A byte is the pair of its document and its position, so a file can hold pieces
of two documents. `Unmarshals` is what `json.Unmarshal` makes of such bytes: one
value that closes at its last byte, white space after it, anything else is an
error. Two documents of one size have the same layout, and bytes of both at the
right positions do parse: the worst case for the reader.

`StartCollect` to `Kill` are `cmdCollect`. `connectAndCollect` is its outcome
(`CollectOK`, `CollectError`); `Live` has its steps. `os.WriteFile` is `OpenOut`
(create or truncate), then `Write`s of any number of bytes, then `WriteDone`;
`OpenError`, `WriteError` and `Kill` can come at any byte. Collects run one
after the other; with a pipe, the shell has started one, and it writes stdout.

`Dispatch` to `Render` are the reading command. `cmd` is what its command line,
stdin and stdout are as far as the code tests it. `Read(n)` appends some of the
bytes that are there; `EndOfInput` is possible when all were read and, on a pipe,
the producer has ended. `Render` is the whole output, of text, JSON, or cost.
`rewritten` is a history variable: the file was truncated during the read.

### Live

The flags are kept as what the code tests about them: a bootstrap that is blank,
only commas, or has hosts; a SASL mechanism that is absent, known or unknown;
credentials found or not. `Build` is abstracted to its outcome: it cannot succeed
on an expired context, since its first read needs one (`Collect` has its steps).
`CheckReadOnly(failed)` takes the set of ACL filters that answered with an error.
An ACL entry keeps principal, permission, operation and resource type.

### CostModel, Cost, Rules

Euros are cents and bytes are GB. Quotients are pairs of numerator and
denominator, so that nothing is rounded but what `round2` rounds. Throughput in
`Cost` is the sum of bytes in and out. In `Rules` `Int64` wraps R3's
product at `MaxInt`; R3's other product is a float in the code and does not
wrap. A topic's name is kept as what the rules test about it: its Streams suffix, whether R6's pattern matches, and
the group ids that are a prefix of it. A finding names its topic or group by
its place in the snapshot, so `found` is a set; `Rank` orders it the way the
stable sort does, by saving, rule, and place. `Sorted` states what `sort.Slice`
does to R7's sizes by order statistics. Titles, evidence, severities, basis
labels and remediation texts are left out.

## Runs

Passing runs:

| Run | Shows |
|---|---|
| `collect_offsets` | `TypeOK`, `OffsetsOrdered`, `DeltaSound`, and the refinement `OffsetReads`, with topics deleted, recreated, extended, written and expired, partition answers lost |
| `scan_bytes` | `EstimateBounded`: the throughput estimate of a topic whose partitions and log starts stay is at most what was appended, once per broker that held a copy, while replicas are reassigned and copied and directories missing; `DeadIsIdle`: "dead" on a sampled snapshot means no more traffic between the probes than R1 tolerates |
| `collect_groups` | `ConsumersCounted`, `NoGhostConsumers`, `SampledNotLate`, `DeadIsUnconsumed`, `OrphanIsUnowned`, and the refinement `GroupReads`, with a group changing state, coordinator and commits between the brokers' answers and after them, fetches failing in whole or in part |
| `collect_live` | `Returns`: the collection ends though brokers may stop answering; `FailureHasCause`: it fails only for a request, the deadline, or the deletion of a topic it would have reported; internal topics included and dropped, configs changing |
| `live_gate` | the banner, client, gate and termination properties of the live path |
| `pipeline` | `SuccessIsStored`, `WholeOrError`, `DemoUnasked`, `ExitHonest`, `KeepsOld`, `Ends` for every source, kind of stdin and device, with collects killed or failing at any byte before, during and after the read |
| `cost_split` | `SplitExact`, `TeamsConserve` for up to three topics and overlapping team rules |
| `rules_evaluate` | `NeverBothDeleted`, `ProposalSafe`, `DeletionsWithinShare`, `PartitionSlice`, `SkewIsReal` |

Runs that show where words of the code and the code disagree (details and
quotations under "findings" in PROJECT.json):

| Run | The code's words | What happens |
|---|---|---|
| `collect_late` | "a group can vanish ...; tolerate it" | an expired context is tolerated too: consumers are lost silently |
| `collect_ingress` | "approximates ingress", "avg_record_bytes = RetainedBytes / Σ(end-start)" | retained bytes are those of all replicas, records are counted once: the estimate is RF times the ingress |
| `live_failclosed` | "fail closed if the credential has detectable ... ACLs" | proceeds when another ACL filter failed |
| `rules_recoverable` | "up to ... recoverable" | more than the storage bill: R6 and R1 or R8 bill the same bytes |

Smaller disagreements met while translating the code. The models follow the
code in each of them; no run is kept for them:

- collect.go:256 "min start across partitions": `EarliestOffset` stays 0 if the
  partition the map iteration visits first has no start offset.
- collect.go:341 "produced in window": the first end probe precedes the group
  reads, so the delta covers more time than the window it is divided by.
- reads.go:146 "brod never fails closed on a read": one topic deleted between
  `Topics` and `TopicConfigs` fails the collection.
- reads.go:72 "taken from partition 0's replica count": it is the largest count.
- collect.go:233 "the distribution ... is preserved": not while a reassignment
  gives the partitions different numbers of replicas.
- r1_dead_topic.go:46 "no traffic": with `--sample-window 0` it means unmeasured,
  and with a window it tolerates up to 1 B/s (`DeadIsIdle` says how much).
- reads.go:210 "returns all consumer groups": every broker is asked in a request
  of its own, and a group whose coordinator moves in between may be in none of the
  answers. `ConsumersCounted`, `DeadIsUnconsumed` and `OrphanIsUnowned` are about
  groups whose coordinator stays meanwhile (`settled`); without that proviso a
  consumed topic can be counted as unconsumed.
- cost.go:123 "splits the cluster's MonthlyCostEUR": without throughput 60% of it
  (`SplitExact` says exactly how much).
- live.go:114 "credential is NOT read-only": `CheckReadOnly` looks at the ALLOW
  entries of every principal, so another application's grant refuses a read-only
  credential.
- readonly.go:30 "flags any that exceed read-only metadata access": grants of
  CLUSTER_ACTION or IDEMPOTENT_WRITE are not flagged. `PassedIsClean` is about
  the operations readonly.go:23-26 names.
- report.go:19 "[demo snapshot ...]": only scan's text says so. `cost` and both
  JSON outputs present the demo's figures without a label.
- A pipe whose producer failed delivers nothing, which is how the code tells that
  no source was given: scan then reports on the demo (`DemoUnasked` allows it).
- `scan > file` on a full device exits with 0: `renderReport` looks at no write
  error. The JSON outputs do (`ExitHonest`).
- A collect that rewrites the file during a scan: when the file is truncated
  after the scan has read part of it, pieces of two documents may parse.
  `WholeOrError` without its proviso `~rewritten` is violated by that behaviour.
- r3_retention.go:37: with infinite retention, a lag above half the int64 range in
  a hand-made snapshot wraps when doubled, and the proposal falls below the lag;
  `ProposalSafe` names that exception. Collected snapshots have no lag.
- live.go:88 "provider is applied at render/cost time": R4 reads the snapshot's
  provider, always "self" when collected.

### Bounds

- `MaxEnd` (2 where offsets matter): one value would let a log be empty or not;
  two separate "expired in part", "expired in full" and "grown since the probe".
  In `scan_bytes` it is 4, so that deltas lie on both sides of the tolerance
  `MaxBytesIn` = 1 while records are there to take an average of.
- `MaxChanges` (2 to 4): cluster steps per collection. Four allow delete,
  recreate, append and append or expire between two probes.
- `Churn`, `Faults`, `Options`: each run enables the kinds of change and failure
  that its question depends on; together the runs enable all of them.
- One topic and one or two partitions, brokers and groups: the reads treat
  topics independently, and two of the rest are enough for answers to be taken
  on both sides of a change. A second topic is used where internal topics matter.
- `collect_groups` has one group on two brokers: the count of a topic is a sum over
  groups that are read independently, so what can go wrong with one of them shows
  there; the theorems are about any number. Nothing in it tells the two brokers
  apart, so it uses them as a symmetry set; no other run uses symmetry.
- `scan_bytes` has one partition on two brokers: the estimate adds up partitions,
  and the proofs show that the sum keeps the bound.
- `Rules` scales the thresholds of `RuleConfig` down to single digits and takes
  snapshots with values on both sides of each, crossed with both providers and
  with and without a monthly cost. `MonthUnits` is the length of a month.
- `MaxInt` is 15 where lags go up to 9, so that twice a lag wraps.
- `Size` is 1 to 3 bytes of JSON, two documents of one layout and one of another;
  the file starts absent, empty, whole (either layout) or cut off after one byte. This
  lets a write be shorter or longer than what it replaces and a read meet every
  boundary. `MCCommands` are the command lines that differ in what they do.
- `MaxCollects` is 2: one collect before or during the read, one after it fails
  or in the same read.
- `live_gate` takes six ACL entries: two principals, both permissions, topic,
  group and cluster resources, operations inside and outside the gate's list.
- `rules_recoverable` uses `CollectedSnapshots`, what `collect.build` can
  return: lag and commit age unknown, provider "self".

### Fairness

The deadline of `context.WithTimeout` comes (`WF(Deadline)`); a request, or the
timer of `ctxSleep`, on a context that is done returns; the code takes its own
next step. Nothing is assumed of brokers: answers have no fairness, so a cluster
may stay silent for ever. `Returns` therefore rests on the deadline alone, and
fails without it.

In `Pipeline` each process takes its own next step; a read or write that can
make progress does, with any result; a collection returns (`Returns` of `Live`,
checked there). A read of the terminal is not fair, since it waits for a person,
and nobody has to start a collect. `Ends` thus rests, on a pipe, on the producer
ending.

## Proofs

All theorems hold for any values of the constants that satisfy the named
assumptions: `ClusterAssumption` and `CollectAssumption` (finite sets, at least
one partition, natural bounds), `AclsAssumption` (an entry allows or denies),
`PipelineAssumption` (the demo is no collected document, documents are not
empty, the file starts as what a collect can have left), `CostAssumption`
(figures are integers) and `RulesAssumption`: sizes, counts and rates of a
snapshot are not negative, times fit in an int64, the Streams suffix is a
function of the name, and of the thresholds what `DefaultConfig` satisfies and
the rules rely on (a lag multiplier of at least 2, a target per partition that
can be divided by). A snapshot may list a name twice. None of them bounds a
number of topics, groups, partitions or bytes.

| Module | Theorems (`Spec => []P` or `Spec => P`) |
|---|---|
| `CollectProofs` | `TypeCorrect`, `OffsetsStayOrdered`, `DeltaIsSound`, `SampledSnapshotNotLate`, `FailureIsExplained` |
| `CollectImplProofs` | `OffsetReadsHold`, `GroupReadsHold`: the refinements |
| `ScanProofs` | `NoGhostIsCounted`, `SteadyIsCounted`, `DeadTopicsAreUnconsumed`, `EstimateIsBounded`, `DeadTopicsAreIdle`, `OrphansAreUnowned` |
| `LiveProofs` | `TypeCorrect`, `ClientIsReleased`, `BannerComesFirst`, `PassedGateIsClean`, `BlindGateEndsInError` |
| `CostProofs` | `SplitIsExact`, `TeamsAreConserved` |
| `RulesProofs` | `NoTopicIsDeletedTwice`, `ProposalsAreSafe`, `DeletionsAreWithinShare`, `PartitionsAreSliced`, `SkewsAreReal` |
| `PipelineProofs` | `TypeCorrect`, `SuccessIsComplete`, `OldIsKept`, `ReportIsWhole`, `ExitIsHonest`, `DemoIsUnasked` |

### Collect

*Types.* A replica's size `end - start` is a natural number only because no log
ends before it starts, so `Typed` adds `LogOrder` to `TypeOK`. `ClusterStep`
shows that a change of the cluster keeps both, and that on a partition which
exists before and after it both offsets only grow.

*Probes.* `OffsetsOrdered` and `DeltaSound` compare answers of different times,
so neither is inductive. `ProbeInv` adds what connects them: a partition still
waited for has no answer yet (`ProbedOnce`); the recorded start of a topic that
was not deleted is at or behind the log's start now (`StartsBehind`); between
the probes the log is at most `appended` past the first probe, exactly so if the
topic was not deleted (`EndsCounted`). A cluster step keeps these by
`ClusterStep`; a probe turns `StartsBehind` into `OffsetsOrdered` and
`EndsCounted` into `DeltaSound`. That start offsets are asked for first enters
through `After`.

*Deadline.* `LateInv`: a fetch only fails for the context once the context is
done, contexts stay done, and with a sample window a collection in that state
can only be in `committed`, `sleep`, `end2` or `failed`. Go's select may let
`ctxSleep` pass on a context that is done as well; the second probe then does not.

*Failures.* `FailInv` adds `ListedStays`: what was listed of a topic that was not
deleted is still there, so `TopicConfigs` can only miss a deleted topic.

*Refinement.* Each mapping needs that an item still waited for has not been
taken and that a phase before a read holds nothing of it (`TakenOnce`).
`PhaseAdvances` shows that phases only move on, so that a read's status goes from
waiting to reading to over and never back. `StepKind` sorts the steps of `Collect`
into those that answer, those of the cluster, the deadline and the ends; one lemma
per mapping then shows that an answer is a `Take` within its read and that every
other step leaves its sample alone.

*Consumers.* `activeConsumers` is the cardinality of a set of groups, so both
bounds follow from inclusions of finite sets. `SeenInv`: a group whose commits or
state were recorded had them at some moment (`tracked`, `consumed`). `SteadyInv`:
a steady group has never been anything but active and committed, so whatever was
recorded of it says so; and if its coordinator stayed, it is recorded once that
broker has answered (`Asked`), since the answer names every group it coordinates.
`RowInv` says that the snapshot's counts are taken from
those reads. `DeadIsUnconsumed` follows because a topic without a count has no such
group, and `OrphanIsUnowned` because a steady owner is in the group list, and R8
looks at nothing else.

*Throughput.* `EstimateBounded` relates the snapshot to two answers that are
older than it: the sizes of the log directories and the first end probe.
`BytesInv` keeps, of a topic whose partitions and log starts stay (`quiet`): it was
listed with the partitions it has (`LayoutKept`); a broker answers once, with at
most one size for a partition (`DirsOnce`); a size is one of a broker that held a
copy, and at most what the log holds now and what it held at the first end probe
(`DirsFit`); a start offset that was read is still the start (`QuietProbes`).
Summed over partitions and brokers this bounds `retained` by `Copies` times the
records probed. `EstimateInv` adds that the row was computed from those answers
(`RowBytes`) and the probes' `ProbeInv`. `Copies` cannot be 1 in the bound: see
`collect_ingress`. `DeadIsIdle` is the converse: with both probes complete the delta
is all that was appended (`DeltaIsIngress`), and a rate within the tolerance, taken
at an average record size that is not too small (`Covered`), leaves a delta within
it (`WithinTolerance`).

### Sums

The models add up with the community modules' folds. `SumTheorems` unfolds such a
sum by one element and shows the rest by induction over the subsets of a finite
set. That induction is first-order: the subsets that satisfy the claim form a
set `G`, every subset whose one-smaller subsets are in `G` is in `G`, so `G` is
everything (`SubsetInduction`, from the well-foundedness of the strict subset
order). No operator is passed to a theorem. `SumByClass` (adding up class by
class) and `SumPlaced` (one element per place) are what the allocation and the
savings need.

### Cost and Rules

Both evaluate once, so their invariants say what was computed, and the work is
arithmetic. `CostInv`: the charges are `Allocate`'s, the teams are `eurByTeam`'s.
A driver's shares add up to its weight times its total; a driver nobody uses has
total and shares zero (`SplitIsExact`). The teams partition the topics, since
`teamFor` gives each topic one team (`TeamsAreConserved`).

`RulesInv` says that `found` holds only findings of the eight rules on this
snapshot. `NoTopicIsDeletedTwice` then rests on the suffix test in both rules.
`NoWrap`: a doubled lag that passes R3's float comparison with a finite retention
does not wrap, because the multiplier is at least 2. `SavingsBound` adds up
rounded savings of findings at distinct places; with the price of a GB being the
storage share divided by what is retained, it gives `DeletionsAreWithinShare`
(R1 and R8 never share a place) and `PartitionsAreSliced`. For `SkewsAreReal`,
`SortedAt` shows that the sort has a value at each place, and
`HalfUpToMedian` that at least half of the sizes are up to the median, of which
the largest is more than the skew factor's multiple.

### Live

`ReleaseInv` says that there is no client before `Connect` and that the banner is
out from then on. `GateInv` says what each phase may assume: no verdict before
`enforceReadOnly`; a complete answer lists everything excessive it held
(`ListedAll`); `blind` implies `expired`, and an expired `build` can only fail.

### Pipeline

`StoreInv`: while a collect writes, the destination holds exactly the first
`written` bytes of its document: `OpenOut` has truncated the file, so what it
replaces does not matter. `ReaderInv`: what the reader has is a prefix of what is
there, unless the file was truncated meanwhile; and what is there is, in a file,
always a prefix `Left(d, n)` of one document. Bytes of one document that
`Unmarshals` accepts are whole, because only its last byte closes a value.
`DemoInv` follows `usedDemo` from the two places that set it; an empty pipe at its
end stays empty, and its writer, having written nothing, cannot succeed.

### Only model-checked

Liveness (`Returns` of both modules, `Ends`): it rests on fairness and ENABLED,
which TLAPS does not handle. The four runs that show a disagreement are
counterexamples, found by TLC. `Rank` is only exercised: no property is about the
order of the findings.

## Not modelled

- Layout and wording of reports, error texts, credential redaction, TLS options,
  parsing of flags and of `--team` expressions: formatting, or text substitution.
- What decoding makes of a hand-made document that is valid JSON but no snapshot:
  absent fields become zero values, which the runs of `Rules` include.
- Two collects writing one file at the same time, and a reader across such: the
  code takes no lock, and no property of it is promised anywhere.
- Floating point: euros are exact cents and quotients. The one product in int64
  that a snapshot can overflow is modelled at its width (`Int64`).
- Leader changes that truncate a log, and writes that a machine crash loses after
  the process has exited: offsets only grow while a partition exists, and what
  `write` accepted is in the file. `Kill` ends a process, not a machine.
- Brokers that predate group states answer `""` for all groups; the state is
  explored, and taken as not consuming.
- Static guard and purity tests: no behaviour.

## Plan

Done: the modules and theorems above. What would add to them:

1. `Live` composed with `Collect` instead of an abstract `Build`, so that the
   gate, the collection and `Close` share one deadline and one cluster, with the
   theorems of both carried over.
2. The ranking: that `Rank` returns every finding once, in an order a second
   evaluation repeats.
