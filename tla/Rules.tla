------------------------------- MODULE Rules -------------------------------
(***************************************************************************)
(* internal/rules.Evaluate: eight waste detectors over one snapshot, each    *)
(* finding with a saving in cents, ranked.  Sizes are GB, ingest is GB per   *)
(* unit of retention time.  A topic's name is kept as what the rules test:   *)
(* its Streams suffix, whether R6's pattern matches, and which group ids     *)
(* are prefixes of it.                                                       *)
(***************************************************************************)
EXTENDS CostModel

CONSTANTS
    Snapshots,      \* the snapshots evaluated: provider, topics, groups
    CostModels,     \* --provider and --cost: flag, monthly
    Cfg,            \* RuleConfig
    MonthUnits,     \* retention time units in a month
    MaxInt          \* the largest int64, scaled with the retention times

\* The fields the savings are computed from: sizes, counts and rates that are
\* not negative, times that fit in an int64, and one suffix per name.
IsTopic(t) ==
    /\ t.retained \in Nat /\ t.partitions \in Nat /\ t.bytesIn \in Nat
    /\ t.retention \in Int /\ t.retention <= MaxInt
    /\ t.lag \in Int /\ t.lag <= MaxInt
    /\ t.partitionBytes \in Seq(Int)

IsSnapshot(s) ==
    /\ DOMAIN s.topics = 1 .. Len(s.topics) /\ Len(s.topics) \in Nat
    /\ \A i \in DOMAIN s.topics : IsTopic(s.topics[i])
    /\ \A i, j \in DOMAIN s.topics :
           s.topics[i].name = s.topics[j].name => s.topics[i].suffix = s.topics[j].suffix

\* Of the configuration only DefaultConfig's values are ever used; the rules
\* rely on these relations between them.
ASSUME RulesAssumption ==
    /\ MonthUnits \in Nat \ {0}
    /\ MaxInt \in Nat \ {0}
    /\ \A s \in Snapshots : IsSnapshot(s)
    /\ \A c \in CostModels : c.monthly \in Int
    /\ Cfg.r3.multiplier \in Nat \ {0, 1} /\ Cfg.r3.floor \in Nat
    /\ Cfg.r4.minPartitions \in Nat /\ Cfg.r4.target \in Nat \ {0}
    /\ Cfg.r6.proposed \in Nat \ {0}
    /\ Cfg.r7.factor \in Nat /\ Cfg.r7.minPartitions \in Nat \ {0}
    /\ Cfg.r8.suffixes = {"changelog", "repartition"}

VARIABLES
    snap, cm,
    next,       \* index of the next rule of the registry
    found,      \* the findings so far
    ranked      \* the returned slice

vars == <<snap, cm, next, found, ranked>>

registry == <<"R1", "R2", "R3", "R4", "R5", "R6", "R7", "R8">>

RetainedOf(s) == SumFunction([i \in DOMAIN s.topics |-> s.topics[i].retained])
PartitionsOf(s) == SumFunction([i \in DOMAIN s.topics |-> s.topics[i].partitions])

\* cmdScan: the flag wins over the snapshot's provider.
Model(s, c) == [provider |-> IF c.flag = "" THEN s.provider ELSE c.flag,
                monthly |-> c.monthly, storage |-> 0, network |-> 0]

Prices(s, c) == Resolve(Model(s, c), RetainedOf(s))

\* round2, to the nearest cent.
round2(n, d) == (2 * n + d) \div (2 * d)

\* What n/d GB cost for a month of storage.
StorageCents(price, n, d) == round2(n * price.num, d * price.den)

\* at: the topic or group the finding is about, by its place in the snapshot.
Finding(rule, at, saving, proposed) ==
    [rule |-> rule, at |-> at, saving |-> saving, proposed |-> proposed]

streamsInternalSuffixes == {"changelog", "repartition"}
isStreamsInternal(t) == t.suffix \in streamsInternalSuffixes

(***************************************************************************)
(* The rules, over a snapshot s and its prices p.                            *)
(***************************************************************************)
\* Slips: an operator named Slip_... is its neighbour with a plausible mistake,
\* used to check that a property would notice it.
\* Slip: R1 also looks at Streams topics.
Slip_DeadStreams(t) == /\ t.bytesIn <= Cfg.r1.maxBytesIn
                       /\ t.active = 0
                       /\ t.retained >= Cfg.r1.minRetained

DeadTopic(t) == /\ ~isStreamsInternal(t)
                /\ t.bytesIn <= Cfg.r1.maxBytesIn
                /\ t.active = 0
                /\ t.retained >= Cfg.r1.minRetained

evalR1(s, p) ==
    {Finding("R1", i, StorageCents(p.storage, s.topics[i].retained, 1), 0) :
        i \in {j \in DOMAIN s.topics : DeadTopic(s.topics[j])}}

ZombieGroup(g) == g.state = "Empty" /\ g.age >= 0 /\ g.age >= Cfg.r2.minEmptyDays

evalR2(s, p) ==
    {Finding("R2", i, 0, 0) : i \in {j \in DOMAIN s.groups : ZombieGroup(s.groups[j])}}

\* Two's complement of the width of MaxInt.
Int64(n) == ((n + MaxInt + 1) % (2 * (MaxInt + 1))) - (MaxInt + 1)

\* Retention after the change: twice the lag, in int64, but not below the floor.
ProposedRetention(t) == Max({Cfg.r3.floor, Int64(2 * t.lag)})

\* The rate of the first topic of that name.
lookupBytesInPerSec(s, name) ==
    s.topics[Min({i \in DOMAIN s.topics : s.topics[i].name = name})].bytesIn

\* What t would still retain at the proposed retention.
Projected(s, t) == lookupBytesInPerSec(s, t.name) * ProposedRetention(t)

\* Slip: retention is compared with an integer multiple of the lag, which wraps.
Slip_IntMultiple(s, t) ==
    /\ t.retained >= Cfg.r3.minRetained
    /\ t.lag >= 0
    /\ t.retention < 0 \/ t.retention > Int64(Cfg.r3.multiplier * t.lag)
    /\ t.retention < 0 \/ ProposedRetention(t) < t.retention
    /\ Projected(s, t) < t.retained

\* Slip: the proposal is not compared with the current retention.
Slip_AnyProposal(s, t) ==
    /\ t.retained >= Cfg.r3.minRetained
    /\ t.lag >= 0
    /\ t.retention < 0 \/ t.retention > Cfg.r3.multiplier * t.lag
    /\ Projected(s, t) < t.retained

\* The lag is multiplied as a float, so only the proposal can wrap.
Overkill(s, t) ==
    /\ t.retained >= Cfg.r3.minRetained
    /\ t.lag >= 0
    /\ t.retention < 0 \/ t.retention > Cfg.r3.multiplier * t.lag
    /\ t.retention < 0 \/ ProposedRetention(t) < t.retention
    /\ Projected(s, t) < t.retained

evalR3(s, p) ==
    {Finding("R3", i,
             StorageCents(p.storage, s.topics[i].retained - Projected(s, s.topics[i]), 1),
             ProposedRetention(s.topics[i])) :
        i \in {j \in DOMAIN s.topics : Overkill(s, s.topics[j])}}

ProposedPartitions(t) ==
    Max({Cfg.r4.minPartitions,
         (t.bytesIn + Cfg.r4.target - 1) \div Cfg.r4.target})

OverPartitioned(t) ==
    /\ t.partitions > Cfg.r4.minPartitions
    /\ t.bytesIn < Cfg.r4.maxPerPartition * t.partitions
    /\ ProposedPartitions(t) < t.partitions

\* Slip: the slice is not spread over the partitions.
Slip_NotSpread(s, p, removed) ==
    round2(20 * RetainedOf(s) * p.storage.num * removed, 100 * p.storage.den)

\* Priced per partition on Confluent, else as 20% of the storage bill spread
\* over all partitions.  The provider is the snapshot's.
PartitionCents(s, p, removed) ==
    IF s.provider = "confluent" /\ Cfg.r4.confluentCents > 0
    THEN removed * Cfg.r4.confluentCents
    ELSE round2(20 * RetainedOf(s) * p.storage.num * removed,
                100 * p.storage.den * PartitionsOf(s))

evalR4(s, p) ==
    {Finding("R4", i,
             PartitionCents(s, p, s.topics[i].partitions - ProposedPartitions(s.topics[i])),
             ProposedPartitions(s.topics[i])) :
        i \in {j \in DOMAIN s.topics : OverPartitioned(s.topics[j])}}

uncompressedTypes == {"", "none", "uncompressed", "producer"}

Uncompressed(t) == t.bytesIn >= Cfg.r5.minBytesIn /\ t.compression \in uncompressedTypes

evalR5(s, p) ==
    {Finding("R5", i,
             round2(s.topics[i].bytesIn * MonthUnits * Cfg.r5.percent
                        * (p.storage.num + p.network * p.storage.den),
                    100 * p.storage.den), 0) :
        i \in {j \in DOMAIN s.topics : Uncompressed(s.topics[j])}}

OverReplicated(t) == t.rf >= Cfg.r6.trigger /\ Cfg.r6.proposed < t.rf /\ t.nonProd

evalR6(s, p) ==
    {Finding("R6", i,
             StorageCents(p.storage, s.topics[i].retained * (s.topics[i].rf - Cfg.r6.proposed),
                          s.topics[i].rf),
             Cfg.r6.proposed) :
        i \in {j \in DOMAIN s.topics : OverReplicated(s.topics[j])}}

\* sort.Slice of the sizes b: the i-th smallest has less than i smaller ones
\* before it and at least i that are not larger.
Sorted(b) ==
    [i \in DOMAIN b |->
        CHOOSE v \in {b[j] : j \in DOMAIN b} :
            /\ Cardinality({j \in DOMAIN b : b[j] < v}) < i
            /\ Cardinality({j \in DOMAIN b : b[j] <= v}) >= i]

\* Slip: the element before the middle.
Slip_LowMedian(sorted) == IF sorted = <<>> THEN 0 ELSE sorted[Max({1, Len(sorted) \div 2})]

medianInt64(sorted) ==
    LET n == Len(sorted)
    IN  IF n = 0 THEN 0
        ELSE IF n % 2 = 1 THEN sorted[n \div 2 + 1]
        ELSE (sorted[n \div 2] + sorted[n \div 2 + 1]) \div 2

Skewed(t) ==
    LET sizes == Sorted(t.partitionBytes)
        n     == Len(t.partitionBytes)
        med   == medianInt64(sizes)
    IN  /\ n >= Cfg.r7.minPartitions
        /\ t.retained >= Cfg.r7.minRetained
        /\ med > 0 /\ sizes[n] > Cfg.r7.factor * med

evalR7(s, p) ==
    {Finding("R7", i, 0, 0) : i \in {j \in DOMAIN s.topics : Skewed(s.topics[j])}}

hasOwningApp(t, groups) == \E i \in DOMAIN groups : groups[i].id \in t.prefixes

Orphaned(s, t) == /\ t.suffix \in Cfg.r8.suffixes
                  /\ t.retained >= Cfg.r8.minRetained
                  /\ ~hasOwningApp(t, s.groups)

evalR8(s, p) ==
    {Finding("R8", i, StorageCents(p.storage, s.topics[i].retained, 1), 0) :
        i \in {j \in DOMAIN s.topics : Orphaned(s, s.topics[j])}}

Eval(rule, s, p) ==
    CASE rule = "R1" -> evalR1(s, p) [] rule = "R2" -> evalR2(s, p)
      [] rule = "R3" -> evalR3(s, p) [] rule = "R4" -> evalR4(s, p)
      [] rule = "R5" -> evalR5(s, p) [] rule = "R6" -> evalR6(s, p)
      [] rule = "R7" -> evalR7(s, p) [] rule = "R8" -> evalR8(s, p)

(***************************************************************************)
(* Evaluate.                                                                 *)
(***************************************************************************)
Init ==
    /\ snap \in Snapshots /\ cm \in CostModels
    /\ next = 1 /\ found = {} /\ ranked = <<>>

EvalRule ==
    /\ next <= Len(registry)
    /\ found' = IF registry[next] \in Cfg.disabled THEN found
                ELSE found \cup Eval(registry[next], snap, Prices(snap, cm))
    /\ next' = next + 1
    /\ UNCHANGED <<snap, cm, ranked>>

\* Position of a rule in the registry: rule ids sort the same way.
RuleIndex(r) == CHOOSE i \in DOMAIN registry : registry[i] = r

\* Largest saving first, then rule id; the sort is stable, and the rules append
\* in the order of the snapshot.
Before(a, b) ==
    \/ a.saving > b.saving
    \/ a.saving = b.saving /\ \/ RuleIndex(a.rule) < RuleIndex(b.rule)
                              \/ a.rule = b.rule /\ a.at < b.at

Rank ==
    /\ next = Len(registry) + 1
    /\ ranked' = [i \in 1 .. Cardinality(found) |->
                     CHOOSE f \in found : Cardinality({g \in found : Before(g, f)}) = i - 1]
    /\ next' = next + 1
    /\ UNCHANGED <<snap, cm, found>>

Returned == next = Len(registry) + 2 /\ UNCHANGED vars

Next == EvalRule \/ Rank \/ Returned

Spec == Init /\ [][Next]_vars

(***************************************************************************)
(* Properties.                                                               *)
(***************************************************************************)
Of(rules) == {f \in found : f.rule \in rules}
Savings(rules) == SumFunction([f \in Of(rules) |-> f.saving])
TopicOf(f) == snap.topics[f.at]
StorageBill == StorageCents(Prices(snap, cm).storage, RetainedOf(snap), 1)

\* R1 and R8 recommend deleting a topic for the same bytes; no topic gets both
\* (r1_dead_topic.go:28-30, r8_internal.go:83-87).
NeverBothDeleted ==
    \A f \in Of({"R1"}) : \A h \in Of({"R8"}) : TopicOf(f).name # TopicOf(h).name

\* A retention the report proposes really shortens the topic's retention, keeps
\* more than every consumer's lag, respects the floor, and saves no more than
\* the topic's storage bill.  For a finite retention that holds at every lag:
\* the float comparison with LagMultiplier drops each topic whose doubled lag
\* would wrap.  For an infinite one nothing does, and the proposal is above the
\* lag only up to half of the int64 range (r3_retention.go:28-52).
ProposalSafe ==
    \A f \in Of({"R3"}) : LET t == TopicOf(f) IN
        /\ f.proposed >= Cfg.r3.floor
        /\ f.proposed >= t.lag \/ (t.retention < 0 /\ 2 * t.lag > MaxInt)
        /\ t.retention >= 0 => f.proposed < t.retention
        /\ f.saving <= StorageCents(Prices(snap, cm).storage, t.retained, 1)

\* Deleting everything that looks dead or orphaned never claims more than the
\* storage share of the monthly cost given with --cost, a cent of rounding per
\* finding aside (cost.go:74-79 with R1 and R8).
DeletionsWithinShare ==
    cm.monthly > 0 =>
        100 * Savings({"R1", "R8"}) <=
            Weights.storage * cm.monthly + 100 * Cardinality(Of({"R1", "R8"}))

\* Off Confluent, all partition findings together claim at most the 20% slice of
\* the storage bill, a cent of rounding per finding aside
\* (r4_partitions.go:67-83).
PartitionSlice ==
    snap.provider # "confluent" =>
        100 * Savings({"R4"}) <= 20 * StorageBill + 100 * (Cardinality(Of({"R4"})) + 1)

\* A skew finding means what it says: at least half of the partitions hold less
\* than the skew factor's share of the largest (r7_skew.go:32-38).
SkewIsReal ==
    \A f \in Of({"R7"}) :
        LET b == TopicOf(f).partitionBytes
            largest == Max({b[i] : i \in DOMAIN b})
        IN  2 * Cardinality({i \in DOMAIN b : Cfg.r7.factor * b[i] < largest}) >= Len(b)

(***************************************************************************)
(* What the report says and the code does not do.                            *)
(***************************************************************************)
\* report.go:21: the total is what is "recoverable" per month, so storage
\* findings cannot recover more than the storage costs.
Recoverable == Savings({"R1", "R3", "R6", "R8"}) <= StorageBill + Cardinality(found)
=============================================================================
