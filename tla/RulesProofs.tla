----------------------------- MODULE RulesProofs -----------------------------
(***************************************************************************)
(* Proofs about the rules, for any snapshots, any --provider and --cost and   *)
(* any thresholds that RulesAssumption allows: no topic is deleted twice, a   *)
(* retention proposal is safe, the savings stay within the share of the bill  *)
(* they come from, and a skew finding is one.                                 *)
(***************************************************************************)
EXTENDS Rules, SumTheorems

\* All that the rules find in a snapshot.
Findings(s, c) == UNION {Eval(registry[i], s, Prices(s, c)) : i \in DOMAIN registry}

\* Evaluate only ever collects those.
RulesInv ==
    /\ snap \in Snapshots /\ cm \in CostModels
    /\ next \in Nat \ {0}
    /\ found \subseteq Findings(snap, cm)

LEMMA RulesInvariant == Spec => []RulesInv
<1>1. Init => RulesInv
  BY DEF Init, RulesInv
<1>2. RulesInv /\ [Next]_vars => RulesInv'
  <2> SUFFICES ASSUME RulesInv, [Next]_vars PROVE RulesInv'
      OBVIOUS
  <2>1. CASE EvalRule
    <3>1. next \in DOMAIN registry
      BY <2>1 DEF EvalRule, RulesInv, registry
    <3>2. Eval(registry[next], snap, Prices(snap, cm)) \subseteq Findings(snap, cm)
      BY <3>1 DEF Findings
    <3>3. UNCHANGED <<snap, cm>> /\ next' = next + 1
          /\ found' \in {found, found \cup Eval(registry[next], snap, Prices(snap, cm))}
      BY <2>1 DEF EvalRule
    <3>4. Findings(snap, cm)' = Findings(snap, cm)
      BY <3>3
    <3> QED BY <3>2, <3>3, <3>4 DEF RulesInv
  <2>2. CASE Rank
    <3>1. UNCHANGED <<snap, cm, found>> /\ next' = next + 1
      BY <2>2 DEF Rank
    <3>2. Findings(snap, cm)' = Findings(snap, cm)
      BY <3>1
    <3> QED BY <3>1, <3>2 DEF RulesInv
  <2>3. CASE Returned \/ UNCHANGED vars
    <3>1. UNCHANGED <<snap, cm, found, next>>
      BY <2>3 DEF Returned, vars
    <3>2. Findings(snap, cm)' = Findings(snap, cm)
      BY <3>1
    <3> QED BY <3>1, <3>2 DEF RulesInv
  <2> QED BY <2>1, <2>2, <2>3 DEF Next
<1> QED BY <1>1, <1>2, PTL DEF Spec

\* A finding is its own rule's.
LEMMA FindingOfRule ==
    ASSUME NEW s, NEW c, NEW f \in Findings(s, c)
    PROVE  /\ f.rule = "R1" => f \in evalR1(s, Prices(s, c))
           /\ f.rule = "R3" => f \in evalR3(s, Prices(s, c))
           /\ f.rule = "R4" => f \in evalR4(s, Prices(s, c))
           /\ f.rule = "R7" => f \in evalR7(s, Prices(s, c))
           /\ f.rule = "R8" => f \in evalR8(s, Prices(s, c))
<1> DEFINE p == Prices(s, c)
<1> HIDE DEF p
<1>1. PICK i \in DOMAIN registry : f \in Eval(registry[i], s, p)
  BY DEF Findings, p
<1>2. registry[i] \in {"R1", "R2", "R3", "R4", "R5", "R6", "R7", "R8"}
  BY DEF registry
<1>3. CASE registry[i] = "R1"
  BY <1>1, <1>3 DEF Eval, evalR1, Finding, p
<1>4. CASE registry[i] = "R2"
  BY <1>1, <1>4 DEF Eval, evalR2, Finding
<1>5. CASE registry[i] = "R3"
  BY <1>1, <1>5 DEF Eval, evalR3, Finding, p
<1>6. CASE registry[i] = "R4"
  BY <1>1, <1>6 DEF Eval, evalR4, Finding, p
<1>7. CASE registry[i] = "R5"
  BY <1>1, <1>7 DEF Eval, evalR5, Finding
<1>8. CASE registry[i] = "R6"
  BY <1>1, <1>8 DEF Eval, evalR6, Finding
<1>9. CASE registry[i] = "R7"
  BY <1>1, <1>9 DEF Eval, evalR7, Finding, p
<1>10. CASE registry[i] = "R8"
  BY <1>1, <1>10 DEF Eval, evalR8, Finding, p
<1> QED BY <1>2, <1>3, <1>4, <1>5, <1>6, <1>7, <1>8, <1>9, <1>10

\* R1 and R8 share out the topics by the suffix of their names
\* (r1_dead_topic.go:28-30, r8_internal.go:83-87).
THEOREM NoTopicIsDeletedTwice == Spec => []NeverBothDeleted
<1>1. ASSUME RulesInv, NEW f \in Of({"R1"}), NEW h \in Of({"R8"})
      PROVE  TopicOf(f).name # TopicOf(h).name
  <2>1. f \in Findings(snap, cm) /\ f.rule = "R1" /\ h \in Findings(snap, cm) /\ h.rule = "R8"
    BY <1>1 DEF RulesInv, Of
  <2>2. f \in evalR1(snap, Prices(snap, cm)) /\ h \in evalR8(snap, Prices(snap, cm))
    BY <2>1, FindingOfRule
  <2>3. f.at \in DOMAIN snap.topics /\ DeadTopic(snap.topics[f.at])
    BY <2>2 DEF evalR1, Finding
  <2>4. h.at \in DOMAIN snap.topics /\ Orphaned(snap, snap.topics[h.at])
    BY <2>2 DEF evalR8, Finding
  <2>5. snap.topics[f.at].suffix # snap.topics[h.at].suffix
    BY <2>3, <2>4, RulesAssumption
       DEF DeadTopic, Orphaned, isStreamsInternal, streamsInternalSuffixes
  <2> QED BY <1>1, <2>3, <2>4, <2>5, RulesAssumption DEF TopicOf, RulesInv, IsSnapshot
<1>2. RulesInv => NeverBothDeleted
  BY <1>1 DEF NeverBothDeleted
<1> QED BY <1>2, RulesInvariant, PTL

-----------------------------------------------------------------------------
(* Rounding and prices.                                                      *)

\* The nearest cent is at most half a cent away.
LEMMA Rounded ==
    ASSUME NEW n \in Int, NEW d \in Nat \ {0}
    PROVE  /\ round2(n, d) \in Int
           /\ 2 * d * round2(n, d) <= 2 * n + d
           /\ 2 * n - d <= 2 * d * round2(n, d)
<1> DEFINE e == 2 * d
           a == 2 * n + d
           q == a \div e
<1>1. e \in Nat \ {0} /\ a \in Int
  OBVIOUS
<1>2. q \in Int /\ e * q <= a /\ a < e * q + e
  <2> HIDE DEF e, a
  <2> QED BY <1>1
<1>3. round2(n, d) = q
  BY DEF round2
<1>4. 2 * n - d <= e * q
  <2> DEFINE m == e * q
  <2>1. m \in Int /\ a < m + e
    <3> HIDE DEF e, q, a
    <3> QED BY <1>1, <1>2
  <2> HIDE DEF m, q
  <2> QED BY <2>1 DEF m
<1> QED BY <1>2, <1>3, <1>4

LEMMA RoundMonotone ==
    ASSUME NEW n \in Int, NEW m \in Int, n <= m, NEW d \in Nat \ {0}
    PROVE  round2(n, d) <= round2(m, d)
<1> DEFINE e == 2 * d
           a == 2 * n + d
           b == 2 * m + d
           q == a \div e
           r == b \div e
<1>1. e \in Nat \ {0} /\ a \in Int /\ b \in Int /\ a <= b
  OBVIOUS
<1>2. round2(n, d) = q /\ round2(m, d) = r
  BY DEF round2
<1> HIDE DEF e, a, b
<1>3. q \in Int /\ e * q <= a /\ r \in Int /\ b < e * r + e
  BY <1>1
<1> HIDE DEF q, r
<1>4. SUFFICES ASSUME r + 1 <= q PROVE FALSE
  BY <1>2, <1>3
<1>5. e * (r + 1) <= e * q
  BY <1>1, <1>3, <1>4, MulMonotone
<1>6. e * (r + 1) = e * r + e
  BY <1>1, <1>3
<1> QED BY <1>1, <1>3, <1>5, <1>6

LEMMA TopicTyped ==
    ASSUME NEW s \in Snapshots, NEW i \in DOMAIN s.topics
    PROVE  IsTopic(s.topics[i])
BY RulesAssumption DEF IsSnapshot

\* Sums over the topics of a snapshot are of natural numbers.
LEMMA TopicsFinite ==
    ASSUME NEW s \in Snapshots
    PROVE  IsFiniteSet(DOMAIN s.topics) /\ DOMAIN s.topics \subseteq Nat \ {0}
<1>1. DOMAIN s.topics = 1 .. Len(s.topics) /\ Len(s.topics) \in Nat
  BY RulesAssumption DEF IsSnapshot
<1>2. \A n \in Nat : IsFiniteSet(1 .. n) /\ 1 .. n \subseteq Nat \ {0}
  BY FS_Interval
<1> QED BY <1>1, <1>2, Zenon

LEMMA TotalsTyped ==
    ASSUME NEW s \in Snapshots
    PROVE  RetainedOf(s) \in Nat /\ PartitionsOf(s) \in Nat
<1> DEFINE r == [i \in DOMAIN s.topics |-> s.topics[i].retained]
           p == [i \in DOMAIN s.topics |-> s.topics[i].partitions]
<1>1. \A i \in DOMAIN s.topics : r[i] \in Nat /\ p[i] \in Nat
  BY TopicTyped DEF IsTopic
<1>2. DOMAIN r = DOMAIN s.topics /\ DOMAIN p = DOMAIN s.topics
  OBVIOUS
<1>3. SumFunctionOnSet(r, DOMAIN s.topics) \in Nat /\ SumFunctionOnSet(p, DOMAIN s.topics) \in Nat
  <2> HIDE DEF r, p
  <2> QED BY <1>1, TopicsFinite, SumNat
<1> QED BY <1>2, <1>3 DEF RetainedOf, PartitionsOf, SumFunction

\* A price is a quotient of natural numbers; with --cost, the storage share of
\* the cost over what is retained.
LEMMA PricesTyped ==
    ASSUME NEW s \in Snapshots, NEW c \in CostModels
    PROVE  LET storage == Prices(s, c).storage
           IN  /\ storage.num \in Nat /\ storage.den \in Nat \ {0}
               /\ c.monthly > 0 /\ RetainedOf(s) > 0 =>
                      /\ storage.num = c.monthly * 40
                      /\ storage.den = 100 * RetainedOf(s)
<1> DEFINE cm0 == Model(s, c)
           R == RetainedOf(s)
<1>1. R \in Nat /\ c.monthly \in Int
  BY TotalsTyped, RulesAssumption
<1>2. cm0.storage = 0 /\ cm0.monthly = c.monthly
  BY DEF Model
<1>3. Prices(s, c).storage = IF c.monthly > 0 /\ R > 0
                             THEN Quot(c.monthly * Weights.storage, 100 * R)
                             ELSE Quot(providerPreset(cm0.provider).storage, 1)
  BY <1>2 DEF Prices, Resolve
<1>4. providerPreset(cm0.provider).storage \in Nat
  BY DEF providerPreset
<1>5. Weights.storage = 40
  BY DEF Weights
<1> QED BY <1>1, <1>3, <1>4, <1>5 DEF Quot

-----------------------------------------------------------------------------
(* R3: the proposed retention.                                               *)

\* Doubling a lag of at most half of the range does not wrap.
LEMMA NoWrap ==
    ASSUME NEW n \in Nat, n <= MaxInt
    PROVE  Int64(n) = n
<1> DEFINE m == MaxInt + 1
           x == n + m
<1>1. MaxInt \in Nat \ {0}
  BY RulesAssumption
<1>2. x \in Nat /\ 2 * m \in Nat \ {0} /\ x < 2 * m /\ m \in Nat
  BY <1>1
<1>3. \A a, b \in Nat : b # 0 /\ a < b => a % b = a
  OBVIOUS
<1>4. x % (2 * m) = x
  <2> DEFINE k == 2 * m
  <2>1. k \in Nat /\ k # 0 /\ x \in Nat /\ x < k
    BY <1>2
  <2> HIDE DEF x, k
  <2>2. x % k = x
    BY <1>3, <2>1
  <2> QED BY <2>2 DEF k
<1>5. Int64(n) = (x % (2 * m)) - m
  BY <1>1 DEF Int64
<1> HIDE DEF m
<1> QED BY <1>2, <1>4, <1>5

\* The rate a topic is projected with is one of the snapshot's.
LEMMA LookupTyped ==
    ASSUME NEW s \in Snapshots, NEW i \in DOMAIN s.topics
    PROVE  lookupBytesInPerSec(s, s.topics[i].name) \in Nat
<1> DEFINE S == {j \in DOMAIN s.topics : s.topics[j].name = s.topics[i].name}
<1>1. S \in SUBSET Int /\ IsFiniteSet(S) /\ S # {}
  BY TopicsFinite, FS_Subset
<1>2. Min(S) \in S
  <2> HIDE DEF S
  <2> QED BY <1>1, MinIsSmallest
<1>3. Min(S) \in DOMAIN s.topics
  BY <1>2
<1>4. lookupBytesInPerSec(s, s.topics[i].name) = s.topics[Min(S)].bytesIn
  BY DEF lookupBytesInPerSec
<1> HIDE DEF S
<1> QED BY <1>3, <1>4, TopicTyped DEF IsTopic

\* A retention that R3 proposes shortens the topic's, covers the lag unless the
\* doubled lag of a topic kept for ever wraps, respects the floor and saves no
\* more than the topic costs (r3_retention.go:28-52).
THEOREM ProposalsAreSafe == Spec => []ProposalSafe
<1>1. ASSUME RulesInv, NEW f \in Of({"R3"})
      PROVE  LET t == TopicOf(f) IN
               /\ f.proposed >= Cfg.r3.floor
               /\ f.proposed >= t.lag \/ (t.retention < 0 /\ 2 * t.lag > MaxInt)
               /\ t.retention >= 0 => f.proposed < t.retention
               /\ f.saving <= StorageCents(Prices(snap, cm).storage, t.retained, 1)
  <2> DEFINE t == TopicOf(f)
             price == Prices(snap, cm).storage
             floor == Cfg.r3.floor
             left == Projected(snap, t)
  <2>1. /\ f.at \in DOMAIN snap.topics /\ Overkill(snap, t)
        /\ f.proposed = ProposedRetention(t)
        /\ f.saving = StorageCents(price, t.retained - left, 1)
    <3>1. f \in Findings(snap, cm) /\ f.rule = "R3"
      BY <1>1 DEF RulesInv, Of
    <3>2. f \in evalR3(snap, Prices(snap, cm))
      BY <3>1, FindingOfRule
    <3> QED BY <3>2 DEF evalR3, Finding, TopicOf
  <2>2. IsTopic(t) /\ floor \in Nat /\ MaxInt \in Nat
    BY <1>1, <2>1, TopicTyped, RulesAssumption DEF RulesInv, TopicOf
  <2>3. t.lag \in Nat /\ t.lag <= MaxInt /\ t.retention \in Int /\ t.retention <= MaxInt
        /\ t.retained \in Nat
    BY <2>1, <2>2 DEF IsTopic, Overkill
  <2>4. /\ f.proposed \in Int /\ f.proposed >= floor
        /\ 2 * t.lag <= MaxInt => f.proposed >= 2 * t.lag
    <3> DEFINE w == Int64(2 * t.lag)
    <3>1. w \in Int /\ (2 * t.lag <= MaxInt => w = 2 * t.lag)
      <4>1. 2 * t.lag \in Nat /\ MaxInt \in Nat \ {0}
        BY <2>3, RulesAssumption
      <4>2. \A a \in Int : Int64(a) \in Int
        BY RulesAssumption DEF Int64
      <4> QED BY <4>1, <4>2, NoWrap
    <3>2. {floor, w} \in SUBSET Int /\ IsFiniteSet({floor, w}) /\ {floor, w} # {}
      <4>1. IsFiniteSet({floor}) /\ {floor} \cup {w} = {floor, w}
        BY FS_Singleton
      <4> QED BY <2>2, <3>1, <4>1, FS_AddElement
    <3>3. f.proposed = Max({floor, w})
      BY <2>1 DEF ProposedRetention
    <3> HIDE DEF w, floor
    <3> QED BY <2>2, <2>3, <3>1, <3>2, <3>3, MaxIsLargest
  <2>5. f.proposed >= t.lag \/ (t.retention < 0 /\ 2 * t.lag > MaxInt)
    <3>1. CASE 2 * t.lag <= MaxInt
      BY <2>3, <2>4, <3>1
    <3>2. CASE 2 * t.lag > MaxInt /\ t.retention >= 0
      <4>1. t.retention > Cfg.r3.multiplier * t.lag
        BY <2>1, <2>3, <3>2 DEF Overkill
      <4>2. t.lag * 2 <= t.lag * Cfg.r3.multiplier
        BY <2>3, RulesAssumption, MulMonotone
      <4>3. Cfg.r3.multiplier \in Nat
        BY RulesAssumption
      <4>4. t.lag * Cfg.r3.multiplier = Cfg.r3.multiplier * t.lag
        BY <2>3, <4>3
      <4>5. Cfg.r3.multiplier * t.lag \in Int
        BY <2>3, <4>3
      <4> DEFINE y == Cfg.r3.multiplier * t.lag
      <4>6. y \in Int /\ t.retention > y /\ t.lag * 2 <= y
        BY <4>1, <4>2, <4>4, <4>5
      <4> HIDE DEF y, t
      <4> QED BY <2>2, <2>3, <3>2, <4>6
    <3> QED BY <2>2, <2>3, <3>1, <3>2
  <2>6. t.retention >= 0 => f.proposed < t.retention
    BY <2>1, <2>3 DEF Overkill
  <2>7. f.saving <= StorageCents(price, t.retained, 1)
    <3>1. left \in Nat
      <4>1. lookupBytesInPerSec(snap, t.name) \in Nat
        BY <1>1, <2>1, LookupTyped DEF RulesInv, TopicOf
      <4>2. f.proposed \in Nat
        BY <2>2, <2>4
      <4>3. left = lookupBytesInPerSec(snap, t.name) * f.proposed
        BY <2>1 DEF Projected
      <4>4. \A a, b \in Nat : a * b \in Nat
        OBVIOUS
      <4> QED BY <4>1, <4>2, <4>3, <4>4
    <3>2. price.num \in Nat /\ price.den \in Nat \ {0}
      BY <1>1, PricesTyped DEF RulesInv
    <3> DEFINE a == t.retained - left
               num == price.num
    <3>3. a \in Int /\ a <= t.retained
      <4> HIDE DEF left
      <4> QED BY <2>3, <3>1
    <3>4. num * a <= num * t.retained
      <4> HIDE DEF a, num
      <4> QED BY <2>3, <3>2, <3>3, MulMonotone DEF num
    <3>5. a * num = num * a /\ t.retained * num = num * t.retained
          /\ a * num \in Int /\ t.retained * num \in Int
      <4> HIDE DEF a, num
      <4> QED BY <2>3, <3>2, <3>3 DEF num
    <3>6. 1 * price.den \in Nat \ {0}
      BY <3>2
    <3>7. round2(a * num, 1 * price.den) <= round2(t.retained * num, 1 * price.den)
      <4> HIDE DEF a, num
      <4> QED BY <3>4, <3>5, <3>6, RoundMonotone
    <3> QED BY <2>1, <3>7 DEF StorageCents
  <2> QED BY <2>4, <2>5, <2>6, <2>7
<1>2. RulesInv => ProposalSafe
  BY <1>1 DEF ProposalSafe
<1> QED BY <1>2, RulesInvariant, PTL

-----------------------------------------------------------------------------
(* What several findings claim together.                                     *)

LEMMA MulCancel ==
    ASSUME NEW a \in Nat \ {0}, NEW b \in Int, NEW c \in Int, a * b <= a * c
    PROVE  b <= c
<1> SUFFICES ASSUME c + 1 <= b PROVE FALSE
    OBVIOUS
<1>1. a * (c + 1) <= a * b
  BY MulMonotone
<1>2. a * (c + 1) = a * c + a /\ a * c \in Int /\ a * b \in Int
  OBVIOUS
<1> QED BY <1>1, <1>2

\* Findings F about different places I, each claiming within half a cent what
\* its place holds at the price c/d, claim together what all places hold,
\* half a cent per finding aside.
LEMMA SavingsBound ==
    ASSUME NEW F, NEW I, IsFiniteSet(I),
           \A f \in F : f.at \in I,
           \A f, h \in F : f.at = h.at => f = h,
           NEW held, DOMAIN held = I, \A i \in I : held[i] \in Nat,
           NEW c \in Nat, NEW d \in Nat \ {0},
           \A f \in F : f.saving \in Int /\ 2 * d * f.saving <= 2 * c * held[f.at] + d
    PROVE  LET S == SumFunction([f \in F |-> f.saving])
           IN  /\ IsFiniteSet(F) /\ Cardinality(F) \in Nat
               /\ S \in Int /\ SumFunction(held) \in Nat
               /\ 2 * d * S <= 2 * c * SumFunction(held) + d * Cardinality(F)
<1> DEFINE at == [f \in F |-> f.at]
           saving == [f \in F |-> f.saving]
           claim == [f \in F |-> (2 * d) * saving[f]]
           share == [f \in F |-> held[f.at]]
           exact == [f \in F |-> (2 * c) * share[f]]
           half == [f \in F |-> d]
           upto == [f \in F |-> exact[f] + half[f]]
           Sum(g) == SumFunctionOnSet(g, F)
<1>1. IsFiniteSet(F) /\ Cardinality(F) \in Nat
  <2>1. at \in Injection(F, I)
    BY DEF Injection, IsInjective
  <2> HIDE DEF at
  <2> QED BY <2>1, FS_Injection, FS_CardinalityType
<1>2. 2 * d \in Nat /\ 2 * c \in Nat /\ \A a \in Nat, b \in Int : a * b \in Int
  OBVIOUS
<1>3. \A f \in F : /\ saving[f] \in Int /\ claim[f] = (2 * d) * saving[f]
                   /\ share[f] \in Nat /\ share[f] = held[at[f]]
                   /\ exact[f] = (2 * c) * share[f]
                   /\ half[f] = d /\ upto[f] = exact[f] + half[f]
  OBVIOUS
<1>4. \A f \in F : /\ claim[f] \in Int /\ exact[f] \in Int /\ half[f] \in Int
                   /\ upto[f] \in Int /\ claim[f] <= upto[f]
  <2>1. \A f \in F : claim[f] <= upto[f]
    OBVIOUS
  <2> HIDE DEF saving, claim, share, exact, half, upto
  <2> QED BY <1>2, <1>3, <2>1
<1>5. at \in [F -> I] /\ \A f, h \in F : at[f] = at[h] => f = h
  OBVIOUS
<1>6. SumFunction(saving) = Sum(saving) /\ SumFunction(held) = SumFunctionOnSet(held, I)
  BY DEF SumFunction
<1> HIDE DEF at, saving, claim, share, exact, half, upto
<1>7. Sum(claim) = (2 * d) * Sum(saving) /\ Sum(saving) \in Int
  BY <1>1, <1>2, <1>3, SumTimes, SumInt
<1>8. Sum(exact) = (2 * c) * Sum(share)
  BY <1>1, <1>2, <1>3, SumTimes
<1>9. Sum(half) = d * Cardinality(F)
  BY <1>1, <1>3, SumConstant
<1>10. Sum(upto) = Sum(exact) + Sum(half) /\ Sum(exact) \in Int
  BY <1>1, <1>3, <1>4, SumPlus, SumInt
<1>11. Sum(claim) <= Sum(upto)
  BY <1>1, <1>4, SumLeq
<1>12. Sum(share) <= SumFunctionOnSet(held, I) /\ Sum(share) \in Int
       /\ SumFunctionOnSet(held, I) \in Nat
  <2>1. \A f \in F : share[f] \in Int /\ share[f] <= held[at[f]]
    BY <1>3
  <2>2. \A f \in F : at[f] \in I
    BY <1>5
  <2> QED BY <1>1, <1>5, <2>1, <2>2, SumPlaced, SumInt, SumNat
<1>13. (2 * c) * Sum(share) <= (2 * c) * SumFunctionOnSet(held, I)
  BY <1>2, <1>12, MulMonotone
<1> DEFINE S == Sum(saving)
           H == SumFunctionOnSet(held, I)
           n == Cardinality(F)
<1>14. (2 * d) * S <= (2 * c) * H + d * n
  <2> DEFINE x == (2 * d) * S
             y == (2 * c) * H
             z == d * n
             e == Sum(exact)
  <2>1. x <= Sum(upto) /\ Sum(upto) = e + z /\ e <= y /\ e \in Int
    BY <1>7, <1>8, <1>9, <1>10, <1>11, <1>13
  <2>2. x \in Int /\ y \in Int /\ z \in Int
    <3> HIDE DEF S, H, n
    <3>1. S \in Int /\ H \in Nat /\ n \in Nat
      BY <1>1, <1>7, <1>12 DEF S, H, n
    <3> QED BY <3>1
  <2> HIDE DEF x, y, z, e
  <2> QED BY <2>1, <2>2 DEF x, y, z
<1> QED BY <1>1, <1>6, <1>7, <1>12, <1>14 DEF saving

\* What a deletion saves: the storage of its topic, to half a cent.
LEMMA DeletionSaving ==
    ASSUME RulesInv, NEW f \in Of({"R1", "R8"})
    PROVE  LET price == Prices(snap, cm).storage
           IN  /\ f.at \in DOMAIN snap.topics
               /\ f \in {Finding("R1", f.at, f.saving, 0), Finding("R8", f.at, f.saving, 0)}
               /\ f.saving = StorageCents(price, TopicOf(f).retained, 1)
               /\ f.saving \in Int
               /\ 2 * price.den * f.saving
                      <= 2 * price.num * TopicOf(f).retained + price.den
<1> DEFINE price == Prices(snap, cm).storage
           kept == TopicOf(f).retained
<1>1. f \in evalR1(snap, Prices(snap, cm)) \/ f \in evalR8(snap, Prices(snap, cm))
  <2>1. f \in Findings(snap, cm) /\ f.rule \in {"R1", "R8"}
    BY DEF RulesInv, Of
  <2> QED BY <2>1, FindingOfRule
<1>2. /\ f.at \in DOMAIN snap.topics
      /\ f \in {Finding("R1", f.at, f.saving, 0), Finding("R8", f.at, f.saving, 0)}
      /\ f.saving = StorageCents(price, kept, 1)
  BY <1>1 DEF evalR1, evalR8, Finding, TopicOf
<1>3. kept \in Nat /\ price.num \in Nat /\ price.den \in Nat \ {0}
  BY <1>2, TopicTyped, PricesTyped DEF RulesInv, IsTopic, TopicOf
<1>4. f.saving = round2(kept * price.num, 1 * price.den)
  BY <1>2 DEF StorageCents
<1> DEFINE num == price.num
           den == price.den
           saving == f.saving
<1>5. kept * num \in Int /\ 1 * den = den /\ num \in Nat /\ den \in Nat \ {0}
  BY <1>3
<1>6. saving = round2(kept * num, den)
  BY <1>4, <1>5
<1>7. saving \in Int /\ 2 * den * saving <= 2 * (kept * num) + den
  <2> HIDE DEF kept, num, den, saving
  <2> QED BY <1>5, <1>6, Rounded
<1>8. 2 * (kept * num) = 2 * num * kept
  <2> HIDE DEF kept, num
  <2> QED BY <1>3, <1>5
<1> QED BY <1>2, <1>7, <1>8

\* No topic is counted twice: R1 and R8 share them out.
LEMMA DeletionsApart ==
    ASSUME RulesInv, NEW f \in Of({"R1", "R8"}), NEW h \in Of({"R1", "R8"}), f.at = h.at
    PROVE  f = h
<1>1. f.saving = h.saving
  BY DeletionSaving DEF TopicOf
<1>2. f.rule = h.rule
  <2>1. /\ f \in Findings(snap, cm) /\ f.rule \in {"R1", "R8"}
        /\ h \in Findings(snap, cm) /\ h.rule \in {"R1", "R8"}
    BY DEF RulesInv, Of
  <2>2. \A g \in {f, h} :
            /\ g.rule = "R1" => ~isStreamsInternal(snap.topics[f.at])
            /\ g.rule = "R8" => isStreamsInternal(snap.topics[f.at])
    <3> SUFFICES ASSUME NEW g \in {f, h}
                 PROVE  /\ g.rule = "R1" => ~isStreamsInternal(snap.topics[g.at])
                        /\ g.rule = "R8" => isStreamsInternal(snap.topics[g.at])
        OBVIOUS
    <3>1. g.rule = "R1" => g \in evalR1(snap, Prices(snap, cm))
      BY <2>1, FindingOfRule
    <3>2. g.rule = "R8" => g \in evalR8(snap, Prices(snap, cm))
      BY <2>1, FindingOfRule
    <3>3. g \in evalR1(snap, Prices(snap, cm)) => ~isStreamsInternal(snap.topics[g.at])
      BY DEF evalR1, Finding, DeadTopic
    <3>4. g \in evalR8(snap, Prices(snap, cm)) => isStreamsInternal(snap.topics[g.at])
      BY RulesAssumption
         DEF evalR8, Finding, Orphaned, isStreamsInternal, streamsInternalSuffixes
    <3> QED BY <3>1, <3>2, <3>3, <3>4
  <2> QED BY <2>1, <2>2
<1>3. /\ f \in {Finding("R1", f.at, f.saving, 0), Finding("R8", f.at, f.saving, 0)}
      /\ h \in {Finding("R1", h.at, h.saving, 0), Finding("R8", h.at, h.saving, 0)}
  BY DeletionSaving
<1> QED BY <1>1, <1>2, <1>3 DEF Finding

\* Deleting all that looks dead or orphaned claims no more than the storage
\* share of --cost, a cent of rounding per finding aside
\* (cost.go:74-79 with R1 and R8).
THEOREM DeletionsAreWithinShare == Spec => []DeletionsWithinShare
<1>1. ASSUME RulesInv, cm.monthly > 0
      PROVE  100 * Savings({"R1", "R8"}) <=
                 Weights.storage * cm.monthly + 100 * Cardinality(Of({"R1", "R8"}))
  <2> DEFINE F == Of({"R1", "R8"})
             I == DOMAIN snap.topics
             held == [i \in I |-> snap.topics[i].retained]
             price == Prices(snap, cm).storage
             num == price.num
             den == price.den
             S == Savings({"R1", "R8"})
             n == Cardinality(F)
             R == RetainedOf(snap)
             m == cm.monthly
  <2>1. /\ num \in Nat /\ den \in Nat \ {0} /\ m \in Nat \ {0}
        /\ R > 0 => num = m * 40 /\ den = 100 * R
    BY <1>1, PricesTyped, RulesAssumption DEF RulesInv
  <2>2. n \in Nat /\ S \in Int /\ R \in Nat /\ 2 * den * S <= 2 * num * R + den * n
    <3>1. IsFiniteSet(I) /\ DOMAIN held = I /\ \A i \in I : held[i] \in Nat
      BY <1>1, TopicsFinite, TopicTyped DEF RulesInv, IsTopic
    <3>2. \A f \in F : f.at \in I
      BY <1>1, DeletionSaving
    <3>3. \A f, h \in F : f.at = h.at => f = h
      BY <1>1, DeletionsApart
    <3>4. \A f \in F : f.saving \in Int /\ 2 * den * f.saving <= 2 * num * held[f.at] + den
      <4> SUFFICES ASSUME NEW f \in F
                   PROVE f.saving \in Int /\ 2 * den * f.saving <= 2 * num * held[f.at] + den
          OBVIOUS
      <4>1. held[f.at] = TopicOf(f).retained
        BY <3>2 DEF TopicOf
      <4> QED BY <1>1, <4>1, DeletionSaving
    <3>5. S = SumFunction([f \in F |-> f.saving]) /\ R = SumFunction(held)
      BY DEF Savings, RetainedOf
    <3> HIDE DEF F, I, held, num, den, S, R
    <3> QED BY <2>1, <3>1, <3>2, <3>3, <3>4, <3>5, SavingsBound
  <2> HIDE DEF F, num, den, S, n, R, m
  <2>3. CASE R > 0
    <3>1. R * (200 * S) <= R * (80 * m + 100 * n)
      <4>1. 2 * (100 * R) * S <= 2 * (m * 40) * R + (100 * R) * n
        BY <2>1, <2>2, <2>3
      <4>2. /\ 2 * (100 * R) * S = R * (200 * S)
            /\ 2 * (m * 40) * R + (100 * R) * n = R * (80 * m + 100 * n)
        BY <2>1, <2>2
      <4> QED BY <4>1, <4>2
    <3>2. 200 * S \in Int /\ 80 * m + 100 * n \in Int /\ R \in Nat \ {0}
      BY <2>1, <2>2, <2>3
    <3>3. 200 * S <= 80 * m + 100 * n
      BY <3>1, <3>2, MulCancel
    <3>4. 100 * S <= 40 * m + 100 * n
      BY <2>1, <2>2, <3>3
    <3> QED BY <3>4 DEF S, m, n, F, Weights
  <2>4. CASE R = 0
    <3>1. den * (2 * S) <= den * n
      <4>1. 2 * num * R = 0 /\ 2 * den * S = den * (2 * S) /\ den * n \in Int
        BY <2>1, <2>2, <2>4
      <4> QED BY <2>2, <4>1
    <3>2. 2 * S <= n
      BY <2>1, <2>2, <3>1, MulCancel
    <3>3. 100 * S <= 40 * m + 100 * n
      BY <2>1, <2>2, <3>2
    <3> QED BY <3>3 DEF S, m, n, F, Weights
  <2> QED BY <2>2, <2>3, <2>4
<1>2. RulesInv => DeletionsWithinShare
  BY <1>1 DEF DeletionsWithinShare
<1> QED BY <1>2, RulesInvariant, PTL

-----------------------------------------------------------------------------
(* R4: the partitions.                                                       *)

\* A proposal removes some of the partitions, and never more than there are.
LEMMA SomeRemoved ==
    ASSUME NEW t, IsTopic(t), OverPartitioned(t)
    PROVE  /\ t.partitions - ProposedPartitions(t) \in Nat \ {0}
           /\ t.partitions - ProposedPartitions(t) <= t.partitions
<1> DEFINE least == Cfg.r4.minPartitions
           target == Cfg.r4.target
           a == t.bytesIn + target - 1
           q == a \div target
<1>1. least \in Nat /\ target \in Nat \ {0} /\ t.bytesIn \in Nat /\ t.partitions \in Nat
  BY RulesAssumption DEF IsTopic
<1>2. q \in Int
  <2>1. a \in Int
    BY <1>1
  <2> HIDE DEF a, target
  <2> QED BY <1>1, <2>1
<1>3. {least, q} \in SUBSET Int /\ IsFiniteSet({least, q}) /\ {least, q} # {}
  <2> HIDE DEF q
  <2>1. IsFiniteSet({least}) /\ {least} \cup {q} = {least, q}
    BY FS_Singleton
  <2> QED BY <1>1, <1>2, <2>1, FS_AddElement
<1>4. ProposedPartitions(t) = Max({least, q})
  BY DEF ProposedPartitions
<1> HIDE DEF q, least
<1>5. ProposedPartitions(t) \in Int /\ ProposedPartitions(t) >= least
  BY <1>1, <1>2, <1>3, <1>4, MaxIsLargest
<1> QED BY <1>1, <1>5 DEF OverPartitioned

LEMMA SliceArithmetic ==
    ASSUME NEW S \in Int, NEW bill \in Int, NEW n \in Nat, NEW x \in Nat,
           NEW den \in Nat \ {0}, NEW P \in Nat \ {0},
           2 * (100 * den * P) * S <= 2 * (20 * x) * P + (100 * den * P) * n,
           2 * x - den <= 2 * den * bill
    PROVE  100 * S <= 20 * bill + 100 * (n + 1)
<1>1. P * (200 * den * S) <= P * (40 * x + 100 * den * n)
  <2>1. /\ 2 * (100 * den * P) * S = P * (200 * den * S)
        /\ 2 * (20 * x) * P + (100 * den * P) * n = P * (40 * x + 100 * den * n)
    OBVIOUS
  <2> QED BY <2>1
<1> DEFINE u == den * S
           v == den * n
           w == den * bill
<1>2. u \in Int /\ v \in Int /\ w \in Int
  OBVIOUS
<1>3. 200 * u <= 40 * x + 100 * v
  <2>1. P * (200 * u) <= P * (40 * x + 100 * v)
    <3>1. 200 * den * S = 200 * u /\ 40 * x + 100 * den * n = 40 * x + 100 * v
      OBVIOUS
    <3> QED BY <1>1, <3>1
  <2> HIDE DEF u, v
  <2>2. 200 * u \in Int /\ 40 * x + 100 * v \in Int
    BY <1>2
  <2> QED BY <2>1, <2>2, MulCancel
<1>4. 2 * x - den <= 2 * w
  <2>1. 2 * den * bill = 2 * w
    OBVIOUS
  <2> QED BY <2>1
<1>5. 200 * u <= 40 * w + 20 * den + 100 * v
  <2> HIDE DEF u, v, w
  <2> QED BY <1>2, <1>3, <1>4
<1>6. den * (200 * S) <= den * (40 * bill + 20 + 100 * n)
  <2>1. /\ den * (200 * S) = 200 * u
        /\ den * (40 * bill + 20 + 100 * n) = 40 * w + 20 * den + 100 * v
    OBVIOUS
  <2> QED BY <1>5, <2>1
<1>7. 200 * S <= 40 * bill + 20 + 100 * n
  BY <1>6, MulCancel
<1> QED BY <1>7

\* What a partition finding claims off Confluent.
LEMMA PartitionSaving ==
    ASSUME RulesInv, snap.provider # "confluent", NEW f \in Of({"R4"})
    PROVE  LET price == Prices(snap, cm).storage
               d == 100 * price.den * PartitionsOf(snap)
               c == 20 * (RetainedOf(snap) * price.num)
           IN  /\ f.at \in DOMAIN snap.topics /\ PartitionsOf(snap) \in Nat \ {0}
               /\ f = Finding("R4", f.at, f.saving, ProposedPartitions(TopicOf(f)))
               /\ f.saving = PartitionCents(snap, Prices(snap, cm),
                                            TopicOf(f).partitions - ProposedPartitions(TopicOf(f)))
               /\ f.saving \in Int
               /\ 2 * d * f.saving <= 2 * c * TopicOf(f).partitions + d
<1> DEFINE t == TopicOf(f)
           price == Prices(snap, cm).storage
           P == PartitionsOf(snap)
           R == RetainedOf(snap)
           removed == t.partitions - ProposedPartitions(t)
           x == R * price.num
           d == 100 * price.den * P
           c == 20 * x
<1>1. /\ f.at \in DOMAIN snap.topics /\ OverPartitioned(t)
      /\ f = Finding("R4", f.at, f.saving, ProposedPartitions(t))
      /\ f.saving = PartitionCents(snap, Prices(snap, cm), removed)
  <2>1. f \in Findings(snap, cm) /\ f.rule = "R4"
    BY DEF RulesInv, Of
  <2>2. f \in evalR4(snap, Prices(snap, cm))
    BY <2>1, FindingOfRule
  <2> QED BY <2>2 DEF evalR4, Finding, TopicOf
<1>2. IsTopic(t) /\ removed \in Nat \ {0} /\ removed <= t.partitions /\ t.partitions \in Nat
  <2>1. IsTopic(t)
    BY <1>1, TopicTyped DEF RulesInv, TopicOf
  <2> QED BY <1>1, <2>1, SomeRemoved DEF IsTopic
<1>3. P \in Nat \ {0} /\ R \in Nat
  <2> DEFINE p == [i \in DOMAIN snap.topics |-> snap.topics[i].partitions]
  <2>1. \A i \in DOMAIN snap.topics : p[i] \in Nat
    BY TopicTyped DEF RulesInv, IsTopic
  <2>2. P = SumFunctionOnSet(p, DOMAIN snap.topics)
    BY DEF PartitionsOf, SumFunction
  <2>3. p[f.at] = t.partitions
    BY <1>1 DEF TopicOf
  <2>4. IsFiniteSet(DOMAIN snap.topics)
    BY TopicsFinite DEF RulesInv
  <2> HIDE DEF p
  <2>5. p[f.at] <= P
    BY <1>1, <2>1, <2>2, <2>4, SumNat
  <2>6. P \in Nat /\ R \in Nat
    BY TotalsTyped DEF RulesInv
  <2> HIDE DEF P, t, removed
  <2>7. t.partitions # 0
    BY <1>2
  <2> QED BY <1>2, <2>3, <2>5, <2>6, <2>7
<1>4. price.num \in Nat /\ price.den \in Nat \ {0}
  BY PricesTyped DEF RulesInv
<1>5. x \in Nat /\ d \in Nat \ {0} /\ c \in Nat
  <2> DEFINE num == price.num
             den == price.den
  <2>1. num \in Nat /\ den \in Nat \ {0} /\ x = R * num /\ d = 100 * den * P
    BY <1>4
  <2> HIDE DEF R, P, num, den, x, d
  <2>2. x \in Nat /\ d \in Nat
    BY <1>3, <2>1
  <2>3. d # 0
    BY <1>3, <2>1
  <2> QED BY <2>2, <2>3
<1>6. f.saving = round2(20 * R * price.num * removed, 100 * price.den * P)
  BY <1>1 DEF PartitionCents
<1>7. 20 * R * price.num * removed = c * removed
  <2> DEFINE num == price.num
  <2>1. num \in Nat /\ c = 20 * (R * num)
    BY <1>4
  <2> HIDE DEF num, R, removed, c
  <2>2. 20 * R * num * removed = c * removed
    BY <1>2, <1>3, <2>1
  <2> QED BY <2>2 DEF num
<1> DEFINE saving == f.saving
           parts == t.partitions
<1>8. saving = round2(c * removed, d)
  BY <1>6, <1>7
<1> HIDE DEF c, d, removed, saving, parts
<1>9. c * removed \in Int
  BY <1>2, <1>5
<1>10. saving \in Int /\ 2 * d * saving <= 2 * (c * removed) + d
  BY <1>5, <1>8, <1>9, Rounded
<1>11. c * removed <= c * parts
  BY <1>2, <1>5, MulMonotone DEF parts
<1>12. 2 * d * saving <= 2 * c * parts + d
  <2> DEFINE y == 2 * d * saving
             z == c * removed
             w == c * parts
  <2>1. y \in Int /\ z \in Int /\ w \in Int /\ 2 * c * parts = 2 * w
    BY <1>2, <1>5, <1>9, <1>10 DEF parts
  <2>2. y <= 2 * z + d /\ z <= w
    BY <1>10, <1>11
  <2> HIDE DEF y, z, w
  <2>3. y <= 2 * w + d
    BY <1>5, <2>1, <2>2
  <2> QED BY <2>1, <2>3 DEF y
<1> QED BY <1>1, <1>3, <1>10, <1>12 DEF saving, parts, c, d, removed

\* Off Confluent, all partition findings together claim no more than the 20% of
\* the storage bill that is put down to partitions, a cent of rounding per
\* finding aside (r4_partitions.go:67-83).
THEOREM PartitionsAreSliced == Spec => []PartitionSlice
<1>1. ASSUME RulesInv, snap.provider # "confluent"
      PROVE  100 * Savings({"R4"})
                 <= 20 * StorageBill + 100 * (Cardinality(Of({"R4"})) + 1)
  <2> DEFINE F == Of({"R4"})
             I == DOMAIN snap.topics
             held == [i \in I |-> snap.topics[i].partitions]
             price == Prices(snap, cm).storage
             num == price.num
             den == price.den
             S == Savings({"R4"})
             n == Cardinality(F)
             P == PartitionsOf(snap)
             R == RetainedOf(snap)
             x == R * num
             c == 20 * x
             d == 100 * den * P
             bill == StorageBill
  <2>1. num \in Nat /\ den \in Nat \ {0} /\ R \in Nat /\ P \in Nat
    BY <1>1, PricesTyped, TotalsTyped DEF RulesInv
  <2>2. x \in Nat /\ c \in Nat
    <3> HIDE DEF R, num
    <3> QED BY <2>1
  <2>3. bill \in Int /\ 2 * x - den <= 2 * den * bill
    <3>1. bill = round2(x, 1 * den)
      BY DEF StorageBill, StorageCents
    <3>2. 1 * den = den
      BY <2>1
    <3> HIDE DEF x, den, bill
    <3> QED BY <2>1, <2>2, <3>1, <3>2, Rounded
  <2>4. CASE F = {}
    <3>1. S = 0 /\ n = 0
      <4>1. S = SumFunctionOnSet([f \in F |-> f.saving], {})
        BY <2>4 DEF Savings, SumFunction
      <4> QED BY <2>4, <4>1, SumEmpty, FS_EmptySet
    <3>2. 0 <= den * (2 * bill + 1)
      <4> HIDE DEF x, den, bill
      <4>1. den * (2 * bill + 1) = 2 * den * bill + den /\ 2 * den * bill \in Int
        BY <2>1, <2>3
      <4> QED BY <2>1, <2>2, <2>3, <4>1
    <3>3. bill >= 0
      <4> HIDE DEF den, bill
      <4>1. den * 0 <= den * (2 * bill + 1)
        BY <2>1, <3>2
      <4>2. 0 <= 2 * bill + 1
        BY <2>1, <2>3, <4>1, MulCancel
      <4> QED BY <2>3, <4>2
    <3> QED BY <2>3, <3>1, <3>3
  <2>5. CASE F # {}
    <3>1. P \in Nat \ {0}
      BY <1>1, <2>5, PartitionSaving
    <3>2. d \in Nat \ {0}
      <4> HIDE DEF den, P
      <4>1. d \in Nat
        BY <2>1, <3>1
      <4>2. d # 0
        BY <2>1, <3>1
      <4> QED BY <4>1, <4>2
    <3>3. /\ n \in Nat /\ S \in Int
          /\ 2 * d * S <= 2 * c * P + d * n
      <4>1. IsFiniteSet(I) /\ DOMAIN held = I /\ \A i \in I : held[i] \in Nat
        BY <1>1, TopicsFinite, TopicTyped DEF RulesInv, IsTopic
      <4>2. \A f \in F : f.at \in I
        BY <1>1, PartitionSaving
      <4>3. \A f, h \in F : f.at = h.at => f = h
        <5> SUFFICES ASSUME NEW f \in F, NEW h \in F, f.at = h.at PROVE f = h
            OBVIOUS
        <5>1. TopicOf(f) = TopicOf(h)
          BY DEF TopicOf
        <5>2. f.saving = h.saving
          BY <1>1, <5>1, PartitionSaving
        <5> QED BY <1>1, <5>1, <5>2, PartitionSaving
      <4>4. \A f \in F : f.saving \in Int /\ 2 * d * f.saving <= 2 * c * held[f.at] + d
        <5> SUFFICES ASSUME NEW f \in F
                     PROVE f.saving \in Int /\ 2 * d * f.saving <= 2 * c * held[f.at] + d
            OBVIOUS
        <5>1. held[f.at] = TopicOf(f).partitions
          BY <4>2 DEF TopicOf
        <5> QED BY <1>1, <5>1, PartitionSaving
      <4>5. S = SumFunction([f \in F |-> f.saving]) /\ P = SumFunction(held)
        BY DEF Savings, PartitionsOf
      <4> HIDE DEF F, I, held, c, d, S, P
      <4> QED BY <2>2, <3>2, <4>1, <4>2, <4>3, <4>4, <4>5, SavingsBound
    <3> HIDE DEF F, S, n, P, x, den, bill
    <3> QED BY <2>1, <2>2, <2>3, <3>1, <3>3, SliceArithmetic DEF F, S, n, bill
  <2> QED BY <2>4, <2>5
<1>2. RulesInv => PartitionSlice
  BY <1>1 DEF PartitionSlice
<1> QED BY <1>2, RulesInvariant, PTL

(***************************************************************************)
(* A skew finding is one.                                                    *)
(***************************************************************************)
\* How many of the sizes are below v, and how many do not exceed it.
Below(b, v) == {j \in DOMAIN b : b[j] < v}
UpTo(b, v) == {j \in DOMAIN b : b[j] <= v}

LEMMA Counted ==
    ASSUME NEW b \in Seq(Int), NEW v
    PROVE  /\ IsFiniteSet(DOMAIN b) /\ Cardinality(DOMAIN b) = Len(b)
           /\ IsFiniteSet(Below(b, v)) /\ Cardinality(Below(b, v)) \in Nat
           /\ IsFiniteSet(UpTo(b, v)) /\ Cardinality(UpTo(b, v)) \in Nat
<1>1. DOMAIN b = 1 .. Len(b) /\ Len(b) \in Nat
  OBVIOUS
<1>2. IsFiniteSet(DOMAIN b) /\ Cardinality(DOMAIN b) = Len(b)
  BY <1>1, FS_Interval
<1>3. IsFiniteSet(Below(b, v)) /\ IsFiniteSet(UpTo(b, v))
  BY <1>2, FS_Subset DEF Below, UpTo
<1> QED BY <1>2, <1>3, FS_CardinalityType

LEMMA SizesFinite ==
    ASSUME NEW b \in Seq(Int)
    PROVE  IsFiniteSet({b[j] : j \in DOMAIN b}) /\ {b[j] : j \in DOMAIN b} \subseteq Int
<1> DEFINE V == {b[j] : j \in DOMAIN b}
<1>1. b \in [DOMAIN b -> V]
  OBVIOUS
<1>2. \A v \in V : \E j \in DOMAIN b : b[j] = v
  OBVIOUS
<1>3. b \in Surjection(DOMAIN b, V)
  <2> HIDE DEF V
  <2> QED BY <1>1, <1>2 DEF Surjection
<1>4. IsFiniteSet(V)
  BY <1>3, Counted, FS_Surjection
<1> QED BY <1>4

\* The sort is well defined: every place has its value.
LEMMA SortedAt ==
    ASSUME NEW b \in Seq(Int), NEW i \in DOMAIN b
    PROVE  /\ \E j \in DOMAIN b : Sorted(b)[i] = b[j]
           /\ Sorted(b)[i] \in Int
           /\ Cardinality(Below(b, Sorted(b)[i])) < i
           /\ Cardinality(UpTo(b, Sorted(b)[i])) >= i
<1> DEFINE V == {b[j] : j \in DOMAIN b}
           W == {v \in V : Cardinality(UpTo(b, v)) >= i}
           w == Min(W)
           U == {v \in V : v < w}
<1>1. /\ DOMAIN b = 1 .. Len(b) /\ Len(b) \in Nat /\ i \in Int
      /\ IsFiniteSet(DOMAIN b) /\ V \subseteq Int
  BY Counted
<1>2. IsFiniteSet(V)
  BY SizesFinite
<1>3. W # {}
  <2>1. V # {}
    OBVIOUS
  <2>2. Max(V) \in V /\ \A v \in V : v <= Max(V)
    BY <1>1, <1>2, <2>1, MaxIsLargest
  <2>3. UpTo(b, Max(V)) = DOMAIN b
    <3> HIDE DEF V
    <3>1. \A j \in DOMAIN b : b[j] \in V
      BY DEF V
    <3> QED BY <2>2, <3>1 DEF UpTo
  <2>4. Cardinality(UpTo(b, Max(V))) >= i
    BY <1>1, <2>3, Counted
  <2> QED BY <2>2, <2>4
<1>4. w \in W /\ \A v \in W : w <= v
  <2>1. W \subseteq Int /\ IsFiniteSet(W)
    BY <1>1, <1>2, FS_Subset
  <2> HIDE DEF W
  <2> QED BY <1>3, <2>1, MinIsSmallest
<1>5. Cardinality(Below(b, w)) < i
  <2> HIDE DEF w
  <2>1. CASE U = {}
    <3>1. Below(b, w) = {}
      BY <2>1 DEF Below
    <3>2. Cardinality(Below(b, w)) = 0
      BY <3>1, FS_EmptySet
    <3> QED BY <1>1, <3>2
  <2>2. CASE U # {}
    <3>1. IsFiniteSet(U) /\ U \subseteq Int
      BY <1>1, <1>2, FS_Subset
    <3>2. Max(U) \in U /\ \A v \in U : v <= Max(U)
      <4> HIDE DEF U
      <4> QED BY <2>2, <3>1, MaxIsLargest
    <3>3. UpTo(b, Max(U)) = Below(b, w)
      <4>1. \A j \in DOMAIN b : b[j] \in V /\ b[j] \in Int
        OBVIOUS
      <4>2. w \in Int /\ Max(U) \in Int /\ Max(U) < w
        BY <1>1, <1>4, <3>2
      <4>3. \A j \in DOMAIN b : b[j] < w => b[j] <= Max(U)
        BY <3>2, <4>1
      <4>4. \A j \in DOMAIN b : b[j] <= Max(U) => b[j] < w
        BY <4>1, <4>2
      <4> QED BY <4>3, <4>4 DEF UpTo, Below
    <3>4. ~(Cardinality(Below(b, w)) >= i)
      <4>1. Max(U) \in V /\ Max(U) < w /\ w \in Int
        BY <1>1, <1>4, <3>2
      <4>2. Max(U) \notin W
        BY <1>1, <1>4, <4>1
      <4> QED BY <3>3, <4>1, <4>2
    <3> QED BY <1>1, <3>4, Counted
  <2> QED BY <2>1, <2>2
<1>6. \E v \in V : Cardinality(Below(b, v)) < i /\ Cardinality(UpTo(b, v)) >= i
  <2> HIDE DEF w
  <2> QED BY <1>4, <1>5
<1>7. Sorted(b)[i] = CHOOSE v \in V : /\ Cardinality(Below(b, v)) < i
                                      /\ Cardinality(UpTo(b, v)) >= i
  BY DEF Sorted, Below, UpTo
<1>8. /\ Sorted(b)[i] \in V
      /\ Cardinality(Below(b, Sorted(b)[i])) < i
      /\ Cardinality(UpTo(b, Sorted(b)[i])) >= i
  <2> HIDE DEF V
  <2> QED BY <1>6, <1>7
<1> QED BY <1>1, <1>8

\* The later element is the larger.
LEMMA SortedOrder ==
    ASSUME NEW b \in Seq(Int), NEW i \in DOMAIN b, i + 1 \in DOMAIN b
    PROVE  Sorted(b)[i] <= Sorted(b)[i + 1]
<1> DEFINE lo == Sorted(b)[i]
           hi == Sorted(b)[i + 1]
<1>1. lo \in Int /\ hi \in Int /\ i \in Int
  BY SortedAt
<1> SUFFICES ASSUME hi < lo PROVE FALSE
  <2> HIDE DEF lo, hi
  <2>1. hi < lo \/ lo <= hi
    BY <1>1
  <2> QED BY <2>1 DEF lo, hi
<1>2. /\ Cardinality(Below(b, lo)) < i
      /\ Cardinality(UpTo(b, hi)) >= i + 1
  BY SortedAt
<1>3. UpTo(b, hi) \subseteq Below(b, lo)
  <2> HIDE DEF lo, hi
  <2>1. \A j \in DOMAIN b : b[j] \in Int
    OBVIOUS
  <2> QED BY <1>1, <2>1 DEF UpTo, Below
<1>4. Cardinality(UpTo(b, hi)) <= Cardinality(Below(b, lo))
  BY <1>3, Counted, FS_Subset
<1>5. Cardinality(UpTo(b, hi)) \in Nat /\ Cardinality(Below(b, lo)) \in Nat
  BY Counted
<1> QED BY <1>1, <1>2, <1>4, <1>5

\* At least half of the sizes do not exceed the median.
LEMMA HalfUpToMedian ==
    ASSUME NEW b \in Seq(Int), Len(b) > 0
    PROVE  /\ medianInt64(Sorted(b)) \in Int
           /\ 2 * Cardinality(UpTo(b, medianInt64(Sorted(b)))) >= Len(b)
<1> DEFINE n == Len(b)
           sizes == Sorted(b)
           med == medianInt64(sizes)
           k == IF n % 2 = 1 THEN n \div 2 + 1 ELSE n \div 2
<1>1. n \in Nat /\ n > 0 /\ DOMAIN b = 1 .. n /\ DOMAIN sizes = 1 .. n
  BY DEF Sorted
<1>2. Len(sizes) = n
  BY <1>1
<1>3. k \in DOMAIN b /\ 2 * k >= n /\ (n % 2 # 1 => k + 1 \in DOMAIN b)
  <2> HIDE DEF n
  <2> QED BY <1>1
<1>4. med \in Int /\ sizes[k] <= med
  <2>1. CASE n % 2 = 1
    <3>1. med = sizes[k]
      BY <1>1, <1>2, <2>1 DEF medianInt64
    <3> QED BY <1>3, <3>1, SortedAt
  <2>2. CASE n % 2 # 1
    <3>1. med = (sizes[k] + sizes[k + 1]) \div 2
      BY <1>1, <1>2, <2>2 DEF medianInt64
    <3>2. sizes[k] \in Int /\ sizes[k + 1] \in Int
      BY <1>3, <2>2, SortedAt
    <3>3. sizes[k] <= sizes[k + 1]
      BY <1>3, <2>2, SortedOrder
    <3> HIDE DEF sizes, med, k
    <3> QED BY <3>1, <3>2, <3>3
  <2> QED BY <2>1, <2>2
<1>5. Cardinality(UpTo(b, sizes[k])) >= k /\ sizes[k] \in Int
  BY <1>3, SortedAt
<1>6. Cardinality(UpTo(b, sizes[k])) <= Cardinality(UpTo(b, med))
  <2>1. UpTo(b, sizes[k]) \subseteq UpTo(b, med)
    <3> HIDE DEF sizes, med, k
    <3>1. \A j \in DOMAIN b : b[j] \in Int
      OBVIOUS
    <3> QED BY <1>4, <1>5, <3>1 DEF UpTo
  <2> QED BY <2>1, Counted, FS_Subset
<1>7. k \in Int /\ Cardinality(UpTo(b, sizes[k])) \in Nat /\ Cardinality(UpTo(b, med)) \in Nat
  BY <1>3, Counted
<1> HIDE DEF sizes, med, k, n
<1>8. 2 * Cardinality(UpTo(b, med)) >= n
  BY <1>1, <1>3, <1>5, <1>6, <1>7
<1> QED BY <1>4, <1>8 DEF med, sizes, n

\* SkewIsReal (r7_skew.go:32-38): of the partitions a skew finding is about, at
\* least half hold less than the skew factor's share of the largest.
THEOREM SkewsAreReal == Spec => []SkewIsReal
<1>1. ASSUME RulesInv, NEW f \in Of({"R7"})
      PROVE  LET b == TopicOf(f).partitionBytes
                 largest == Max({b[i] : i \in DOMAIN b})
             IN  2 * Cardinality({i \in DOMAIN b : Cfg.r7.factor * b[i] < largest}) >= Len(b)
  <2> DEFINE t == TopicOf(f)
             b == t.partitionBytes
             n == Len(b)
             V == {b[i] : i \in DOMAIN b}
             largest == Max(V)
             factor == Cfg.r7.factor
             med == medianInt64(Sorted(b))
             small == {i \in DOMAIN b : factor * b[i] < largest}
  <2>1. f \in evalR7(snap, Prices(snap, cm)) /\ snap \in Snapshots
    BY <1>1, FindingOfRule DEF RulesInv, Of
  <2>2. f.at \in DOMAIN snap.topics /\ Skewed(t)
    BY <2>1 DEF evalR7, Finding, TopicOf
  <2>3. IsTopic(t)
    BY <2>1, <2>2, TopicTyped DEF TopicOf
  <2>4. b \in Seq(Int)
    BY <2>3 DEF IsTopic
  <2>5. /\ factor \in Nat
        /\ n \in Nat /\ n > 0
        /\ Sorted(b)[n] > factor * med
    <3>1. n >= Cfg.r7.minPartitions /\ Sorted(b)[n] > factor * med
      BY <2>2 DEF Skewed
    <3>2. n \in Nat
      BY <2>4
    <3> QED BY <3>1, <3>2, RulesAssumption
  <2> HIDE DEF b, factor
  <2>6. n \in DOMAIN b /\ \A i \in DOMAIN b : b[i] \in Int
    BY <2>4, <2>5
  <2>7. Sorted(b)[n] \in V /\ Sorted(b)[n] \in Int
    BY <2>4, <2>6, SortedAt
  <2>8. largest \in Int /\ Sorted(b)[n] <= largest
    <3>1. IsFiniteSet(V) /\ V \subseteq Int
      BY <2>4, SizesFinite
    <3> HIDE DEF V
    <3> QED BY <2>7, <3>1, MaxIsLargest
  <2>9. med \in Int /\ 2 * Cardinality(UpTo(b, med)) >= n
    BY <2>4, <2>5, HalfUpToMedian
  <2> HIDE DEF largest, med
  <2>10. UpTo(b, med) \subseteq small
    <3> SUFFICES ASSUME NEW i \in UpTo(b, med) PROVE factor * b[i] < largest
      BY DEF UpTo
    <3>1. i \in DOMAIN b /\ b[i] \in Int /\ b[i] <= med
      BY <2>6 DEF UpTo
    <3>2. factor * b[i] <= factor * med
      BY <2>5, <2>9, <3>1, MulMonotone
    <3>3. factor * b[i] \in Int /\ factor * med \in Int
      BY <2>5, <2>9, <3>1
    <3> QED BY <2>5, <2>7, <2>8, <3>2, <3>3
  <2>11. /\ Cardinality(UpTo(b, med)) <= Cardinality(small)
         /\ Cardinality(UpTo(b, med)) \in Nat /\ Cardinality(small) \in Nat
    <3>1. IsFiniteSet(small)
      BY <2>4, Counted, FS_Subset
    <3> QED BY <2>4, <2>10, <3>1, Counted, FS_Subset, FS_CardinalityType
  <2> HIDE DEF small
  <2>12. 2 * Cardinality(small) >= n
    BY <2>5, <2>9, <2>11
  <2> QED BY <2>12 DEF small, largest, b, factor
<1>2. RulesInv => SkewIsReal
  BY <1>1 DEF SkewIsReal
<1> QED BY <1>2, RulesInvariant, PTL
=============================================================================
