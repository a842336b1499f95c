------------------------------ MODULE CostProofs ------------------------------
(***************************************************************************)
(* Proofs that `brod cost` neither invents nor loses money, for any topics,   *)
(* any monthly cost and any --team rules: SplitExact and TeamsConserve.       *)
(***************************************************************************)
EXTENDS Cost, SumTheorems

Fields == {"retained", "through", "partitions"}

IsInputs(in) == /\ IsFiniteSet(DOMAIN in)
                /\ \A t \in DOMAIN in : \A field \in Fields : in[t][field] \in Int

\* The outputs are what allocate and renderTeams compute from the inputs.
CostInv ==
    /\ IsInputs(inputs) /\ monthly \in Int
    /\ step # "loaded" => alloc = Allocate(monthly, inputs)
    /\ step = "rendered" /\ teams # <<>> => byTeam = eurByTeam(teams, alloc)

(***************************************************************************)
(* Arithmetic.                                                               *)
(***************************************************************************)
LEMMA DivExact ==
    ASSUME NEW a \in Nat \ {0}, NEW k \in Nat
    PROVE  (a * k) \div a = k
<1> DEFINE q == (a * k) \div a
<1>1. q \in Int /\ a * q <= a * k /\ a * k < a * q + a
    OBVIOUS
<1> HIDE DEF q
<1>2. ~(q >= k + 1)
    <2> SUFFICES ASSUME q >= k + 1 PROVE FALSE
        OBVIOUS
    <2>1. a * (k + 1) <= a * q
        BY <1>1, MulMonotone
    <2> QED BY <1>1, <2>1
<1>3. ~(q + 1 <= k)
    <2> SUFFICES ASSUME q + 1 <= k PROVE FALSE
        OBVIOUS
    <2>1. a * (q + 1) <= a * k
        BY <1>1, MulMonotone
    <2> QED BY <1>1, <2>1
<1>4. q = k
    BY <1>1, <1>2, <1>3
<1> QED BY <1>4 DEF q


(***************************************************************************)
(* The weighted split.                                                       *)
(***************************************************************************)
\* ShareDen without its factor 100, and what one driver adds to a share.
Den(in) == NonZero(Total(in, "retained")) * NonZero(Total(in, "through"))
               * NonZero(Total(in, "partitions"))
Driver(in, weight, field) ==
    [t \in DOMAIN in |-> IF Total(in, field) > 0
                         THEN weight * in[t][field] * (Den(in) \div Total(in, field))
                         ELSE 0]
UsedWeight(in, weight, field) == IF Total(in, field) > 0 THEN weight ELSE 0

LEMMA TotalInt ==
    ASSUME NEW in, IsInputs(in), NEW field \in Fields
    PROVE  Total(in, field) \in Int
<1> DEFINE f == [t \in DOMAIN in |-> in[t][field]]
<1>1. IsFiniteSet(DOMAIN f) /\ \A t \in DOMAIN f : f[t] \in Int
    BY DEF IsInputs
<1>2. SumFunctionOnSet(f, DOMAIN f) \in Int
    <2> HIDE DEF f
    <2> QED BY <1>1, SumInt
<1> QED BY <1>2 DEF Total, SumFunction

\* The denominator is a multiple of the total of every driver that is used.
LEMMA DenMultiple ==
    ASSUME NEW in, IsInputs(in), NEW field \in Fields
    PROVE  /\ Den(in) \in Nat
           /\ ShareDen(in) = 100 * Den(in) /\ ShareDen(in) \div 100 = Den(in)
           /\ Total(in, field) > 0 =>
                  /\ Den(in) \div Total(in, field) \in Nat
                  /\ Den(in) = Total(in, field) * (Den(in) \div Total(in, field))
<1> DEFINE r == NonZero(Total(in, "retained"))
           u == NonZero(Total(in, "through"))
           p == NonZero(Total(in, "partitions"))
<1>1. r \in Nat \ {0} /\ u \in Nat \ {0} /\ p \in Nat \ {0}
    BY TotalInt DEF NonZero, Fields
<1>2. \A a, b \in Nat : a * b \in Nat
    OBVIOUS
<1>3. Den(in) = r * u * p
    BY DEF Den
<1>4. r * u \in Nat /\ r * p \in Nat /\ u * p \in Nat /\ r * u * p \in Nat
    <2> HIDE DEF r, u, p
    <2> QED BY <1>1, <1>2
<1>5. ShareDen(in) = 100 * Den(in)
    <2>1. ShareDen(in) = 100 * r * u * p
        BY DEF ShareDen
    <2> HIDE DEF r, u, p
    <2> QED BY <1>1, <1>3, <2>1
<1>6. ShareDen(in) \div 100 = Den(in)
    BY <1>3, <1>4, <1>5
<1>7. ASSUME Total(in, field) > 0
      PROVE  \E k \in Nat : Den(in) = Total(in, field) * k
    <2>1. CASE field = "retained"
        <3>1. Den(in) = r * (u * p)
            <4> HIDE DEF r, u, p
            <4> QED BY <1>1, <1>3
        <3>2. r = Total(in, field)
            BY <1>7, <2>1 DEF NonZero
        <3> QED BY <1>4, <3>1, <3>2
    <2>2. CASE field = "through"
        <3>1. Den(in) = u * (r * p)
            <4> HIDE DEF r, u, p
            <4> QED BY <1>1, <1>3
        <3>2. u = Total(in, field)
            BY <1>7, <2>2 DEF NonZero
        <3> QED BY <1>4, <3>1, <3>2
    <2>3. CASE field = "partitions"
        <3>1. Den(in) = p * (r * u)
            <4> HIDE DEF r, u, p
            <4> QED BY <1>1, <1>3
        <3>2. p = Total(in, field)
            BY <1>7, <2>3 DEF NonZero
        <3> QED BY <1>4, <3>1, <3>2
    <2> QED BY <2>1, <2>2, <2>3 DEF Fields
<1>8. ASSUME Total(in, field) > 0
      PROVE  /\ Den(in) \div Total(in, field) \in Nat
             /\ Den(in) = Total(in, field) * (Den(in) \div Total(in, field))
    <2>1. PICK k \in Nat : Den(in) = Total(in, field) * k
        BY <1>7, <1>8
    <2>2. Total(in, field) \in Nat \ {0}
        BY <1>8, TotalInt
    <2>3. Den(in) \div Total(in, field) = k
        BY <2>1, <2>2, DivExact
    <2> QED BY <2>1, <2>3
<1> QED BY <1>3, <1>4, <1>5, <1>6, <1>8

\* Over all topics a driver that is used adds exactly its weight.
LEMMA DriverSum ==
    ASSUME NEW in, IsInputs(in), NEW weight \in Int, NEW field \in Fields
    PROVE  /\ \A t \in DOMAIN in : Driver(in, weight, field)[t] \in Int
           /\ SumFunctionOnSet(Driver(in, weight, field), DOMAIN in)
                  = Den(in) * UsedWeight(in, weight, field)
<1> DEFINE D == Driver(in, weight, field)
           T == Total(in, field)
           q == Den(in) \div T
           f == [t \in DOMAIN in |-> in[t][field]]
<1>0. IsFiniteSet(DOMAIN in) /\ T \in Int /\ \A t \in DOMAIN in : f[t] \in Int
    BY TotalInt DEF IsInputs
<1>1. CASE T > 0
    <2>1. q \in Nat /\ Den(in) = T * q
        BY <1>1, DenMultiple
    <2>2. weight * q \in Int
        <3> HIDE DEF q
        <3> QED BY <2>1
    <2>3. \A t \in DOMAIN in : D[t] = (weight * q) * f[t] /\ D[t] \in Int
        <3> SUFFICES ASSUME NEW t \in DOMAIN in
                     PROVE  D[t] = (weight * q) * f[t] /\ D[t] \in Int
            OBVIOUS
        <3>1. D[t] = weight * f[t] * q
            BY <1>1 DEF Driver
        <3>2. f[t] \in Int
            BY <1>0
        <3> HIDE DEF q, f, D
        <3> QED BY <2>1, <3>1, <3>2
    <2>4. SumFunctionOnSet(f, DOMAIN in) = T
        BY DEF Total, SumFunction
    <2>5. SumFunctionOnSet(D, DOMAIN in) = (weight * q) * T
        <3>1. SumFunctionOnSet(D, DOMAIN in) = (weight * q) * SumFunctionOnSet(f, DOMAIN in)
            <4> HIDE DEF f, D, q
            <4> QED BY <1>0, <2>2, <2>3, SumTimes
        <3> QED BY <2>4, <3>1
    <2>6. (weight * q) * T = (T * q) * weight
        <3> HIDE DEF q, T
        <3> QED BY <1>0, <2>1
    <2> QED BY <1>1, <2>1, <2>3, <2>5, <2>6 DEF UsedWeight
<1>2. CASE ~(T > 0)
    <2>1. \A t \in DOMAIN in : D[t] = 0
        BY <1>2 DEF Driver
    <2>2. SumFunctionOnSet(D, DOMAIN in) = 0
        <3> HIDE DEF D
        <3> QED BY <1>0, <2>1, SumZero
    <2>3. Den(in) * 0 = 0
        BY DenMultiple
    <2> QED BY <1>2, <2>1, <2>2, <2>3 DEF UsedWeight
<1> QED BY <1>1, <1>2

UsedWeights(in) == UsedWeight(in, Weights.storage, "retained")
                       + UsedWeight(in, Weights.throughput, "through")
                       + UsedWeight(in, Weights.partition, "partitions")

\* All shares together are the weights of the drivers in use.
LEMMA ShareSum ==
    ASSUME NEW in, IsInputs(in)
    PROVE  LET share == [t \in DOMAIN in |-> weightedShare(in, t)]
           IN  /\ \A t \in DOMAIN in : share[t] \in Int
               /\ SumFunctionOnSet(share, DOMAIN in) = Den(in) * UsedWeights(in)
<1> DEFINE S == Driver(in, Weights.storage, "retained")
           U == Driver(in, Weights.throughput, "through")
           P == Driver(in, Weights.partition, "partitions")
           SU == [t \in DOMAIN in |-> S[t] + U[t]]
           share == [t \in DOMAIN in |-> weightedShare(in, t)]
           Sum(f) == SumFunctionOnSet(f, DOMAIN in)
           s == UsedWeight(in, Weights.storage, "retained")
           u == UsedWeight(in, Weights.throughput, "through")
           p == UsedWeight(in, Weights.partition, "partitions")
<1>0. IsFiniteSet(DOMAIN in) /\ Den(in) \in Nat
    <2>1. "retained" \in Fields
        BY DEF Fields
    <2> QED BY <2>1, DenMultiple DEF IsInputs
<1>1. /\ Weights.storage \in Int /\ Weights.throughput \in Int /\ Weights.partition \in Int
      /\ s \in Int /\ u \in Int /\ p \in Int
    BY DEF Weights, UsedWeight
<1>2. /\ \A t \in DOMAIN in : S[t] \in Int /\ U[t] \in Int /\ P[t] \in Int
      /\ Sum(S) = Den(in) * s /\ Sum(U) = Den(in) * u /\ Sum(P) = Den(in) * p
    BY <1>1, DriverSum DEF Fields
<1>3. \A t \in DOMAIN in : share[t] = SU[t] + P[t] /\ SU[t] = S[t] + U[t]
    <2> SUFFICES ASSUME NEW t \in DOMAIN in PROVE share[t] = SU[t] + P[t]
        OBVIOUS
    <2>1. weightedShare(in, t) = S[t] + U[t] + P[t]
        <3>1. ShareDen(in) \div 100 = Den(in)
            BY DenMultiple DEF Fields
        <3> QED BY <3>1 DEF weightedShare, Driver
    <2> QED BY <2>1
<1>4. Sum(SU) = Sum(S) + Sum(U)
    <2>1. \A t \in DOMAIN in : S[t] \in Int /\ U[t] \in Int /\ SU[t] = S[t] + U[t]
        BY <1>2
    <2> HIDE DEF S, U, SU
    <2> QED BY <1>0, <2>1, SumPlus
<1>5. Sum(share) = Sum(SU) + Sum(P)
    <2>1. \A t \in DOMAIN in : SU[t] \in Int /\ P[t] \in Int /\ share[t] = SU[t] + P[t]
        BY <1>2, <1>3
    <2> HIDE DEF P, SU, share
    <2> QED BY <1>0, <2>1, SumPlus
<1>6. Sum(share) = Den(in) * (s + u + p)
    <2>1. Sum(share) = Den(in) * s + Den(in) * u + Den(in) * p
        BY <1>2, <1>4, <1>5
    <2> HIDE DEF Sum, share, s, u, p
    <2> QED BY <1>0, <1>1, <2>1
<1>7. \A t \in DOMAIN in : share[t] \in Int
    <2>1. \A t \in DOMAIN in : share[t] = S[t] + U[t] + P[t]
        BY <1>3
    <2> HIDE DEF S, U, P, share
    <2> QED BY <1>2, <2>1
<1> QED BY <1>6, <1>7 DEF UsedWeights

\* What allocate charges, and the sum of it.
LEMMA AllocateSum ==
    ASSUME NEW in, IsInputs(in), NEW cost \in Int
    PROVE  LET charges == Allocate(cost, in)
           IN  /\ DOMAIN charges = DOMAIN in /\ \A t \in DOMAIN in : charges[t] \in Int
               /\ 100 * SumFunction(charges) = Max({0, cost}) * ShareDen(in) * UsedWeights(in)
<1> DEFINE charges == Allocate(cost, in)
           share == [t \in DOMAIN in |-> weightedShare(in, t)]
           Sum(f) == SumFunctionOnSet(f, DOMAIN in)
<1>0. /\ IsFiniteSet(DOMAIN in) /\ Den(in) \in Nat /\ ShareDen(in) = 100 * Den(in)
      /\ UsedWeights(in) \in Int
    <2>1. "retained" \in Fields
        BY DEF Fields
    <2> QED BY <2>1, DenMultiple DEF IsInputs, UsedWeights, UsedWeight, Weights
<1>1. DOMAIN charges = DOMAIN in /\ SumFunction(charges) = Sum(charges)
    BY DEF Allocate, SumFunction
<1>2. CASE cost > 0
    <2>0. /\ \A t \in DOMAIN in : share[t] \in Int
          /\ Sum(share) = Den(in) * UsedWeights(in)
        BY ShareSum
    <2>1. \A t \in DOMAIN in : share[t] \in Int /\ charges[t] = cost * share[t]
        BY <1>2, <2>0 DEF Allocate
    <2>2. Sum(charges) = cost * Sum(share)
        <3> HIDE DEF charges, share
        <3> QED BY <1>0, <2>1, SumTimes
    <2>4. \A t \in DOMAIN in : charges[t] \in Int
        <3> HIDE DEF charges, share
        <3> QED BY <2>1
    <2>5. Max({0, cost}) = cost
        BY <1>2, MaxWithZero
    <2>6. 100 * (cost * (Den(in) * UsedWeights(in)))
              = cost * (100 * Den(in)) * UsedWeights(in)
        BY <1>0
    <2> QED BY <1>0, <1>1, <2>0, <2>2, <2>4, <2>5, <2>6
<1>3. CASE ~(cost > 0)
    <2>1. \A t \in DOMAIN in : charges[t] = 0
        BY <1>3 DEF Allocate
    <2>2. Sum(charges) = 0
        <3> HIDE DEF charges
        <3> QED BY <1>0, <2>1, SumZero
    <2>3. Max({0, cost}) = 0
        BY <1>3, MaxWithZero
    <2>4. 0 * ShareDen(in) * UsedWeights(in) = 0
        BY <1>0
    <2> QED BY <1>1, <2>1, <2>2, <2>3, <2>4
<1> QED BY <1>2, <1>3

(***************************************************************************)
(* The command.                                                              *)
(***************************************************************************)
LEMMA CostInvariant == CostSpec => []CostInv
<1>1. CostInit => CostInv
    <2> SUFFICES ASSUME CostInit PROVE CostInv
        OBVIOUS
    <2>1. ASSUME NEW t \in DOMAIN inputs, NEW field \in Fields
          PROVE  inputs[t][field] \in Int
        BY CostAssumption DEF CostInit, Fields
    <2>2. IsFiniteSet(DOMAIN inputs) /\ monthly \in Int /\ step = "loaded"
        BY CostAssumption DEF CostInit
    <2> QED BY <2>1, <2>2 DEF CostInv, IsInputs
<1>2. CostInv /\ [CostNext]_costVars => CostInv'
    <2> SUFFICES ASSUME CostInv, [CostNext]_costVars PROVE CostInv'
        OBVIOUS
    <2>1. CASE AllocateTopics
        BY <2>1 DEF AllocateTopics, CostInv, IsInputs
    <2>2. CASE RenderTopics
        BY <2>2 DEF RenderTopics, CostInv, IsInputs
    <2>3. CASE RenderTeams
        BY <2>3 DEF RenderTeams, CostInv, IsInputs
    <2>4. CASE Rendered \/ UNCHANGED costVars
        BY <2>4 DEF Rendered, costVars, CostInv, IsInputs
    <2> QED BY <2>1, <2>2, <2>3, <2>4 DEF CostNext
<1> QED BY <1>1, <1>2, PTL DEF CostSpec

\* The topics are charged exactly the weights of the drivers that some topic
\* uses, and nobody is charged a cost that is not positive, whatever the
\* snapshot's sizes are (cost.go:126-168).
THEOREM SplitIsExact == CostSpec => []SplitExact
<1>1. ASSUME CostInv, step # "loaded"
      PROVE  100 * AllocSum = Max({0, monthly}) * ShareDen(inputs) * UsedWeights(inputs)
    <2>1. AllocSum = SumFunction(Allocate(monthly, inputs))
        BY <1>1 DEF CostInv, AllocSum
    <2> QED BY <1>1, <2>1, AllocateSum DEF CostInv
<1>2. CostInv => SplitExact
    BY <1>1 DEF SplitExact, UsedWeights, UsedWeight
<1> QED BY <1>2, CostInvariant, PTL

\* Whatever the --team rules match, the teams together are charged what the
\* topics are: a topic belongs to exactly one team (cost.go:181-203).
THEOREM TeamsAreConserved == CostSpec => []TeamsConserve
<1>1. ASSUME CostInv, step = "rendered", teams # <<>>
      PROVE  SumFunction(byTeam) = AllocSum
    <2> DEFINE T == DOMAIN alloc
               k == [t \in T |-> teamFor(teams, t)]
               C == {k[t] : t \in T}
               members == [c \in C |-> {t \in T : k[t] = c}]
    <2>1. IsFiniteSet(T) /\ \A t \in T : alloc[t] \in Int
        <3>1. alloc = Allocate(monthly, inputs)
            BY <1>1 DEF CostInv
        <3> QED BY <1>1, <3>1, AllocateSum DEF CostInv, IsInputs
    <2>2. IsFiniteSet(C)
        <3>1. k \in Surjection(T, C)
            BY DEF Surjection
        <3> HIDE DEF k, C, T
        <3> QED BY <2>1, <3>1, FS_Surjection
    <2>3. /\ DOMAIN byTeam = C
          /\ \A c \in C : byTeam[c] = SumFunctionOnSet(alloc, members[c])
        <3>1. byTeam = eurByTeam(teams, alloc)
            BY <1>1 DEF CostInv
        <3>2. C = {teamFor(teams, t) : t \in DOMAIN alloc}
            OBVIOUS
        <3>3. \A c : {t \in T : k[t] = c} = {t \in T : teamFor(teams, t) = c}
            OBVIOUS
        <3> QED BY <3>1, <3>2, <3>3 DEF eurByTeam
    <2>4. /\ \A t \in T : k[t] \in C
          /\ \A c \in C : members[c] = {t \in T : k[t] = c}
        OBVIOUS
    <2>5. SumFunctionOnSet(byTeam, C) = SumFunctionOnSet(alloc, T)
        <3> HIDE DEF T, C, k, members
        <3> QED BY <2>1, <2>2, <2>3, <2>4, SumByClass
    <2> QED BY <2>3, <2>5 DEF SumFunction, AllocSum
<1>2. CostInv => TeamsConserve
    BY <1>1 DEF TeamsConserve
<1> QED BY <1>2, CostInvariant, PTL
=============================================================================
