----------------------------- MODULE CostModel -----------------------------
(***************************************************************************)
(* internal/cost: unit prices from the cost model, the weighted split of a   *)
(* monthly cost over topics, and cmd/brod/cost.go's split over teams.  Euros *)
(* are cents and bytes are GB; quotients are kept as a numerator and a       *)
(* denominator, so nothing is lost to rounding.                              *)
(***************************************************************************)
EXTENDS Integers, FiniteSets, Sequences, FiniteSetsExt

\* DefaultWeights, in percent.
Weights == [storage |-> 40, throughput |-> 40, partition |-> 20]

Quot(n, d) == [num |-> n, den |-> d]

\* Cents per GB-month and per GB.
providerPreset(provider) ==
    CASE provider = "confluent" -> [storage |-> 12, network |-> 4]
      [] provider = "msk"       -> [storage |-> 11, network |-> 2]
      [] OTHER                  -> [storage |-> 8, network |-> 1]

\* Slips: an operator named Slip_... is its neighbour with a plausible mistake,
\* used to check that a property would notice it.
\* Slip: the whole monthly cost is taken for storage.
Slip_NoWeight(cm, totalRetained) ==
    [storage |-> IF cm.monthly > 0 /\ totalRetained > 0
                 THEN Quot(cm.monthly, totalRetained)
                 ELSE Quot(providerPreset(cm.provider).storage, 1),
     network |-> providerPreset(cm.provider).network]

\* CostModel.Resolve: configured, else derived from the monthly cost, else the
\* preset.
Resolve(cm, totalRetained) ==
    LET preset == providerPreset(cm.provider)
    IN  [storage |-> IF cm.storage > 0 THEN Quot(cm.storage, 1)
                     ELSE IF cm.monthly > 0 /\ totalRetained > 0
                     THEN Quot(cm.monthly * Weights.storage, 100 * totalRetained)
                     ELSE Quot(preset.storage, 1),
         network |-> IF cm.network > 0 THEN cm.network ELSE preset.network]

\* Sum of a field over the topics.
Total(inputs, field) == SumFunction([t \in DOMAIN inputs |-> inputs[t][field]])

NonZero(n) == IF n > 0 THEN n ELSE 1

\* Denominator shared by every share of one allocation.
ShareDen(inputs) == 100 * NonZero(Total(inputs, "retained"))
                        * NonZero(Total(inputs, "through"))
                        * NonZero(Total(inputs, "partitions"))

\* Slip: a driver nobody uses charges its weight to every topic.
Slip_UnusedDriver(inputs, t) ==
    LET den == ShareDen(inputs) \div 100
        Part(weight, field) == IF Total(inputs, field) > 0
                               THEN weight * inputs[t][field] * (den \div Total(inputs, field))
                               ELSE weight * den
    IN  Part(Weights.storage, "retained") + Part(Weights.throughput, "through")
            + Part(Weights.partition, "partitions")

\* A driver nobody uses contributes nothing.
weightedShare(inputs, t) ==
    LET den == ShareDen(inputs) \div 100
        Part(weight, field) == IF Total(inputs, field) > 0
                               THEN weight * inputs[t][field] * (den \div Total(inputs, field))
                               ELSE 0
    IN  Part(Weights.storage, "retained") + Part(Weights.throughput, "through")
            + Part(Weights.partition, "partitions")

\* Cents of the monthly cost per topic, over ShareDen.
Allocate(monthly, inputs) ==
    [t \in DOMAIN inputs |-> IF monthly <= 0 THEN 0 ELSE monthly * weightedShare(inputs, t)]

\* The first --team rule that matches, in flag order.
teamFor(teams, t) ==
    LET hits == {i \in DOMAIN teams : t \in teams[i].matches}
    IN  IF hits = {} THEN "unassigned" ELSE teams[Min(hits)].name

\* Slip: every matching rule charges its team.
Slip_EveryMatch(teams, alloc) ==
    [team \in {teams[i].name : i \in DOMAIN teams} \cup {"unassigned"} |->
        SumFunctionOnSet(alloc,
            {t \in DOMAIN alloc : \/ \E i \in DOMAIN teams : /\ teams[i].name = team
                                                            /\ t \in teams[i].matches
                                  \/ teamFor(teams, t) = team})]

\* renderTeams: what each team is charged.
eurByTeam(teams, alloc) ==
    [team \in {teamFor(teams, t) : t \in DOMAIN alloc} |->
        SumFunctionOnSet(alloc, {t \in DOMAIN alloc : teamFor(teams, t) = team})]
=============================================================================
