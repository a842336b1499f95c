-------------------------------- MODULE Cost --------------------------------
(***************************************************************************)
(* `brod cost` over a loaded snapshot: allocate, then group by team when     *)
(* --team rules were given.                                                  *)
(***************************************************************************)
EXTENDS CostModel

CONSTANTS
    TopicInputs,    \* the snapshots' topics: name -> retained, through, partitions
    MonthlyCosts,   \* --cost
    TeamRules       \* --team flags

ASSUME CostAssumption ==
    /\ \A in \in TopicInputs :
          /\ IsFiniteSet(DOMAIN in)
          /\ \A t \in DOMAIN in :
                in[t].retained \in Int /\ in[t].through \in Int /\ in[t].partitions \in Int
    /\ MonthlyCosts \subseteq Int

VARIABLES step, inputs, monthly, teams, alloc, byTeam

costVars == <<step, inputs, monthly, teams, alloc, byTeam>>

CostInit ==
    /\ step = "loaded"
    /\ inputs \in TopicInputs /\ monthly \in MonthlyCosts /\ teams \in TeamRules
    /\ alloc = <<>> /\ byTeam = <<>>

AllocateTopics ==
    /\ step = "loaded"
    /\ alloc' = Allocate(monthly, inputs)
    /\ step' = "allocated"
    /\ UNCHANGED <<inputs, monthly, teams, byTeam>>

\* Without a --team flag the topics' own charges are the output.
RenderTopics ==
    /\ step = "allocated" /\ teams = <<>>
    /\ step' = "rendered"
    /\ UNCHANGED <<inputs, monthly, teams, alloc, byTeam>>

RenderTeams ==
    /\ step = "allocated" /\ teams # <<>>
    /\ byTeam' = eurByTeam(teams, alloc)
    /\ step' = "rendered"
    /\ UNCHANGED <<inputs, monthly, teams, alloc>>

Rendered == step = "rendered" /\ UNCHANGED costVars

CostNext == AllocateTopics \/ RenderTopics \/ RenderTeams \/ Rendered

CostSpec == CostInit /\ [][CostNext]_costVars

AllocSum == SumFunction(alloc)

\* The topics are charged exactly the weights of the drivers that some topic
\* uses, so never more than the cluster costs, and less when a driver is not
\* measured; a cost that is not positive charges nobody (cost.go:126-168).
SplitExact ==
    step # "loaded" =>
        LET Used(weight, field) == IF Total(inputs, field) > 0 THEN weight ELSE 0
        IN  100 * AllocSum = Max({0, monthly}) * ShareDen(inputs) *
                (Used(Weights.storage, "retained") + Used(Weights.throughput, "through")
                     + Used(Weights.partition, "partitions"))

\* Grouping by team neither drops nor repeats a topic's charge, however the
\* --team rules overlap (cost.go:181-203).
TeamsConserve ==
    step = "rendered" /\ teams # <<>> =>
        SumFunction(byTeam) = AllocSum
=============================================================================
