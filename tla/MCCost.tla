------------------------------- MODULE MCCost -------------------------------
EXTENDS Cost

Names == {"orders", "clicks", "logs"}
Row == [retained : {0, 3}, through : {0, 2}, partitions : {1, 2}]
MCTopicInputs == UNION {[N -> Row] : N \in SUBSET Names}
MCMonthlyCosts == {-100, 0, 100}
MCTeamRules ==
    {<<>>,
     <<[matches |-> {"orders", "clicks"}, name |-> "web"],
       [matches |-> {"clicks", "logs"}, name |-> "data"]>>,
     <<[matches |-> {"orders"}, name |-> "web"],
       [matches |-> Names, name |-> "web"]>>}
=============================================================================
