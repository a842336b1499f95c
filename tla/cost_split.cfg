SPECIFICATION CostSpec
CONSTANTS
    TopicInputs <- MCTopicInputs
    MonthlyCosts <- MCMonthlyCosts
    TeamRules <- MCTeamRules
INVARIANT SplitExact
INVARIANT TeamsConserve
