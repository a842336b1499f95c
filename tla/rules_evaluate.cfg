SPECIFICATION Spec
CONSTANTS
    Snapshots <- MCSnapshots
    CostModels <- MCCostModels
    Cfg <- MCCfg
    MonthUnits = 3
    MaxInt = 15
INVARIANT NeverBothDeleted
INVARIANT ProposalSafe
INVARIANT DeletionsWithinShare
INVARIANT PartitionSlice
INVARIANT SkewIsReal
