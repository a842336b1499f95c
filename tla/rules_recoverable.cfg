SPECIFICATION Spec
CONSTANTS
    Snapshots <- CollectedSnapshots
    CostModels <- MCCostModels
    Cfg <- MCCfg
    MonthUnits = 3
    MaxInt = 15
INVARIANT Recoverable
