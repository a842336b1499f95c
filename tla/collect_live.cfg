SPECIFICATION FairSpec
CONSTANTS
    Topics = {t1, t2}
    NumPartitions = 1
    Brokers = {b1}
    Groups = {g1}
    Configs <- TwoConfigs
    Internal = {t2}
    MaxEnd = 0
    Churn = {"topics", "config"}
    Faults = {"request"}
    Options <- AnyOptions
    MaxChanges = 2
INVARIANT FailureHasCause
PROPERTY Returns
