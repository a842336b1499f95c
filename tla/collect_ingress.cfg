SPECIFICATION Spec
CONSTANTS
    Topics = {t1}
    NumPartitions = 1
    Brokers = {b1, b2}
    Groups = {}
    Configs <- OneConfig
    Internal = {}
    MaxEnd = 2
    Churn = {"append"}
    Faults = {}
    Options <- Sampled
    MaxChanges = 1
INVARIANT EstimateIsIngress
