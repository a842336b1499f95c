SPECIFICATION Spec
CONSTANTS
    Topics = {t1}
    NumPartitions = 1
    Brokers = {b1, b2}
    Groups = {}
    Configs <- OneConfig
    Internal = {}
    MaxEnd = 4
    Churn = {"append", "expire", "reassign", "move"}
    Faults = {"partition", "dir"}
    Options <- Sampled
    MaxChanges = 3
    MinRetained = 1
    MaxBytesIn = 1
INVARIANT EstimateBounded
INVARIANT DeadIsIdle
