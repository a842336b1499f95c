SPECIFICATION Spec
CONSTANTS
    Topics = {t1}
    NumPartitions = 1
    Brokers = {b1}
    Groups = {g1}
    Configs <- OneConfig
    Internal = {}
    MaxEnd = 0
    Churn = {}
    Faults = {}
    Options <- AnyWindow
    MaxChanges = 0
INVARIANT NotLate
