SPECIFICATION Spec
CONSTANTS
    Topics = {t1}
    NumPartitions = 1
    Brokers = {b1, b2}
    Groups = {g1}
    Configs <- OneConfig
    Internal = {}
    MaxEnd = 1
    Churn = {"groups", "coordinator", "commit"}
    Faults = {"fetch"}
    Options <- AnyWindow
    MaxChanges = 4
    MinRetained = 1
    MaxBytesIn = 1
SYMMETRY BrokerSymmetry
INVARIANT ConsumersCounted
INVARIANT NoGhostConsumers
INVARIANT SampledNotLate
INVARIANT DeadIsUnconsumed
INVARIANT OrphanIsUnowned
PROPERTY GroupReads
