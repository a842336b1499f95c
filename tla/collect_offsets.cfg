SPECIFICATION Spec
CONSTANTS
    Topics = {t1}
    NumPartitions = 2
    Brokers = {b1}
    Groups = {}
    Configs <- OneConfig
    Internal = {}
    MaxEnd = 2
    Churn = {"topics", "partitions", "append", "expire"}
    Faults = {"partition"}
    Options <- Sampled
    MaxChanges = 4
INVARIANT TypeOK
INVARIANT OffsetsOrdered
INVARIANT DeltaSound
PROPERTY OffsetReads
