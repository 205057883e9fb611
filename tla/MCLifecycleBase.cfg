\* Three cycles: the third has two previous snapshots to choose its base from.
SPECIFICATION Spec
CONSTANTS
    MaxSnapshots = 3
    BackoffLimit = 1
    MaxLag = 0
    MaxImages = 3
    Contents = {0, 1}
    Data <- ChangedBack
    Unknown = unknown
INVARIANT
    BaseIsLastSynced
