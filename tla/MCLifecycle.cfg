\* Three snapshots, so that rotation has an older one to drop and two can be
\* current at once; two images, so that one replaces another.
SPECIFICATION Spec
CONSTANTS
    MaxSnapshots = 3
    BackoffLimit = 1
    MaxLag = 1
    MaxImages = 2
    Contents = {0, 1}
    Data <- ChangedBack
    Unknown = unknown
INVARIANTS
    TypeOK
    LastSyncedKept
    PartialIsResumed
    PreviousWasApplied
    LatestImageWhole
