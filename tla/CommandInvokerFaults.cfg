CONSTANTS
    MaxInvokes = 2
    MaxEvents = 2
    MaxCrashes = 0
    MaxLost = 2
    Publishes = {"immediate", "deferred"}
    StampsFail = TRUE
    ParticipantsFail = TRUE
    DeferredDefer = TRUE
    RequestIds <- MCRequestIds
SPECIFICATION Spec
INVARIANTS
    NoCommitWithoutSuccessRow
    OneSnapshotPerTopLevel
    DeferredOnlyAfterCommit
    OneRequestPerChain
    JoinsOrOpens
PROPERTIES
    NeverRetroactivelyFailed
CHECK_DEADLOCK FALSE
