CONSTANTS
    MaxInvokes = 3
    MaxEvents = 2
    MaxCrashes = 1
    MaxLost = 1
    Publishes = {}
    StampsFail = FALSE
    ParticipantsFail = FALSE
    DeferredDefer = FALSE
    RequestIds <- MCRequestIds
SPECIFICATION Spec
INVARIANTS
    TypeOK
    AuditMatchesOutcome
    OutcomeIsTruthful
    NoCommitWithoutSuccessRow
    OneSnapshotPerTopLevel
    CausalOrder
    DeferredOnlyAfterCommit
    OneRequestPerChain
PROPERTIES
    NeverRetroactivelyFailed
    SnapshotIsTheTrail
    DeferredDelivered
CHECK_DEADLOCK FALSE
