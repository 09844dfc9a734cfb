CONSTANTS
    MaxInvokes = 1
    MaxEvents = 1
    MaxCrashes = 0
    MaxLost = 0
    Publishes = {}
    StampsFail = FALSE
    ParticipantsFail = TRUE
    DeferredDefer = FALSE
    RequestIds <- MCRequestIds
SPECIFICATION Spec
INVARIANTS
    OutcomeIsTruthful
CHECK_DEADLOCK FALSE
