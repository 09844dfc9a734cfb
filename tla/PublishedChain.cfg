CONSTANTS
    MaxInvokes = 2
    MaxEvents = 2
    MaxCrashes = 0
    MaxLost = 0
    Publishes = {"immediate"}
    StampsFail = FALSE
    ParticipantsFail = FALSE
    DeferredDefer = FALSE
    RequestIds <- MCRequestIds
SPECIFICATION Spec
INVARIANTS
    OneRequestPerPublish
CHECK_DEADLOCK FALSE
