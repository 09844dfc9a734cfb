CONSTANTS
    MaxInvokes = 2
    MaxEvents = 2
    MaxCrashes = 0
    MaxLost = 0
    Publishes = {}
    StampsFail = FALSE
    ParticipantsFail = FALSE
    DeferredDefer = TRUE
    RequestIds <- MCRequestIds
SPECIFICATION Spec
PROPERTIES
    DeferredDelivered
CHECK_DEADLOCK FALSE
