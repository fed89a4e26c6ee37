SPECIFICATION FairSpec
CONSTANTS
    Event = {e1}
    Automation = {a1}
    Definitions <- GuardedIds
    Steps <- Guarded
    MaxRetries = 1
    MaxTriggerAttempts = 2
    MaxTroubles = 2
INVARIANTS
    EventsAreAnswered
PROPERTIES
    EffectsAreDue
    RunEnds
CHECK_DEADLOCK FALSE
