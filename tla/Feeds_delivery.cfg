SPECIFICATION FairSpec
CONSTANTS
    s1 = s1
    s2 = s2
    Slots = {s1, s2}
    MaxScores = 3
    Overlapping = {s1}
    MaxCompletions = 1
    MaxFaults = 1
    Attempts = 2
INVARIANTS
    FeedShowsScores
    OnlyLateMessagesFail
    NoRoundAfterItsEnd
    RatedOncePerCompletion
PROPERTIES
    EventuallyDrained
CHECK_DEADLOCK FALSE
