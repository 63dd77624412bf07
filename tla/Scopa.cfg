CONSTANTS
    Shuffles <- SomeOrders
    HandCards = 3
    TableCards = 4
    Target = 4
    DealTime = 1
    PlaceTime = 1
    CaptureTime = 2
    PauseTime = 2
    HandPause = 1
    NextHandTime = 3
    BotTime = 1
    MenuUsed = TRUE
    MaxRounds = 2
SPECIFICATION FairSpec
INVARIANTS ScopaTypeOK CardsKept PhaseInStep RoundSettled
PROPERTIES CapturesLegal MustCapture LastCapturerSweeps BotFollowsPriorities RoundEnds
