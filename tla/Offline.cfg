CONSTANTS
    Shuffles <- SomeOrders
    HandCards = 3
    Target = 12
SPECIFICATION FairSpec
INVARIANTS OfflineTypeOK CardsEven PointsAddUp OneThingDue MatchDecided TrickFollows
PROPERTIES MatchEnds
