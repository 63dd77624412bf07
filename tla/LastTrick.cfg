CONSTANTS
    Shuffles <- SomeOrders
    HandCards = 3
    Target = 12
SPECIFICATION Spec
PROPERTIES LastTrickIsAPoint
