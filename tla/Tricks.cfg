CONSTANTS
    u1 = u1
    b1 = b1
    noone = noone
    robot = robot
    Users = {u1}
    Bots = {b1}
    NoOne = noone
    Robot = robot
    PlayerMode = 2
    Deck = {0, 4, 8, 12, 13, 16, 17, 21}
    HandSize = 3
    PointToWin = 6
    MaxPoints = 9
    StartDelay = 0
    DealDelay = 0
    FirstHandDelay = 2
    DrawDelay = 0
    HandDelay = 0
    HandDelayDraw = 1
    RoundDelay = 2
    KickDelay = 0
    NextDelay = 2
    PrepareDelay = 2
    MaxLate = 0
    Inputs = {"napoli", "overtime"}
SPECIFICATION Spec
CONSTRAINT NextGameOpens
INVARIANTS TypeOK FreshStart CardsDisjoint HandsLevel TrickInOrder LedSuitOnTable
PROPERTIES PointsConserved WinnerLeads
