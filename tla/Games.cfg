CONSTANTS
    u1 = u1
    b1 = b1
    noone = noone
    robot = robot
    Users = {u1}
    Bots = {b1}
    NoOne = noone
    Robot = robot
    PlayerMode = 2
    Deck = {0, 4, 5, 12, 13, 17}
    HandSize = 2
    PointToWin = 9
    MaxPoints = 9
    StartDelay = 0
    DealDelay = 0
    FirstHandDelay = 0
    DrawDelay = 0
    HandDelay = 0
    HandDelayDraw = 0
    RoundDelay = 0
    KickDelay = 0
    NextDelay = 1
    PrepareDelay = 0
    MaxLate = 0
    Inputs = {}
SPECIFICATION FairSpec
PROPERTIES GameEnds
