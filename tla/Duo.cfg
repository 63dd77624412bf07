CONSTANTS
    u1 = u1
    b1 = b1
    b2 = b2
    b3 = b3
    noone = noone
    robot = robot
    Users = {u1}
    Bots = {b1, b2, b3}
    NoOne = noone
    Robot = robot
    PlayerMode = 4
    Deck = {0, 12, 16, 20, 13, 17, 21, 25}
    HandSize = 2
    PointToWin = 3
    MaxPoints = 6
    StartDelay = 0
    DealDelay = 0
    FirstHandDelay = 1
    DrawDelay = 0
    HandDelay = 0
    HandDelayDraw = 1
    RoundDelay = 0
    KickDelay = 0
    NextDelay = 1
    PrepareDelay = 1
    MaxLate = 0
    Inputs = {"overtime"}
SPECIFICATION Spec
SYMMETRY Alike
CONSTRAINT FirstGame
INVARIANTS TrickInOrder
