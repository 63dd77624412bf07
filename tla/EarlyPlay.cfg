CONSTANTS
    u1 = u1
    u2 = u2
    noone = noone
    robot = robot
    Users = {u1, u2}
    Bots = {}
    NoOne = noone
    Robot = robot
    PlayerMode = 2
    Deck = {0, 4, 13, 17}
    HandSize = 2
    PointToWin = 9
    MaxPoints = 9
    StartDelay = 0
    DealDelay = 0
    FirstHandDelay = 1
    DrawDelay = 0
    HandDelay = 0
    HandDelayDraw = 1
    RoundDelay = 0
    KickDelay = 0
    NextDelay = 1
    PrepareDelay = 1
    MaxLate = 0
    Inputs = {"early play"}
SPECIFICATION Spec
SYMMETRY Alike
INVARIANTS HandsLevel
