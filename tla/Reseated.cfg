CONSTANTS
    u1 = u1
    u2 = u2
    noone = noone
    robot = robot
    Users = {u1, u2}
    Bots = {}
    NoOne = noone
    Robot = robot
    PlayerMode = 2
    Deck = {0, 5}
    HandSize = 1
    PointToWin = 6
    MaxPoints = 12
    StartDelay = 0
    DealDelay = 0
    FirstHandDelay = 1
    DrawDelay = 0
    HandDelay = 0
    HandDelayDraw = 1
    RoundDelay = 0
    KickDelay = 0
    NextDelay = 1
    PrepareDelay = 1
    MaxLate = 0
    Inputs = {"leave"}
SPECIFICATION Spec
SYMMETRY Alike
PROPERTIES TargetEndsGame
