CONSTANTS
    u1 = u1
    u2 = u2
    u3 = u3
    b1 = b1
    noone = noone
    robot = robot
    Users = {u1, u2, u3}
    Bots = {b1}
    NoOne = noone
    Robot = robot
    PlayerMode = 2
    Deck = {0, 5}
    HandSize = 1
    PointToWin = 3
    MaxPoints = 3
    StartDelay = 0
    DealDelay = 0
    FirstHandDelay = 0
    DrawDelay = 0
    HandDelay = 0
    HandDelayDraw = 0
    RoundDelay = 0
    KickDelay = 0
    NextDelay = 1
    PrepareDelay = 1
    MaxLate = 1
    Inputs = {"leave", "drop", "astray"}
SPECIFICATION Spec
SYMMETRY Alike
CONSTRAINT OneAstray
INVARIANTS PlacedOnce SeatsFullInGame WatchersOnline
PROPERTIES KickedBeforeRematch SeatsKeptInGame KeepsContract
