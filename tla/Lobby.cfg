CONSTANTS
    u1 = u1
    u2 = u2
    s1 = s1
    s2 = s2
    Users = {u1, u2}
    Sessions = {s1, s2}
    NoSession = nosession
    NoOne = noone
    Robot = robot
    PlayerMode = 2
    MaxTables = 2
SPECIFICATION Spec
SYMMETRY AlikeLobby
CONSTRAINT OneAstray
INVARIANTS LobbyTypeOK MapLeadsToSeat SeatKnown OneVoice OnlineIsTrue
PROPERTIES AbsentOnlyFromGame
