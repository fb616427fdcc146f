CONSTANTS
    player = player
    sub1 = sub1
    Window = {player, sub1}
    Player = player
    Null = Null
    MaxFrames = 4
    MaxLoads = 2
    Departures = {"broadcast", "reload"}
SPECIFICATION Spec
CHECK_DEADLOCK FALSE
INVARIANTS NothingLost NoDeadRoot RestingRoot
PROPERTY RefinesContexts
