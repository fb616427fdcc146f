CONSTANTS
    player = player
    sub1 = sub1
    t1 = t1
    Window = {player, sub1}
    Player = player
    Null = Null
    MaxFrames = 4
    MaxLoads = 2
    Departures = {}
    Timer = {t1}
SPECIFICATION FairTimerSpec
CHECK_DEADLOCK FALSE
INVARIANTS Isolation OwnerIsHome HandlersRunHome NoDanglingWidget
PROPERTY ZombiesReaped
