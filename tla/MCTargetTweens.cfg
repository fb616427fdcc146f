CONSTANTS
    player = player
    sub1 = sub1
    Window = {player, sub1}
    Player = player
    Drawer = {player}
    Size = {1, 2}
    Null = Null
    MaxDepth = 2
    Departures = {}
SPECIFICATION FairSpec
INVARIANTS AnimsCounted PendingMeansTween
PROPERTY Answered
