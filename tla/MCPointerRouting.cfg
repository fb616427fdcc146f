CONSTANTS
    volume = volume
    playlist = playlist
    close = close
    Slider = {volume}
    Holder = {playlist}
    Button = {close}
    Place <- Places
    Half = 1
    WindowRect <- Toplevel
    Spot <- Spots
    Screen <- Screens
    EM = 1
    CM = 1
    MINW <- LeastWidth
    MINH <- LeastHeight
    Notch = 2
    Turn <- Turns
    MaxLoads = 2
    Nobody = Nobody
    Unset = Unset
SPECIFICATION PointerSpec
INVARIANTS ThumbsTellTheHost LitWillBeCleared FollowsTheGrip WheelOwesLessThanANotch
