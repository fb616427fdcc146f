CONSTANTS
    button = button
    lamp = lamp
    wide = wide
    light = light
    dark = dark
    plain = plain
    more = more
    less = less
    repeat = repeat
    fade = fade
    Toggle = {lamp, light, dark}
    States = {button, wide, plain}
    Stepper = {more, less}
    Key = {repeat, fade}
    KeyOf <- Keys
    Seed <- Lit
    OnValue <- On
    NStates <- Counts
    Vals <- Values
    Step <- Steps
    Renewed = {}
    Unwritten = Unwritten
SPECIFICATION ControlsSpec
INVARIANT ControlsAgree
PROPERTY ClickAdvances
