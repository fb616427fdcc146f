CONSTANTS
    panel = panel
    strip = strip
    icon = icon
    backgrounds = backgrounds
    body = body
    led = led
    themed = themed
    closed = closed
    night = night
    classic = classic
    custom = custom
    dark = dark
    bright = bright
    Id = {panel, strip, icon}
    Group = {backgrounds, body, led}
    Backgrounds = backgrounds
    Body = body
    RoleOf <- Roles
    Drawers = {panel}
    Skin = {themed, closed}
    Doc <- Documents
    Theme = {night, classic, custom}
    Synthetic = {classic}
    Style <- Styles
    Transform = {plain, dark, bright}
    Plain = plain
    Colour = {yellow}
    Font = {digits}
    FontBitmap <- Bitmaps
    FontFile = {digits}
    Picture = {glyphs}
    File = {path}
    Unreadable = {}
    Baked = {panel}
    Label = {led}
    Plugin = {icon}
    Custom = {custom}
    Recolour = {bright}
    MaxParts = 1
    NoSkin = NoSkin
    NoGroup = NoGroup
    Undeclared = Undeclared
    NoSet = NoSet
    NoTheme = NoTheme
    NoColour = NoColour
    NoFile = NoFile
    Unthemed = Unthemed
    Missing = Missing
    NotCached = NotCached
SPECIFICATION Spec
INVARIANTS TintsFresh ThemeShown RuntimeIsLatest SyntheticCovers
