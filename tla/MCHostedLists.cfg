CONSTANTS
    t1 = t1
    t2 = t2
    Track = {t1, t2}
    Tag <- TrackTags
    MaxRows = 2
    Label = {"Now Playing"}
    MaxItem = 3
    Presets <- TwoPresets
    Fallback <- FallbackTree
    All = All
    NoMenu = NoMenu
    NoTrack = NoTrack
    VisRows = 1
    None = None
    Registered = {"pl", "ml"}
SPECIFICATION Spec
INVARIANTS NoOrphans SelectionReported ListingAgrees PlaysWhatIsShown CurrentIsARow
