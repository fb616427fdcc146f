CONSTANTS
    None = None
    Lower <- Spellings
    ByName <- Names
    ContainerId = "main"
    LayoutId = "normal"
    GroupIds = {"a", "A", "b", "c"}
    Skins <- AllSkins
    Nesting = 4
    Nested <- Depths
    Extent = {1, 4, 5}
    Position <- Positions
SPECIFICATION Spec
INVARIANTS OneCallPerName TreeIsTheUnfolding OwnScript PanesTile FilesAreSpliced
CHECK_DEADLOCK FALSE
