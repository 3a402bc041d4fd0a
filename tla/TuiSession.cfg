SPECIFICATION SessionSpec
CONSTANTS
    Servers = {"a", "b"}
    NoServer = NoServer
    Home = "a"
    Paths <- SomePaths
    Dir <- SomeDir
    Items <- SomeItems
    Saved <- TwoProfiles
    Broken = Broken
    Calls = {c1, c2}
    MaxKeys = 6
SYMMETRY CallSymmetry
INVARIANTS
    CursorsInRange
    PaneIsCurrent
    VaultIsAsShown
    ProfilesKept
CHECK_DEADLOCK FALSE
