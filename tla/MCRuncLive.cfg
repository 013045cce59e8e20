SPECIFICATION FairSpec
CONSTANTS
    Launchers = {l1, l2}
    NoOne = NoOne
    Selections <- MCLiveSelections
    FaultPoints = {}
    Killable = {"parent", "child"}
PROPERTIES
    BootSettles
    LauncherEnds
