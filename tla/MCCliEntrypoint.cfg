CONSTANTS
    Words = {"", "cmd", "5", "64"}
    NoWord = NoWord
    Empty = ""
    Garbage = "cmd"
    InRange <- MCInRange
    Letters = {"-", "a", "c", "x", "U", "M", "C", "P"}
    Clusters <- MCClusters
    MaxArgs = 3
SPECIFICATION CliSpec
CHECK_DEADLOCK FALSE
INVARIANT EntrypointWhole
