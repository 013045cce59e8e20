CONSTANTS
    Words = {"", "cmd", "5", "64"}
    NoWord = NoWord
    Empty = ""
    Garbage = "cmd"
    InRange <- MCInRange
    Letters = {"-", "a", "c", "x", "U", "M", "C", "P"}
    Clusters <- MCClusters
    MaxArgs = 4
SPECIFICATION CliSpec
CHECK_DEADLOCK FALSE
INVARIANTS CliInv ReadAsMeant
