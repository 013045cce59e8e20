SPECIFICATION Spec
CONSTANTS
    Containers = {c1, c2}
    Host = Host
    Devices = {"null", "tty"}
    FaultStages = {"private", "mount", "detach"}
SYMMETRY Symmetry
INVARIANTS
    RootfsInv
    OldRootGone
    SharedDirClean
PROPERTIES
    NeverRefused
    Isolated
    NewRootSealed
    SwapsRoot
