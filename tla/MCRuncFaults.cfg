SPECIFICATION Spec
CONSTANTS
    Launchers = {l1, l2}
    NoOne = NoOne
    Selections <- MCSelections
    FaultPoints <- CheckedFaults
    Killable = {"parent", "child"}
SYMMETRY Symmetry
INVARIANTS
    TypeOK
    IInv
    ContainerConfined
    NoForeignLimits
    RmdirAccepted
    AllReleased
    ExecReady
    OneNetwork
    WaitsConfigured
PROPERTIES
    OwnerRemoves
    KeepsLocks
    WritesRules
