SPECIFICATION Spec
CONSTANTS
    Launchers = {l1, l2, l3}
    NoOne = NoOne
    Selections <- MCOverlapping
    FaultPoints = {}
    Killable = {}
SYMMETRY Symmetry
INVARIANT NotAllLose
