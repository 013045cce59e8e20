SPECIFICATION Spec
CONSTANTS
    Launchers = {l1, l2}
    NoOne = NoOne
    Selections <- MCSelections
    FaultPoints <- SomeFaults
    Killable = {"child"}
SYMMETRY Symmetry
INVARIANT Supervised
PROPERTY WritesRules
