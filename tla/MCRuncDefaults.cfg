SPECIFICATION Spec
CONSTANTS
    Launchers = {l1, l2}
    NoOne = NoOne
    Selections <- MCSelections
    FaultPoints = {}
    Killable = {}
SYMMETRY Symmetry
INVARIANT DefaultsApplied
