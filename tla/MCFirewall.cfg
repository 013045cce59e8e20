CONSTANTS
    Holders = {l1, l2}
    NoHolder = none
    Limits = {"limit"}
    Place <- MCPlace
    Pair = "pair"
    HostEdits = 2
SPECIFICATION FirewallSpec
SYMMETRY Symmetry
CHECK_DEADLOCK FALSE
INVARIANTS FirewallInv RulesComplete
PROPERTIES RulesStay AppendsRules
