CONSTANT NameSizes = {2, 3, 4, 5, 6, 7, 8, 13, 14, 15, 16}
SPECIFICATION NlmsgSpec
CHECK_DEADLOCK FALSE
INVARIANTS NlmsgInv ReadBack
