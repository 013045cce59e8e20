SPECIFICATION HeapSpec
CHECK_DEADLOCK FALSE
INVARIANTS HeapInv NothingDangling TwiceAsInRunc
