SPECIFICATION HeapSpec
CHECK_DEADLOCK FALSE
INVARIANT ToBeFreed
