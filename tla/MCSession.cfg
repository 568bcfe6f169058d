CONSTANT MaxSeq = 5
SPECIFICATION Spec
INVARIANTS NonceOnce OpenedIsPrefix
CHECK_DEADLOCK FALSE
