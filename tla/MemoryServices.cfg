CONSTANTS
    Processes = {p1, p2}
    Mortal = {p2}
SPECIFICATION Spec
INVARIANTS WorkClosesGate
CHECK_DEADLOCK FALSE
