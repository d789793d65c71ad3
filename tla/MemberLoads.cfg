\* A chain of beams with one member load of each type.
SPECIFICATION Spec
CONSTANTS
    COUPLED = 10000
    P = 101
    Inputs <- ChainInputs
INVARIANTS MemberLoadsHeld
CHECK_DEADLOCK FALSE
