\* Small frames of which two supports move.
SPECIFICATION Spec
CONSTANTS
    COUPLED = 10000
    P = 101
    Inputs <- MoveInputs
INVARIANTS Equilibrium
CHECK_DEADLOCK FALSE
