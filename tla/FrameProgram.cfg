\* Small frames under two loads, from the input file to the printed tables.
SPECIFICATION FrameSpec
CONSTANTS
    COUPLED = 10000
    P = 101
    Inputs <- FrameInputs
    Files <- FrameFiles
INVARIANTS NumberedOnce StiffnessAssembled Equilibrium NodesBalance LateralForcesHold EchoIsInput PrintedAsPrescribed ReactionsBalanceLoads
CHECK_DEADLOCK FALSE
