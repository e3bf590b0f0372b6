SPECIFICATION Spec
CONSTANTS
    GpRegisters = 3
    FpRegisters = 2
    CallSites <- MCCallSites
INVARIANTS
    CallsArrive
    FollowsSystemV
