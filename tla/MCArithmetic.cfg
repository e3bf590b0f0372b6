SPECIFICATION Spec
CONSTANTS
    IntBits = 4
    Jobs <- MCJobs
INVARIANT
    ComputesTheOperation
