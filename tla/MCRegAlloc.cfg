CONSTANTS
    Half = 4
    ColorOrder <- MCColorOrder
    CallerSaved <- MCCallerSaved
    ArgRegs <- MCArgRegs
    Functions <- MCFunctions
    Samples <- MCSamples
SPECIFICATION Spec
INVARIANTS
    GraphIsWellFormed
    MergesAreSafe
    RegistersAreNotShared
    MergedGetRegisters
    AllocatedBehaves
PROPERTY AllocationTerminates
