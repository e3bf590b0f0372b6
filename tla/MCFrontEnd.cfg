CONSTANTS
    Mod = 3
    Parameter <- MCParameter
    MaxAnswers = 3
    MaxExpansionDepth = 12
    MaxIncludeDepth = 3
    IfBits = 4
    ByteBits = 2
    LiteralLimit = 30
    Jobs <- MCJobs
    VirtualHeaders <- MCVirtual
    Probes <- MCProbes
SPECIFICATION Spec
INVARIANTS
    PreprocessesAsWritten
    TableIsCurrent
    ParsesWhatWasWritten
    RejectsTheInvalid
    BehavesAsWritten
PROPERTY
    ReachesTheEvent
