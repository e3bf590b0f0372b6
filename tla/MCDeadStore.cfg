CONSTANTS
    Vars <- MCVars
    Statics <- MCStatics
    Params <- MCParams
    TypeOf <- MCTypeOf
    Mod = 2
    Memories <- MCMemories
    Programs <- MCPrograms
SPECIFICATION Spec
INVARIANTS
    SettledUnlessQueued
    ObservablyEquivalent
PROPERTIES
    PassTerminates
    NoNewDivergence
