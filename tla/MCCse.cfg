CONSTANTS
    Vars <- MCVars
    Statics <- MCStatics
    Params <- MCParams
    TypeOf <- MCTypeOf
    Mod = 4
    Memories <- MCMemories
    Programs <- MCPrograms
SPECIFICATION Spec
INVARIANTS
    ObservablyEquivalent
    AvailableExpressionsHold
