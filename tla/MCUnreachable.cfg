CONSTANTS
    Vars <- MCVars
    Statics <- MCStatics
    Params <- MCParams
    TypeOf <- MCTypeOf
    Mod = 2
    Memories <- MCMemories
    Programs <- MCPrograms
SPECIFICATION Spec
INVARIANTS
    ObservablyEquivalent
    StaysValid
PROPERTIES
    EachPassGains
    NoNewDivergence
