CONSTANTS
    Vars <- MCVars
    Statics <- MCStatics
    Params <- MCParams
    Temps <- MCTemps
    TypeOf <- MCTypeOf
    Mod = 2
    Memories <- MCMemories
    Programs <- MCPrograms
SPECIFICATION Spec
INVARIANTS
    DominatorsLieOnEveryPath
    ObservablyEquivalent
PROPERTIES
    HoistingTerminates
