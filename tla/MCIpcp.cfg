CONSTANTS
    Vars <- MCVars
    Statics <- MCStatics
    Params <- MCParams
    ParamList <- MCParamList
    TypeOf <- MCTypeOf
    Mod = 2
    Memories <- MCMemories
    Programs <- MCPrograms
    Mentions <- MCMentions
SPECIFICATION Spec
INVARIANTS
    AppliedIsWhatEveryCallPasses
    ObservablyEquivalent
