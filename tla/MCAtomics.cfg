CONSTANTS
    Threads <- MCThreads
    Cells <- MCCells
    Size <- MCSize
    Word <- MCWord
    Combine <- MCCombine
    Cases <- MCCases
SPECIFICATION Spec
PROPERTIES
    OperationsAreAtomic
    EveryOperationEnds
