CONSTANTS
    Procs <- MCProcs
    Scenarios <- MCScenarios
    UserFiles <- MCUserFiles
    Initially <- MCInitially
    Links <- MCLinks
    Broken <- MCBroken
    Unprintable <- MCUnprintable
    MaxTemp = 1
    Intrusions <- MCIntrusions
SPECIFICATION Spec
INVARIANTS
    OutputsAreWhole
    NothingIsLeftBehind
PROPERTIES
    FilesArePublished
    ForeignFilesStay
