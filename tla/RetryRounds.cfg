SPECIFICATION GateSpec
CONSTANTS
    ask = ask
    write = write
    list = list
    None = None
    Tasks <- MCTasks
    Expected <- MCExpected
    Fragments = {"match"}
    Codes <- MCCodes
    RepairKinds = {"relabel"}
    RawCypherCanExecute = TRUE
    RoundIds = {"round-2"}
    AttemptSets <- MCAttemptSets
    MaxRounds = 3
    Options <- MCOptions
    Datasets <- MCDatasets
INVARIANTS
    PassingOutranksFailing
    LostTasksRegress
    DiagnosticsConserved
    StatusesAgreeWithMetrics
    RoundIdsIdentify
    GatesCompose
    UnregressedBaselineIsNotAhead
