SPECIFICATION Spec
CONSTANTS
    Workers = 2
    Pkgs = {1, 2}
    Batches <- MCBatches
INVARIANTS
    TypeOK
    SurvivedMeansPassed
    KilledAtFirstFailure
    DirOutlivesCommands
    EachInOnePlace
    CompleteAtReturn
PROPERTIES
    ImplementsVerdicts
    RunReturns
