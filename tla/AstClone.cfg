SPECIFICATION Spec
CONSTANTS
    Loaded <- MCLoaded
    Assignable <- MCAssignable
    Unwalked <- MCUnwalked
    Releases <- MCReleases
    Targets <- MCTargets
    Positions <- MCPositions
    From = "f"
    To = "g"
    DenotesFrom <- MCDenotesFrom
    MaxAttempts = 2
    EditsShared = FALSE
INVARIANTS
    TypeOK
    LoadedUntouched
    DeepCopyMirrors
    OneReplacement
    SwapRenamesCallee
