SPECIFICATION Spec
CONSTANTS
    Paths <- MCPaths
    Names <- MCNames
    TestNames <- MCTestNames
    Idents <- MCIdents
    Modes <- MCModes
    Projects <- MCProjects
    NoIdent = "none"
    EngineRun = EngineRun
    NoTarget = NoTarget
    NoFunc = "none"
INVARIANTS
    TypeOK
    SelectedExactly
    BothVariants
    EmptyOnlyIfNothingDepends
    ASTOnlyOnRequest
PROPERTY SelectReturns
