SPECIFICATION Spec
CONSTANTS
    Paths <- MCPaths
    Names <- MCNames
    Idents <- MCIdents
    NoIdent = "none"
    NoFunc = "none"
    NoTarget = NoTarget
    EngineRun = EngineRun
    TestFiles <- MCTestFiles
    BaseOf <- MCBaseOf
    Loads <- MCLoads
    Types <- MCTypes
    FuncDecl = "FuncDecl"
INVARIANTS
    TypeOK
    NoNestedRun
    ExcludedForCause
    EachTestDecided
    CollectsExactly
PROPERTY PrepareReturns
