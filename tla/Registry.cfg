SPECIFICATION Spec
CONSTANTS
    c1 = c1
    c2 = c2
    c3 = c3
    callExpr = callExpr
    expr = expr
    named = named
    Callers <- MCCallers
    Runs = {1, 2}
    Types <- MCTypes
    Concrete <- MCConcrete
    Names <- MCNames
    MaxLooks = 2
SYMMETRY CallerSymmetry
INVARIANTS
    TypeOK
    RunsSeeTheirSnapshot
    DefaultNamesDiffer
    RegisteredOnce
