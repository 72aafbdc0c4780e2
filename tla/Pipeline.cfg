SPECIFICATION Spec
CONSTANT Plans <- MCPlans
INVARIANTS
    TypeOK
    EachAttemptOnce
    DirsMatchMutants
    ReportAddsUp
