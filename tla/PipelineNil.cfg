SPECIFICATION Spec
CONSTANT Plans <- MCPlans
INVARIANT NilIsError
