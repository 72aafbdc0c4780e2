SPECIFICATION Spec
CONSTANT Plans <- MCProperPlans
INVARIANT TempDirsRemoved
