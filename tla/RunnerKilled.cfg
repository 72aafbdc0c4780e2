SPECIFICATION Spec
CONSTANTS
    Workers = 0
    Pkgs = {1, 2}
    Batches <- MCBatches
INVARIANT KilledMeansDetected
