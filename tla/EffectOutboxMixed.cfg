SPECIFICATION Spec
CONSTANTS
    e1 = e1
    e2 = e2
    e3 = e3
    w1 = w1
    w2 = w2
    Effects = {e1, e2, e3}
    Workers = {w1, w2}
    Kind <- MixedKind
    Safety <- MixedSafety
    MaxAttempts <- MixedAttempts
    MaxFaults = 2
    NoWorker = NoWorker
    NoEffect = NoEffect
SYMMETRY WorkerSymmetry
INVARIANTS
    TypeOK
    RetryPolicy
    ExclusiveAttempt
    HonestOutcome
PROPERTIES
    OutcomeFinal
