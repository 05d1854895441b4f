SPECIFICATION Spec
CONSTANTS
    Recorders = {r1, r2, r3}
    MaxStamps = 5
SYMMETRY Symmetry
INVARIANTS
    BrokenExactlyByOverlap
PROPERTIES
    BrokenForever
    ImplementsForest
