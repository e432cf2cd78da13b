SPECIFICATION FairSpec
CONSTANTS
    a = a
    b = b
    c = c
    Inputs <- ThreeInputs
    MaxEpoch = 2
    InputOrdered = FALSE
INVARIANT ReleasedIsAligned
PROPERTIES ImplementsBarrier DueIsPassed
