SPECIFICATION FairSpec
CONSTANTS
    a = a
    b = b
    c = c
    Inputs <- TwoInputs
    MaxEpoch = 2
    InputOrdered = TRUE
PROPERTY MarkersInOrder
