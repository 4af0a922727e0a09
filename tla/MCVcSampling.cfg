SPECIFICATION Spec
CONSTANTS
    Boards <- MCBoards
    Oversample = 3
    MaxOvertaken = 2
    MaxWrites = 2
INVARIANTS ReadingsOfTheirKind SampleAtMostOneCycleOld AverageOfOneWindow
PROPERTIES SamplingGoesOn
