SPECIFICATION Spec
CONSTANTS
    Boards <- MCBoards
    Oversample = 3
    MaxOvertaken = 0
    MaxWrites = 1
INVARIANT SampleAfterWrite
