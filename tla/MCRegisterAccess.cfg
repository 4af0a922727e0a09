SPECIFICATION Spec
CONSTANT Boards <- MCBoards
INVARIANTS SystemWordsWhole RequestsServed
PROPERTIES CalOutputOnlyInCal
