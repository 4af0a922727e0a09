SPECIFICATION Spec
CONSTANT Boards <- MCBoards
INVARIANT AllWordsWhole
