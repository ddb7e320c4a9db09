SPECIFICATION Spec256
INVARIANTS EndomorphismSplitCorrect256
CHECK_DEADLOCK FALSE
