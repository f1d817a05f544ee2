SPECIFICATION Spec
CHECK_DEADLOCK FALSE
INVARIANTS MatchesReference HeldAndReleased NeverStuck
