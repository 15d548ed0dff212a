SPECIFICATION Spec
CONSTANTS
  Inputs <- MCInputs
  MaxRanks = 3
INVARIANTS NobodyStuck AssertionsHold ProductCorrect
PROPERTY RunsToEnd
