SPECIFICATION Spec
CONSTANTS
  Inputs <- MCInputs
  MaxP = 4
INVARIANTS TypeOK NobodyStuck ResultCorrect
PROPERTY RunsToEnd
