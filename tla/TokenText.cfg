SPECIFICATION Spec
CONSTANTS
  Cases <- MCCases
CHECK_DEADLOCK FALSE
INVARIANTS TextExact StopWordEndsGeneration
