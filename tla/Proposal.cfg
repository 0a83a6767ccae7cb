SPECIFICATION Spec
CONSTANTS
  r1 = r1
  r2 = r2
  r3 = r3
  Requests = {r1, r2, r3}
  MaxCalls = 3
  MaxLost = 2
SYMMETRY Symmetry
CHECK_DEADLOCK FALSE
INVARIANTS CallsAreLicensed OutcomesAreRecorded DecisionsAgree
PROPERTIES EnforcedAlone
