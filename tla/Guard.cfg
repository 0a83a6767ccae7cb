SPECIFICATION Spec
CONSTANTS
  Users = {u1, u2}
  Executions = {x1, x2, x3}
  Free = Free
  MaxConcurrency = 2
  LeaseOutlives = TRUE
SYMMETRY Symmetry
INVARIANTS ExecutionsCapped
