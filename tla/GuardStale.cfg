SPECIFICATION Spec
CONSTANTS
  Users = {u1, u2}
  Executions = {x1, x2}
  Free = Free
  MaxConcurrency = 2
  LeaseOutlives = FALSE
PROPERTY OnlyOwnLeaseDeleted
