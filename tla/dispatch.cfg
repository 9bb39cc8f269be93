CONSTANTS
  k1 = k1  scan = scan  assess = assess  s1 = s1  s2 = s2  s3 = s3
  NoIntent = NoIntent  NoKey = NoKey
  Key = {k1}  Intent = {scan, assess}  ByWorkflow = {assess}
  Slot = {s1, s2, s3}
  MaxRequests = 4
SPECIFICATION Spec
CHECK_DEADLOCK FALSE
INVARIANTS TypeOK KeyMeansOneRun SingleFlight WorkflowsAccounted
PROPERTIES DispatchSettles
