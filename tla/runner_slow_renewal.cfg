CONSTANTS
  m1 = m1  m2 = m2  events = events  report = report
  Machine = {m1, m2}
  File = {events, report}
  Oversized = {report}
  MAX_RUN_ATTEMPTS = 2
  SlowFirstRenewal = TRUE
SPECIFICATION Spec
CHECK_DEADLOCK FALSE
PROPERTIES LostLeaseStopsScan
