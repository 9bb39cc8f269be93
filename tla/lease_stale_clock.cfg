\* Statements that execute up to one instant late.
CONSTANTS
  r1 = r1  r2 = r2  r3 = r3
  nebu = nebu  flow = flow
  h1 = h1  h2 = h2  old = old  new = new
  NoWorker = NoWorker  AnyRevision = AnyRevision
  Run <- MCRun  Worker <- MCWorker  Host <- MCHost
  Revision <- MCRevision  HostOf <- MCHostOf  RunProvider <- MCRunProvider
  RunRevision <- MCRunRevision  RequestedAt <- MCRequestedAt
  WorkerProvider <- MCWorkerProvider  WorkerRevision <- MCWorkerRevision
  LeaseSeconds <- MCLeaseSeconds
  MAX_RUN_ATTEMPTS = 2
  MaxLag = 1
  MaxClock = 4
SPECIFICATION Spec
CHECK_DEADLOCK FALSE
INVARIANTS HostExclusive
