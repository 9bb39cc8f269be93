CONSTANTS
  r1 = r1  r2 = r2  nebu = nebu  flow = flow  host = host  rev = rev
  s1 = s1  s2 = s2  log = log  report = report  bytes = bytes
  NoWorker = NoWorker  AnyRevision = AnyRevision  NoRun = NoRun  NoDocument = NoDocument
  Run <- MCRun  Worker <- MCWorker  Host = {host}  Revision = {rev}
  HostOf <- MCHostOf  RunProvider <- MCRunProvider  RunRevision <- MCRunRevision
  RequestedAt <- MCRequestedAt  WorkerProvider <- MCWorkerProvider
  WorkerRevision <- MCWorkerRevision  LeaseSeconds <- MCLeaseSeconds
  Slot = {s1, s2}  Document = {log, report}  DigestOf <- MCDigestOf
  Reported = {"partial", "backoff", "progress"}
  MAX_RUN_ATTEMPTS = 2
  MaxClock = 1
  MaxRequests = 3
SPECIFICATION Spec
CHECK_DEADLOCK FALSE
INVARIANTS TypeOK AuditAgreesWithRow ArtifactBacked AcknowledgedHolds
PROPERTIES ImplementsLease
