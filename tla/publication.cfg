SPECIFICATION Spec
CONSTANTS
  NONE = NONE
  rep1 = rep1
  rep2 = rep2
  Reports <- MCReports
  CandidateSets <- MCCandidateSets
  Refs <- MCRefs
  Contents <- MCContents
  Reviewers <- MCReviewers
  Validations <- MCValidations
  Modes <- MCModes
  MaxEdits = 2
  MaxTrials = 4
  MaxRequests = 1
  MaxExports = 1
INVARIANTS TypeOK PublishedIsAuthorized AcknowledgedIsReadable TrustedIsEarned
SYMMETRY MCSymmetry
CHECK_DEADLOCK FALSE
