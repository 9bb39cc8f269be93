\* A navigation that fails in the browser is still traced as executed.
CONSTANTS
  u1 = u1  u2 = u2  u3 = u3  u4 = u4  err = err  off = off  made = made
  jump = jump  menu = menu  trigger = trigger  go = go
  None = None
  Start = u1  ErrorPage = err  Made = made
  Site <- MCSite  Lands <- MCLands  Sessions <- MCSessions
  MaxPages = 4  MaxStates = 5  MaxObligations = 11
  CompactPages = 4  CompactOutstanding = 4
  MaxFindings = 2  MaxLinks = 3
  MaxDenials = 2  MaxBrowserDenials = 1  MaxUnknown = 2
SPECIFICATION Spec
CHECK_DEADLOCK FALSE
INVARIANT SelectedIsCarriedOut
