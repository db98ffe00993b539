\* Limits of 2 and 1 instead of 5 and 3, a window of 3 in 5 ticks, 3 requests, two at a time.
SPECIFICATION Spec
CONSTANTS
  login = login
  register = register
  Requests = {r1, r2, r3}
  Routes = {login, register}
  Limit <- Limits
  Window = 3
  Overlap = 1
  MaxTime = 5
CHECK_DEADLOCK FALSE
SYMMETRY Alike
INVARIANTS
  RateInv
  WindowBounded
  RejectedOnlyWhenFull
  OverlapBounded
