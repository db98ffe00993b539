\* One replica, up to three messages.
SPECIFICATION Spec
CONSTANTS
  Replicas = {c1}
  Loops = {c1}
  Bookings = {b1, b2}
  Length = 3
  Nobody = Nobody
CHECK_DEADLOCK FALSE
INVARIANTS
  FailedNotCommitted
