\* Two replicas with their retry loops, one message.
SPECIFICATION Spec
CONSTANTS
  Replicas = {c1, c2}
  Loops = {c1, c2}
  Bookings = {b1}
  Length = 1
  Nobody = Nobody
CHECK_DEADLOCK FALSE
SYMMETRY Alike
INVARIANTS
  EmailInv
  CommittedIsRecorded
  OneRowPerBooking
  SentWasMailed
  OneEmailWithoutFault
