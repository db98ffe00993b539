\* One booking, one relay that may publish it twice, one replica and its loop.
SPECIFICATION FairSpec
CONSTANTS
  Bookings = {1}
  Relays = {a}
  Replicas = {c1}
  Loops = {c1}
  Nobody = Nobody
INVARIANTS
  OneEmailWithoutFault
PROPERTIES
  ImplementsNotification
  NotificationGoesOn
  BookingConfirmed
