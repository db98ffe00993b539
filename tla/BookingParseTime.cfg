\* The event_db DSN of the shipped configuration, parseTime=true.
SPECIFICATION Spec
CONSTANTS
  Requests = {r1, r2}
  Events = {e1}
  EventIds = {e1}
  Quantities = {1, 2}
  OnSale <- TightStock
  ParseTime = TRUE
INVARIANTS
  EventDatesParse
