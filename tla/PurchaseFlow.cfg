\* Two buyers of one event on one replica, one Redis master.
SPECIFICATION FairFlowSpec
CONSTANTS
  e1 = e1
  p1 = p1
  Requests = {r1, r2}
  Events = {e1}
  EventIds = {e1, gone}
  Quantities = {0, 2, 4}
  OnSale <- TightStock
  ParseTime = FALSE
  Processes = {p1}
  process <- SharedReplica
  Masters = {m1}
  Faulty = {}
  Nobody = Nobody
INVARIANTS
  TransactionsUnderLease
PROPERTIES
  ImplementsTicketSale
  EventFreed
  EveryRequestAnswered
