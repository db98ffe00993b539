\* Three buyers, one event and an id without one, orders of 0 to 2 of its three tickets.
SPECIFICATION Spec
CONSTANTS
  Requests = {r1, r2, r3}
  Events = {e1}
  EventIds = {e1, gone}
  Quantities = {0, 1, 2}
  OnSale <- TightStock
  ParseTime = FALSE
SYMMETRY Buyers
INVARIANTS
  IInv
  Conservation
  ReservationHolds
  TokensDistinct
  RefusalsJustified
PROPERTIES
  CommitsInTokenOrder
  ImplementsTicketSale
