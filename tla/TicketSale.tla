----------------------------- MODULE TicketSale -----------------------------
(***************************************************************************)
(* What the ticket service promises its buyers, with nothing of how: no    *)
(* locks, no tokens, no statements.  An order either books its whole       *)
(* quantity in one step, which takes the stock, issues the ticket and      *)
(* records the announcement together, or never books anything.  The buyer  *)
(* is told at most once, "confirmed" only for a booked order and "refused" *)
(* only for an order that has not booked and never will; "unknown" (an     *)
(* internal error, a lost connection) promises nothing.                    *)
(*                                                                         *)
(* Booking.tla refines this module.                                        *)
(***************************************************************************)
EXTENDS Integers, FiniteSets

CONSTANTS
  Requests,    \* purchase requests, each sent once
  Events,      \* the rows of event_db.events
  EventIds,    \* the event ids a request may name
  Quantities,  \* the quantities a request may ask for
  OnSale       \* the stock of each event when the sale opens

(* What the theorems about the sale suppose of these parameters. *)
SaleAssumption ==
  /\ Events \subseteq EventIds
  /\ Quantities \subseteq Int
  /\ OnSale \in [Events -> Nat]

VARIABLES
  event,       \* the event each request asked for
  quantity,    \* the number of tickets each request asked for
  remaining,   \* unsold stock of each event
  tickets,     \* requests with a committed ticket
  outbox,      \* requests with a committed ticket.purchased announcement
  answer       \* what each buyer has been told

saleVars == <<event, quantity, remaining, tickets, outbox, answer>>

Answers == {"none", "confirmed", "refused", "unknown"}

(* One element per ticket sold for event e. *)
Admissions(e) ==
  UNION {{r} \X (1..quantity[r]) : r \in {t \in tickets : event[t] = e}}

SaleTypeOK ==
  /\ event \in [Requests -> EventIds]
  /\ quantity \in [Requests -> Quantities]
  /\ remaining \in [Events -> Nat]
  /\ tickets \subseteq Requests
  /\ outbox \subseteq Requests
  /\ answer \in [Requests -> Answers]

Init ==
  /\ event \in [Requests -> EventIds]
  /\ quantity \in [Requests -> Quantities]
  /\ remaining = OnSale
  /\ tickets = {}
  /\ outbox = {}
  /\ answer = [r \in Requests |-> "none"]

(***************************************************************************)
(* The order of r takes effect.  The buyer may in the same step learn that *)
(* the outcome is unknown, but nothing else.                               *)
(***************************************************************************)
Book(r) ==
  /\ r \notin tickets
  /\ answer[r] = "none"
  /\ event[r] \in Events
  /\ quantity[r] \in 1..remaining[event[r]]
  /\ remaining' = [remaining EXCEPT ![event[r]] = @ - quantity[r]]
  /\ tickets' = tickets \cup {r}
  /\ outbox' = outbox \cup {r}
  /\ \E a \in {"none", "unknown"} : answer' = [answer EXCEPT ![r] = a]
  /\ UNCHANGED <<event, quantity>>

Confirm(r) ==
  /\ r \in tickets
  /\ answer[r] = "none"
  /\ answer' = [answer EXCEPT ![r] = "confirmed"]
  /\ UNCHANGED <<event, quantity, remaining, tickets, outbox>>

Refuse(r) ==
  /\ r \notin tickets
  /\ answer[r] = "none"
  /\ answer' = [answer EXCEPT ![r] = "refused"]
  /\ UNCHANGED <<event, quantity, remaining, tickets, outbox>>

(* A statement fails, a client goes away, or a replica crashes and leaves  *)
(* all its buyers without an answer.                                       *)
GiveUp(lost) ==
  /\ \A r \in lost : answer[r] = "none"
  /\ answer' = [r \in Requests |-> IF r \in lost THEN "unknown" ELSE answer[r]]
  /\ UNCHANGED <<event, quantity, remaining, tickets, outbox>>

Next ==
  \/ \E r \in Requests : Book(r) \/ Confirm(r) \/ Refuse(r)
  \/ \E lost \in SUBSET Requests : GiveUp(lost)

Spec == Init /\ [][Next]_saleVars

-----------------------------------------------------------------------------
(***************************************************************************)
(* No ticket is sold twice and none is lost: at every moment the stock     *)
(* left and the tickets sold add up to what was put on sale                *)
(* (events.remaining_count against the rows of ticket_db.tickets).         *)
(***************************************************************************)
Conservation ==
  \A e \in Events : Cardinality(Admissions(e)) + remaining[e] = OnSale[e]

(***************************************************************************)
(* Every ticket is announced and nothing else is: the ticket row and the   *)
(* outbox row exist together (the outbox is written in the booking         *)
(* transaction, purchase_service.go:79-143).                               *)
(***************************************************************************)
AnnouncedIffBooked == outbox = tickets

(***************************************************************************)
(* An answer is never contradicted by the database: "confirmed" has its    *)
(* ticket, "refused" has none.                                             *)
(***************************************************************************)
TruthfulAnswers ==
  \A r \in Requests :
    /\ answer[r] = "confirmed" => r \in tickets
    /\ answer[r] = "refused" => r \notin tickets

=============================================================================
