------------------------------ MODULE Booking ------------------------------
(***************************************************************************)
(* The purchase flow of the ticket service: PurchaseService.Purchase run   *)
(* by any number of concurrent requests, on any number of replicas,        *)
(* against one MySQL server (services/ticket/internal/service,             *)
(* repository and handler).                                                *)
(*                                                                         *)
(* One action per SQL statement, so that every interleaving of the         *)
(* requests' statements is explored.  MySQL contributes the row locks that *)
(* a booking transaction takes on its event and holds until it ends, and   *)
(* an atomic COMMIT.  The Redlock lease is NOT trusted: AcquireLock may    *)
(* succeed, be refused or fail whatever the other requests hold, so what   *)
(* is shown here holds even when leases expire or masters lose them        *)
(* (RedLock.tla models the lease itself).                                  *)
(*                                                                         *)
(* Any step may instead Fail (an error from a statement, answered with 500 *)
(* after the deferred Rollback) or the request may be lost with its        *)
(* process or its client.  Booking references and outbox event ids are     *)
(* unique keys, so a row is identified by the request that inserted it.    *)
(***************************************************************************)
EXTENDS Integers, FiniteSets

CONSTANTS
  Requests,    \* POST /tickets/purchase requests, each sent once
  Events,      \* the rows of event_db.events
  EventIds,    \* the event ids a request may name
  Quantities,  \* the quantities a request may ask for
  OnSale,      \* remaining_count of each event when the model starts
  ParseTime    \* the DSN of event_db says parseTime=true (cmd/main.go:28)

ASSUME BookingAssumption ==
  /\ Events \subseteq EventIds
  /\ Quantities \subseteq Int
  /\ OnSale \in [Events -> Nat]
  /\ ParseTime \in BOOLEAN

VARIABLES
  event,       \* event_id in the body of each request
  quantity,    \* quantity in the body of each request
  step,        \* the statement each request executes next
  token,       \* its fencing token, 0 until allocated
  writes,      \* the tables its open transaction has written
  reply,       \* how each request ended, "none" until it has
  remaining,   \* events.remaining_count
  past,        \* events whose date has gone by
  counters,    \* events with a row in event_fencing_tokens
  issued,      \* event_fencing_tokens.last_issued_token
  accepted,    \* event_fencing_tokens.last_accepted_token
  tickets,     \* requests with a committed row in ticket_db.tickets
  outbox       \* requests with a committed row in ticket_db.outbox_events

request == <<step, token, writes, reply>>
orders == <<event, quantity>>
bookings == <<remaining, accepted, tickets, outbox>>
fencing == <<counters, issued>>
vars == <<orders, request, bookings, fencing, past>>

Tables == {"events", "tickets", "outbox_events"}

InTransaction == {"explain", "ticket", "outbox", "commit"}

Statements ==
  {"read", "counter", "token", "lock", "reserve"} \cup InTransaction

Steps == {"validate"} \cup Statements \cup {"respond", "done"}

(* Purchase's error values, "ok", and "lost" for a reply nobody receives. *)
Replies ==
  {"none", "ok", "lost", "ErrInvalidQuantity", "ErrEventPast",
   "ErrLockNotAcquired", "ErrStaleFencingToken",
   "event not found", "parse error", "insufficient", "internal"}

TypeOK ==
  /\ event \in [Requests -> EventIds]
  /\ quantity \in [Requests -> Quantities]
  /\ step \in [Requests -> Steps]
  /\ token \in [Requests -> Nat]
  /\ writes \in [Requests -> SUBSET Tables]
  /\ reply \in [Requests -> Replies]
  /\ remaining \in [Events -> Nat]
  /\ past \subseteq Events
  /\ counters \subseteq Events
  /\ issued \in [Events -> Nat]
  /\ accepted \in [Events -> Nat]
  /\ tickets \subseteq Requests
  /\ outbox \subseteq Requests

Init ==
  /\ event \in [Requests -> EventIds]
  /\ quantity \in [Requests -> Quantities]
  /\ step = [r \in Requests |-> "validate"]
  /\ token = [r \in Requests |-> 0]
  /\ writes = [r \in Requests |-> {}]
  /\ reply = [r \in Requests |-> "none"]
  /\ remaining = OnSale
  /\ past = {}
  /\ counters = {}
  /\ issued = [e \in Events |-> 0]
  /\ accepted = [e \in Events |-> 0]
  /\ tickets = {}
  /\ outbox = {}

-----------------------------------------------------------------------------
(***************************************************************************)
(* Helpers.                                                                *)
(***************************************************************************)

(* Mutant: the UPDATE runs in a transaction of its own.                    *)
RowsLockedByUpdateOnly(e) ==
  \E r \in Requests : event[r] = e /\ step[r] = "explain"

(* Mutant: the returns after a refused UPDATE do not roll back.            *)
RowsLockedAfterRefusal(e) ==
  \E r \in Requests :
    /\ event[r] = e
    /\ \/ step[r] \in InTransaction
       \/ reply[r] \in {"ErrStaleFencingToken", "insufficient"}

(* A booking transaction holds the rows of e in events and                 *)
(* event_fencing_tokens from its UPDATE to its end; UPDATEs and INSERT     *)
(* IGNOREs of the same rows wait.                                          *)
RowsLocked(e) == \E r \in Requests : event[r] = e /\ step[r] \in InTransaction

Advance(r, from, to) ==
  /\ step[r] = from
  /\ step' = [step EXCEPT ![r] = to]

(* The function returns: deferred Rollback, deferred Release, HTTP answer. *)
Return(r, kind) ==
  /\ step' = [step EXCEPT ![r] = "done"]
  /\ writes' = [writes EXCEPT ![r] = {}]
  /\ reply' = [reply EXCEPT ![r] = kind]
  /\ UNCHANGED <<token, orders>>

Write(r, table) == writes' = [writes EXCEPT ![r] = @ \cup {table}]

-----------------------------------------------------------------------------
(***************************************************************************)
(* Purchase, statement by statement.                                       *)
(***************************************************************************)

RejectQuantity(r) ==
  /\ step[r] = "validate"
  /\ quantity[r] <= 0
  /\ Return(r, "ErrInvalidQuantity")
  /\ UNCHANGED <<bookings, fencing, past>>

AcceptQuantity(r) ==
  /\ quantity[r] > 0
  /\ Advance(r, "validate", "read")
  /\ UNCHANGED <<orders, token, writes, reply, bookings, fencing, past>>

(* readEvent; with parseTime=true the driver hands the date over as a time *)
(* and database/sql formats it as RFC 3339, which the layout of the        *)
(* following time.Parse does not accept.                                   *)
EventUnusable(r) ==
  /\ step[r] = "read"
  /\ \/ event[r] \notin Events /\ Return(r, "event not found")
     \/ event[r] \in Events /\ ParseTime /\ Return(r, "parse error")
     \/ event[r] \in past /\ ~ParseTime /\ Return(r, "ErrEventPast")
  /\ UNCHANGED <<bookings, fencing, past>>

ReadEvent(r) ==
  /\ event[r] \in Events \ past
  /\ ~ParseTime
  /\ Advance(r, "read", "counter")
  /\ UNCHANGED <<orders, token, writes, reply, bookings, fencing, past>>

(* Mutant: REPLACE where the code has INSERT IGNORE. *)
ReplaceCounter(r) ==
  /\ ~RowsLocked(event[r])
  /\ Advance(r, "counter", "token")
  /\ counters' = counters \cup {event[r]}
  /\ issued' = [issued EXCEPT ![event[r]] = 0]
  /\ accepted' = [accepted EXCEPT ![event[r]] = 0]
  /\ UNCHANGED <<orders, token, writes, reply, remaining, tickets, outbox, past>>

(* INSERT IGNORE of the event's counter row, (0, 0) when it is new. *)
InitCounter(r) ==
  /\ ~RowsLocked(event[r])
  /\ Advance(r, "counter", "token")
  /\ counters' = counters \cup {event[r]}
  /\ issued' = [e \in Events |->
                  IF e = event[r] /\ e \notin counters THEN 0 ELSE issued[e]]
  /\ accepted' = [e \in Events |->
                    IF e = event[r] /\ e \notin counters THEN 0 ELSE accepted[e]]
  /\ UNCHANGED <<orders, token, writes, reply, remaining, tickets, outbox, past>>

(* Mutant: the token follows the last accepted one, not the last issued. *)
TokenAfterAccepted(r) ==
  /\ ~RowsLocked(event[r])
  /\ event[r] \in counters
  /\ Advance(r, "token", "lock")
  /\ issued' = [issued EXCEPT ![event[r]] = accepted[event[r]] + 1]
  /\ token' = [token EXCEPT ![r] = accepted[event[r]] + 1]
  /\ UNCHANGED <<orders, writes, reply, bookings, counters, past>>

(* UPDATE ... = LAST_INSERT_ID(last_issued_token + 1) and, on the same     *)
(* connection, SELECT LAST_INSERT_ID().                                    *)
NextFencingToken(r) ==
  /\ ~RowsLocked(event[r])
  /\ event[r] \in counters
  /\ Advance(r, "token", "lock")
  /\ issued' = [issued EXCEPT ![event[r]] = @ + 1]
  /\ token' = [token EXCEPT ![r] = issued[event[r]] + 1]
  /\ UNCHANGED <<orders, writes, reply, bookings, counters, past>>

AcquireLock(r) ==
  /\ Advance(r, "lock", "reserve")
  /\ UNCHANGED <<orders, token, writes, reply, bookings, fencing, past>>

LockTaken(r) ==
  /\ step[r] = "lock"
  /\ Return(r, "ErrLockNotAcquired")
  /\ UNCHANGED <<bookings, fencing, past>>

(* Mutant: no fencing condition in the WHERE clause. *)
ReservableUnfenced(r) ==
  /\ event[r] \in counters
  /\ remaining[event[r]] >= quantity[r]

(* Mutant: fenced against the last token issued. *)
ReservableIfNewest(r) ==
  /\ event[r] \in counters
  /\ remaining[event[r]] >= quantity[r]
  /\ token[r] = issued[event[r]]

(* The WHERE clause of the booking UPDATE. *)
Reservable(r) ==
  /\ event[r] \in counters
  /\ remaining[event[r]] >= quantity[r]
  /\ token[r] > accepted[event[r]]

(* BeginTx and the conditional UPDATE; zero rows leave the locks but write *)
(* nothing.                                                                *)
Reserve(r) ==
  /\ ~RowsLocked(event[r])
  /\ \/ Reservable(r) /\ Advance(r, "reserve", "ticket") /\ Write(r, "events")
     \/ ~Reservable(r) /\ Advance(r, "reserve", "explain") /\ UNCHANGED writes
  /\ UNCHANGED <<orders, token, reply, bookings, fencing, past>>

(* The SELECT that tells a stale token from a lack of stock. *)
Explain(r) ==
  /\ step[r] = "explain"
  /\ \/ token[r] <= accepted[event[r]] /\ Return(r, "ErrStaleFencingToken")
     \/ token[r] > accepted[event[r]] /\ Return(r, "insufficient")
  /\ UNCHANGED <<bookings, fencing, past>>

(* Mutant: the ticket is inserted outside of the transaction. *)
CreateTicketOutsideTx(r) ==
  /\ Advance(r, "ticket", "outbox")
  /\ tickets' = tickets \cup {r}
  /\ UNCHANGED <<orders, token, writes, reply, remaining, accepted, outbox>>
  /\ UNCHANGED <<fencing, past>>

(* CreateWithTx: the INSERT of an attempt whose booking_ref is new. *)
CreateTicket(r) ==
  /\ Advance(r, "ticket", "outbox")
  /\ Write(r, "tickets")
  /\ UNCHANGED <<orders, token, reply, bookings, fencing, past>>

InsertOutbox(r) ==
  /\ Advance(r, "outbox", "commit")
  /\ Write(r, "outbox_events")
  /\ UNCHANGED <<orders, token, reply, bookings, fencing, past>>

(* The server makes the transaction's writes visible together. *)
Apply(r) ==
  /\ IF "events" \in writes[r]
     THEN /\ remaining' = [remaining EXCEPT ![event[r]] = @ - quantity[r]]
          /\ accepted' = [accepted EXCEPT ![event[r]] = token[r]]
     ELSE UNCHANGED <<remaining, accepted>>
  /\ tickets' = tickets \cup {q \in {r} : "tickets" \in writes[q]}
  /\ outbox' = outbox \cup {q \in {r} : "outbox_events" \in writes[q]}

Commit(r) ==
  /\ Advance(r, "commit", "respond")
  /\ Apply(r)
  /\ writes' = [writes EXCEPT ![r] = {}]
  /\ UNCHANGED <<orders, token, reply, fencing, past>>

(* Mutant: a failed Commit is answered as a conflict. *)
CommitErrorIsConflict(r) ==
  /\ step[r] = "commit"
  /\ Apply(r)
  /\ Return(r, "ErrStaleFencingToken")
  /\ UNCHANGED <<fencing, past>>

(* The server commits and its acknowledgement is lost: Commit returns an   *)
(* error and the buyer is told of an internal one.                         *)
CommitUnacknowledged(r) ==
  /\ step[r] = "commit"
  /\ Apply(r)
  /\ Return(r, "internal")
  /\ UNCHANGED <<fencing, past>>

Respond(r) ==
  /\ step[r] = "respond"
  /\ Return(r, "ok")
  /\ UNCHANGED <<bookings, fencing, past>>

(* An error from the statement r is about to execute, a lock wait that     *)
(* timed out or five taken booking references included.                    *)
Fail(r) ==
  /\ step[r] \in Statements
  /\ Return(r, "internal")
  /\ UNCHANGED <<bookings, fencing, past>>

-----------------------------------------------------------------------------
(***************************************************************************)
(* The environment.                                                        *)
(***************************************************************************)

(* The process crashes or the client goes away: the request context is     *)
(* cancelled, the server rolls an open transaction back, nobody hears.     *)
Lose(r) ==
  /\ step[r] # "done"
  /\ Return(r, "lost")
  /\ UNCHANGED <<bookings, fencing, past>>

(* time.Now() passes the date of e. *)
EventStarts(e) ==
  /\ e \notin past
  /\ past' = past \cup {e}
  /\ UNCHANGED <<orders, request, bookings, fencing>>

AllAnswered ==
  /\ \A r \in Requests : step[r] = "done"
  /\ past = Events
  /\ UNCHANGED vars

Proceed(r) ==
  \/ RejectQuantity(r) \/ AcceptQuantity(r)
  \/ EventUnusable(r) \/ ReadEvent(r)
  \/ InitCounter(r) \/ NextFencingToken(r)
  \/ AcquireLock(r) \/ LockTaken(r)
  \/ Reserve(r) \/ Explain(r)
  \/ CreateTicket(r) \/ InsertOutbox(r)
  \/ Commit(r) \/ CommitUnacknowledged(r)
  \/ Respond(r)

Next ==
  \/ \E r \in Requests : Proceed(r) \/ Fail(r) \/ Lose(r)
  \/ \E e \in Events : EventStarts(e)
  \/ AllAnswered

Spec == Init /\ [][Next]_vars

(* A goroutine that can execute its next statement eventually does. *)
FairSpec == Spec /\ \A r \in Requests : WF_vars(Proceed(r))

-----------------------------------------------------------------------------
(***************************************************************************)
(* The HTTP status of each ending (handlePurchaseError).  A shortage is    *)
(* recognised by errMsg[:8] == "insufficient": eight bytes of a message    *)
(* compared with a word of twelve are never equal.                         *)
(***************************************************************************)
ComparedPrefixLength == 8
InsufficientLength == 12

HttpStatus(kind) ==
  CASE kind = "ok" -> 201
    [] kind \in {"ErrInvalidQuantity", "ErrEventPast"} -> 400
    [] kind = "ErrLockNotAcquired" -> 423
    [] kind = "ErrStaleFencingToken" -> 409
    [] kind = "insufficient" ->
         IF ComparedPrefixLength = InsufficientLength THEN 409 ELSE 500
    [] kind \in {"event not found", "parse error", "internal"} -> 500
    [] kind \in {"none", "lost"} -> 0

-----------------------------------------------------------------------------
(***************************************************************************)
(* Properties.                                                             *)
(***************************************************************************)

Outcome(status) ==
  CASE status = 201 -> "confirmed"
    [] status \in {400, 409, 423} -> "refused"
    [] status \in {0, 500} -> "unknown"

(* What the buyers of the abstract sale have been told. *)
answer ==
  [r \in Requests |-> IF reply[r] = "none" THEN "none"
                                           ELSE Outcome(HttpStatus(reply[r]))]

Sale == INSTANCE TicketSale

(* The purchase flow implements the atomic sale of TicketSale.tla: every   *)
(* committed booking takes its stock, issues its ticket and records its    *)
(* announcement in one step, and a buyer who was refused never gets a      *)
(* ticket afterwards (purchase_service.go:41-151).                         *)
ImplementsTicketSale == Sale!Spec

(* Stock left plus tickets sold is the stock put on sale, whatever the     *)
(* Redis lock does: no ticket is sold twice (FR-009), none evaporates when *)
(* a booking fails half way (purchase_service.go:79-143).                  *)
Conservation == Sale!Conservation

(* A booking transaction that has passed its UPDATE stays good until it    *)
(* ends: the stock it counted on and the fencing order it was admitted     *)
(* under cannot change below it (purchase_service.go:85-143).              *)
ReservationHolds ==
  \A r \in Requests :
    step[r] \in {"ticket", "outbox", "commit"} => Reservable(r)

(* Two requests for the same event never hold the same fencing token, not  *)
(* even the two first buyers of a new event who both insert its counter    *)
(* (nextFencingToken, purchase_service.go:154-180).                        *)
TokensDistinct ==
  \A r, q \in Requests :
    r # q /\ event[r] = event[q] /\ token[r] # 0 => token[r] # token[q]

(* Tickets of an event are committed in the order of their fencing tokens: *)
(* once a later holder's write is accepted an earlier one never lands      *)
(* (distributed-locking.md:31, purchase_service.go:85-98).                 *)
CommitsInTokenOrder ==
  [][\A r \in tickets' \ tickets : \A q \in tickets :
       event[q] = event[r] => token[q] < token[r]]_vars

(* A refusal says why, and the reason is true and stays true: "stale" only *)
(* when a later token of the same event holds a ticket, "insufficient"     *)
(* only when the stock no longer covers the order (the second SELECT,      *)
(* purchase_service.go:99-113).                                            *)
RefusalsJustified ==
  \A r \in Requests :
    /\ reply[r] = "ErrStaleFencingToken" =>
         \E q \in tickets : event[q] = event[r] /\ token[q] > token[r]
    /\ reply[r] = "insufficient" => remaining[event[r]] < quantity[r]

(* Every request ends: the row locks of the booking transactions and the   *)
(* waits for them never block one another for good, because each return    *)
(* path rolls its transaction back (purchase_service.go:83).               *)
EveryRequestAnswered == \A r \in Requests : <>(reply[r] # "none")

-----------------------------------------------------------------------------
(***************************************************************************)
(* What a test says and the code does not do.                              *)
(***************************************************************************)

(* The date of an event is read in the layout the service parses           *)
(* (TestEventDateParsedCorrectly, purchase_service_test.go:159).           *)
EventDatesParse == \A r \in Requests : reply[r] # "parse error"

-----------------------------------------------------------------------------
(***************************************************************************)
(* The inductive invariant behind the safety properties.                   *)
(***************************************************************************)

(* What the open transaction of a request has written by each step. *)
WrittenBefore(s) ==
  CASE s = "ticket" -> {"events"}
    [] s = "outbox" -> {"events", "tickets"}
    [] s = "commit" -> Tables
    [] OTHER -> {}

Fenced == {"lock", "reserve", "respond"} \cup InTransaction

RefusalReplies ==
  {"ErrInvalidQuantity", "ErrEventPast", "ErrLockNotAcquired",
   "ErrStaleFencingToken"}

(* Where a request stands tells what it has checked and written. *)
StepsConsistent ==
  \A r \in Requests :
    /\ step[r] \notin {"validate", "done"} => quantity[r] > 0
    /\ step[r] \in Fenced \cup {"counter", "token"} => event[r] \in Events
    /\ step[r] \in Fenced \cup {"token"} => event[r] \in counters
    /\ step[r] \in Fenced => token[r] > 0
    /\ token[r] > 0 => event[r] \in Events /\ token[r] <= issued[event[r]]
    /\ writes[r] = WrittenBefore(step[r])
    /\ reply[r] = "none" <=> step[r] # "done"
    /\ reply[r] \in {"insufficient", "ErrStaleFencingToken"} =>
         event[r] \in Events

(* A ticket exists exactly for the requests that got through COMMIT. *)
TicketsConsistent ==
  /\ outbox = tickets
  /\ \A r \in Requests :
       /\ r \in tickets => /\ event[r] \in Events
                           /\ token[r] \in 1..accepted[event[r]]
                           /\ step[r] \in {"respond", "done"}
       /\ step[r] = "respond" \/ reply[r] = "ok" => r \in tickets
       /\ reply[r] \in RefusalReplies => r \notin tickets

(* The accepted token is that of a ticket; counters start from zero. *)
CountersConsistent ==
  \A e \in Events :
    /\ accepted[e] # 0 =>
         \E q \in tickets : event[q] = e /\ token[q] = accepted[e]
    /\ e \notin counters => issued[e] = 0 /\ accepted[e] = 0

(* The row locks admit one booking transaction per event. *)
OneTransactionPerEvent ==
  \A r, q \in Requests :
    /\ step[r] \in InTransaction
    /\ step[q] \in InTransaction
    /\ event[r] = event[q]
    => r = q

(* The SELECT explains what the UPDATE saw. *)
ExplanationHolds ==
  \A r \in Requests : step[r] = "explain" => ~Reservable(r)

IInv ==
  /\ TypeOK
  /\ StepsConsistent
  /\ TicketsConsistent
  /\ CountersConsistent
  /\ OneTransactionPerEvent
  /\ ReservationHolds
  /\ ExplanationHolds
  /\ TokensDistinct
  /\ RefusalsJustified

=============================================================================
