------------------------- MODULE PurchaseFlowProofs -------------------------
(***************************************************************************)
(* Proofs about the purchase, for any number of requests, events, tickets, *)
(* replicas and masters and for both DSN settings:                         *)
(*   - the statements of Booking.tla keep their invariant and implement    *)
(*     the atomic sale of TicketSale.tla, whatever the lock answers;       *)
(*   - the atomic sale keeps its books, and so does what implements it;    *)
(*   - under the distributed lock of RedLock.tla (PurchaseFlow.tla) the    *)
(*     flow keeps the invariants of its two parts, implements the atomic   *)
(*     sale also when replicas crash, and runs its transactions under live *)
(*     leases.                                                             *)
(* Only the last part supposes what FlowAssumption says of the lock; the   *)
(* lemmas and theorems that do name it.                                    *)
(***************************************************************************)
EXTENDS PurchaseFlow, FiniteSetTheorems, TLAPS

-----------------------------------------------------------------------------
(***************************************************************************)
(* The statements (Booking.tla).                                           *)
(***************************************************************************)

(* The type invariant of the purchase flow. *)
LEMMA TypeInit == Init => TypeOK
  BY BookingAssumption
     DEF Init, TypeOK, Steps, Statements, InTransaction, Replies, Tables

(* Every statement keeps the types: no stock falls below zero. *)
LEMMA TypeNext == IInv /\ [Next]_vars => TypeOK'
  <1> SUFFICES ASSUME IInv, [Next]_vars PROVE TypeOK'
    OBVIOUS
  <1> USE DEF Return, Advance, Write, orders, bookings, fencing, TypeOK
  <1>t. TypeOK
    BY DEF IInv
  <1>s. StepsConsistent
    BY DEF IInv
  <1> USE DEF Steps, Statements, InTransaction, Replies, Tables
  <1>1. ASSUME NEW r \in Requests, RejectQuantity(r) PROVE TypeOK'
    BY <1>t, <1>1 DEF RejectQuantity
  <1>2. ASSUME NEW r \in Requests, AcceptQuantity(r) PROVE TypeOK'
    BY <1>t, <1>2 DEF AcceptQuantity
  <1>3. ASSUME NEW r \in Requests, EventUnusable(r) PROVE TypeOK'
    BY <1>t, <1>3 DEF EventUnusable
  <1>4. ASSUME NEW r \in Requests, ReadEvent(r) PROVE TypeOK'
    BY <1>t, <1>4 DEF ReadEvent
  <1>5. ASSUME NEW r \in Requests, InitCounter(r) PROVE TypeOK'
    BY <1>t, <1>s, <1>5 DEF InitCounter, StepsConsistent, Fenced
  <1>6. ASSUME NEW r \in Requests, NextFencingToken(r) PROVE TypeOK'
    <2>0. issued[event[r]] \in Nat
      BY <1>t, <1>6 DEF NextFencingToken
    <2>1. issued[event[r]] + 1 \in Nat
      <3> HIDE DEF TypeOK
      <3> QED
        BY <2>0
    <2>2. issued' \in [Events -> Nat] /\ token' \in [Requests -> Nat]
      BY <1>t, <1>6, <2>1 DEF NextFencingToken
    <2> QED
      BY <1>t, <1>6, <2>2 DEF NextFencingToken
  <1>7. ASSUME NEW r \in Requests, AcquireLock(r) PROVE TypeOK'
    BY <1>t, <1>7 DEF AcquireLock
  <1>8. ASSUME NEW r \in Requests, LockTaken(r) PROVE TypeOK'
    BY <1>t, <1>8 DEF LockTaken
  <1>9. ASSUME NEW r \in Requests, Reserve(r) PROVE TypeOK'
    <2>1. CASE Reservable(r)
      <3>1. writes[r] \cup {"events"} \in SUBSET Tables
        BY <1>t
      <3>2. /\ step' = [step EXCEPT ![r] = "ticket"]
            /\ writes' = [writes EXCEPT ![r] = @ \cup {"events"}]
            /\ UNCHANGED <<orders, token, reply, bookings, fencing, past>>
        BY <1>9, <2>1 DEF Reserve
      <3> QED
        BY <1>t, <3>1, <3>2
    <2>2. CASE ~Reservable(r)
      BY <1>t, <1>9, <2>2 DEF Reserve
    <2> QED
      BY <2>1, <2>2
  <1>10. ASSUME NEW r \in Requests, Explain(r) PROVE TypeOK'
    BY <1>t, <1>10 DEF Explain
  <1>11. ASSUME NEW r \in Requests, CreateTicket(r) PROVE TypeOK'
    BY <1>t, <1>11 DEF CreateTicket
  <1>12. ASSUME NEW r \in Requests, InsertOutbox(r) PROVE TypeOK'
    BY <1>t, <1>12 DEF InsertOutbox
  <1>13. ASSUME NEW r \in Requests, step[r] = "commit", Apply(r)
         PROVE  /\ remaining' \in [Events -> Nat]
                /\ accepted' \in [Events -> Nat]
                /\ tickets' \subseteq Requests
                /\ outbox' \subseteq Requests
    <2>1. event[r] \in Events /\ quantity[r] > 0 /\ quantity[r] \in Int
      BY <1>t, <1>s, <1>13, BookingAssumption DEF StepsConsistent, Fenced
    <2>2. remaining[event[r]] \in Nat /\ remaining[event[r]] >= quantity[r]
      BY <1>t, <1>13, <2>1 DEF IInv, ReservationHolds, Reservable
    <2>3. remaining[event[r]] - quantity[r] \in Nat /\ token[r] \in Nat
      <3> HIDE DEF TypeOK
      <3>1. remaining[event[r]] - quantity[r] \in Nat
        BY <2>1, <2>2
      <3> QED
        BY <1>t, <3>1 DEF TypeOK
    <2>4. remaining' \in [Events -> Nat] /\ accepted' \in [Events -> Nat]
      <3> DEFINE left == remaining[event[r]] - quantity[r]
      <3>1. /\ \/ remaining' = [remaining EXCEPT ![event[r]] = left]
               \/ remaining' = remaining
            /\ \/ accepted' = [accepted EXCEPT ![event[r]] = token[r]]
               \/ accepted' = accepted
        BY <1>13 DEF Apply
      <3> HIDE DEF left
      <3> QED
        BY <1>t, <2>1, <2>3, <3>1 DEF left
    <2> QED
      BY <1>t, <1>13, <2>4 DEF Apply
  <1>14. ASSUME NEW r \in Requests, Commit(r) PROVE TypeOK'
    BY <1>t, <1>13, <1>14 DEF Commit
  <1>15. ASSUME NEW r \in Requests, CommitUnacknowledged(r) PROVE TypeOK'
    BY <1>t, <1>13, <1>15 DEF CommitUnacknowledged
  <1>16. ASSUME NEW r \in Requests, Respond(r) PROVE TypeOK'
    BY <1>t, <1>16 DEF Respond
  <1>17. ASSUME NEW r \in Requests, Fail(r) PROVE TypeOK'
    BY <1>t, <1>17 DEF Fail
  <1>18. ASSUME NEW r \in Requests, Lose(r) PROVE TypeOK'
    BY <1>t, <1>18 DEF Lose
  <1>19. ASSUME NEW e \in Events, EventStarts(e) PROVE TypeOK'
    BY <1>t, <1>19 DEF EventStarts, request
  <1>20. CASE UNCHANGED vars
    BY <1>t, <1>20 DEF vars, request
  <1> QED
    BY <1>1, <1>2, <1>3, <1>4, <1>5, <1>6, <1>7, <1>8, <1>9, <1>10, <1>11,
       <1>12, <1>14, <1>15, <1>16, <1>17, <1>18, <1>19, <1>20
       DEF Next, Proceed, AllAnswered

-----------------------------------------------------------------------------
(***************************************************************************)
(* The inductive invariant.                                                *)
(***************************************************************************)

(* Everything in IInv but the types. *)
Consistent ==
  /\ StepsConsistent
  /\ TicketsConsistent
  /\ CountersConsistent
  /\ OneTransactionPerEvent
  /\ ReservationHolds
  /\ ExplanationHolds
  /\ TokensDistinct
  /\ RefusalsJustified

(* The invariant holds before the first request. *)
LEMMA InvInit == Init => IInv
  <1> SUFFICES ASSUME Init PROVE IInv
    OBVIOUS
  <1>1. TypeOK
    BY TypeInit
  <1>2. StepsConsistent
    BY DEF Init, StepsConsistent, Fenced, InTransaction, WrittenBefore
  <1>3. TicketsConsistent
    BY DEF Init, TicketsConsistent, RefusalReplies
  <1>4. CountersConsistent
    BY DEF Init, CountersConsistent
  <1>5. OneTransactionPerEvent /\ ReservationHolds /\ ExplanationHolds
    BY DEF Init, OneTransactionPerEvent, ReservationHolds, ExplanationHolds,
           InTransaction
  <1>6. TokensDistinct /\ RefusalsJustified
    BY DEF Init, TokensDistinct, RefusalsJustified
  <1> QED
    BY <1>1, <1>2, <1>3, <1>4, <1>5, <1>6 DEF IInv

(* A request that returns, with an answer the books bear out. *)
LEMMA ReturnKeepsInv ==
  ASSUME IInv, NEW r \in Requests, NEW kind \in Replies \ {"none"},
         Return(r, kind),
         UNCHANGED <<bookings, fencing>>,
         step[r] # "done",
         kind = "ok" => r \in tickets,
         kind \in RefusalReplies => r \notin tickets,
         kind = "ErrStaleFencingToken" =>
           /\ event[r] \in Events
           /\ \E q \in tickets : event[q] = event[r] /\ token[q] > token[r],
         kind = "insufficient" =>
           event[r] \in Events /\ remaining[event[r]] < quantity[r]
  PROVE  Consistent'
  <1>0. TypeOK /\ Consistent
    BY DEF IInv, Consistent
  <1>a. /\ step' = [step EXCEPT ![r] = "done"]
        /\ writes' = [writes EXCEPT ![r] = {}]
        /\ reply' = [reply EXCEPT ![r] = kind]
        /\ UNCHANGED <<token, event, quantity, remaining, accepted, tickets,
                       outbox, counters, issued>>
    BY DEF Return, orders, bookings, fencing
  <1>b. \A q \in Requests : step'[q] # "done" => q # r /\ step'[q] = step[q]
    BY <1>0, <1>a DEF TypeOK
  <1>c. \A q \in Requests : q # r =>
          /\ step'[q] = step[q]
          /\ writes'[q] = writes[q]
          /\ reply'[q] = reply[q]
    BY <1>0, <1>a DEF TypeOK
  <1>d. step'[r] = "done" /\ writes'[r] = {} /\ reply'[r] = kind
    BY <1>0, <1>a DEF TypeOK
  <1>1. StepsConsistent'
    <2>1. WrittenBefore("done") = {}
      BY DEF WrittenBefore
    <2>2. \A q \in Requests : writes'[q] = WrittenBefore(step'[q])
      BY <1>0, <1>c, <1>d, <2>1 DEF Consistent, StepsConsistent
    <2> QED
      BY <1>0, <1>a, <1>c, <1>d, <2>2
         DEF Consistent, StepsConsistent, Fenced, InTransaction
  <1>2. TicketsConsistent'
    BY <1>0, <1>a, <1>c, <1>d DEF Consistent, TicketsConsistent, RefusalReplies
  <1>3. CountersConsistent'
    BY <1>0, <1>a DEF Consistent, CountersConsistent
  <1>4. OneTransactionPerEvent'
    BY <1>0, <1>a, <1>b DEF Consistent, OneTransactionPerEvent, InTransaction
  <1>5. ReservationHolds' /\ ExplanationHolds'
    BY <1>0, <1>a, <1>b
       DEF Consistent, ReservationHolds, ExplanationHolds, Reservable
  <1>6. TokensDistinct'
    BY <1>0, <1>a DEF Consistent, TokensDistinct
  <1>7. RefusalsJustified'
    BY <1>0, <1>a, <1>c, <1>d DEF Consistent, RefusalsJustified
  <1> QED
    BY <1>1, <1>2, <1>3, <1>4, <1>5, <1>6, <1>7 DEF Consistent

(* A request that executes a statement which changes no committed row. *)
LEMMA AdvanceKeepsInv ==
  ASSUME IInv, NEW r \in Requests,
         NEW to \in Steps \ {"validate", "respond", "done"},
         step[r] \notin {"respond", "done"},
         step' = [step EXCEPT ![r] = to],
         writes' = [writes EXCEPT ![r] = WrittenBefore(to)],
         UNCHANGED <<orders, token, reply, bookings, fencing>>,
         quantity[r] > 0,
         to # "read" => event[r] \in Events,
         to \in Fenced \cup {"token"} => event[r] \in counters,
         to \in Fenced => token[r] > 0,
         to \in InTransaction =>
           step[r] \in InTransaction \/ ~RowsLocked(event[r]),
         to \in {"ticket", "outbox", "commit"} => Reservable(r),
         to = "explain" => ~Reservable(r)
  PROVE  Consistent'
  <1>0. TypeOK /\ Consistent
    BY DEF IInv, Consistent
  <1>a. UNCHANGED <<token, event, quantity, remaining, accepted, tickets,
                    outbox, counters, issued, reply>>
    BY DEF orders, bookings, fencing
  <1>c. \A q \in Requests : q # r =>
          step'[q] = step[q] /\ writes'[q] = writes[q]
    BY <1>0 DEF TypeOK
  <1>d. step'[r] = to /\ writes'[r] = WrittenBefore(to)
    BY <1>0 DEF TypeOK
  <1>1. StepsConsistent'
    <2>1. ASSUME NEW q \in Requests, q # r
          PROVE  writes'[q] = WrittenBefore(step'[q])
      BY <1>0, <1>c, <2>1 DEF Consistent, StepsConsistent
    <2> HIDE DEF WrittenBefore
    <2> QED
      BY <1>0, <1>a, <1>c, <1>d, <2>1
         DEF Consistent, StepsConsistent, Fenced, Steps, Statements,
             InTransaction
  <1>2. TicketsConsistent'
    BY <1>0, <1>a, <1>c, <1>d DEF Consistent, TicketsConsistent
  <1>3. CountersConsistent'
    BY <1>0, <1>a DEF Consistent, CountersConsistent
  <1>4. OneTransactionPerEvent'
    BY <1>0, <1>a, <1>c, <1>d DEF Consistent, OneTransactionPerEvent, RowsLocked
  <1>5. ReservationHolds' /\ ExplanationHolds'
    BY <1>0, <1>a, <1>c, <1>d
       DEF Consistent, ReservationHolds, ExplanationHolds, Reservable
  <1>6. TokensDistinct'
    BY <1>0, <1>a DEF Consistent, TokensDistinct
  <1>7. RefusalsJustified'
    BY <1>0, <1>a DEF Consistent, RefusalsJustified
  <1> QED
    BY <1>1, <1>2, <1>3, <1>4, <1>5, <1>6, <1>7 DEF Consistent

(* The INSERT IGNORE of a counter row changes no number. *)
LEMMA InitCounterKeepsInv ==
  ASSUME IInv, NEW r \in Requests, InitCounter(r)
  PROVE  Consistent'
  <1>0. TypeOK /\ Consistent
    BY DEF IInv, Consistent
  <1>1. issued' = issued /\ accepted' = accepted
    <2>1. \A e \in Events \ counters : issued[e] = 0 /\ accepted[e] = 0
      BY <1>0 DEF Consistent, CountersConsistent
    <2> QED
      BY <1>0, <2>1 DEF InitCounter, TypeOK
  <1>2. event[r] \in Events /\ quantity[r] > 0 /\ r \notin tickets
    BY <1>0 DEF InitCounter, Advance, Consistent, StepsConsistent,
                TicketsConsistent
  <1>3. /\ step' = [step EXCEPT ![r] = "token"]
        /\ counters' = counters \cup {event[r]}
        /\ UNCHANGED <<event, quantity, token, writes, reply, remaining,
                       tickets, outbox>>
    BY DEF InitCounter, Advance, orders
  <1>c. \A q \in Requests : q # r => step'[q] = step[q]
    BY <1>0, <1>3 DEF TypeOK
  <1>d. step[r] = "counter" /\ step'[r] = "token"
    BY <1>0, <1>3 DEF TypeOK, InitCounter, Advance
  <1>4. StepsConsistent'
    <2>1. WrittenBefore("token") = WrittenBefore("counter")
      BY DEF WrittenBefore
    <2>2. \A q \in Requests : writes'[q] = WrittenBefore(step'[q])
      BY <1>0, <1>3, <1>c, <1>d, <2>1 DEF Consistent, StepsConsistent
    <2> QED
      BY <1>0, <1>1, <1>2, <1>3, <1>c, <1>d, <2>2
         DEF Consistent, StepsConsistent, Fenced, InTransaction
  <1>5. TicketsConsistent'
    BY <1>0, <1>1, <1>2, <1>3, <1>c, <1>d DEF Consistent, TicketsConsistent
  <1>6. CountersConsistent'
    BY <1>0, <1>1, <1>3 DEF Consistent, CountersConsistent
  <1>7. OneTransactionPerEvent'
    BY <1>0, <1>3, <1>c, <1>d
       DEF Consistent, OneTransactionPerEvent, InTransaction
  <1>8. ReservationHolds'
    BY <1>0, <1>1, <1>3, <1>c, <1>d
       DEF Consistent, ReservationHolds, Reservable
  <1>9. ExplanationHolds'
    BY <1>0, <1>1, <1>3, <1>c, <1>d
       DEF Consistent, ExplanationHolds, StepsConsistent, Fenced,
           InTransaction, Reservable
  <1>10. TokensDistinct' /\ RefusalsJustified'
    BY <1>0, <1>1, <1>3 DEF Consistent, TokensDistinct, RefusalsJustified
  <1> QED
    BY <1>4, <1>5, <1>6, <1>7, <1>8, <1>9, <1>10 DEF Consistent

(* A new token is above every token of its event. *)
LEMMA TokenKeepsInv ==
  ASSUME IInv, NEW r \in Requests, NextFencingToken(r)
  PROVE  Consistent'
  <1>0. TypeOK /\ Consistent
    BY DEF IInv, Consistent
  <1> PICK n \in Nat : n = issued[event[r]] + 1
    <2>1. issued[event[r]] \in Nat
      BY <1>0 DEF NextFencingToken, TypeOK
    <2> QED
      BY <2>1
  <1>1. /\ step[r] = "token"
        /\ event[r] \in counters
        /\ event[r] \in Events
        /\ step' = [step EXCEPT ![r] = "lock"]
        /\ issued' = [issued EXCEPT ![event[r]] = n]
        /\ token' = [token EXCEPT ![r] = n]
        /\ UNCHANGED <<event, quantity, writes, reply, remaining, accepted,
                       tickets, outbox, counters>>
    BY <1>0 DEF NextFencingToken, Advance, orders, bookings, TypeOK
  <1>2. quantity[r] > 0 /\ r \notin tickets
    BY <1>0, <1>1 DEF Consistent, StepsConsistent, TicketsConsistent
  <1>3. /\ n > issued[event[r]]
        /\ \A e \in Events : issued[e] \in Nat
      <2>1. \A e \in Events : issued[e] \in Nat
        BY <1>0 DEF TypeOK
      <2> QED
        BY <1>1, <2>1
  <1>c. \A q \in Requests : q # r => step'[q] = step[q] /\ token'[q] = token[q]
    BY <1>0, <1>1 DEF TypeOK
  <1>d. step'[r] = "lock" /\ token'[r] = n
    BY <1>0, <1>1 DEF TypeOK
  <1>e. \A e \in Events : issued'[e] = IF e = event[r] THEN n ELSE issued[e]
    BY <1>0, <1>1 DEF TypeOK
  <1>f. \A q \in Requests : token[q] \in Nat
    BY <1>0 DEF TypeOK
  <1>4. StepsConsistent'
    <2>1. WrittenBefore("lock") = WrittenBefore("token")
      BY DEF WrittenBefore
    <2>2. \A q \in Requests : writes'[q] = WrittenBefore(step'[q])
      BY <1>0, <1>1, <1>c, <1>d, <2>1 DEF Consistent, StepsConsistent
    <2>3. ASSUME NEW q \in Requests, token'[q] > 0
          PROVE  event'[q] \in Events /\ token'[q] <= issued'[event'[q]]
      <3>1. CASE q = r
        BY <1>1, <1>d, <1>e, <3>1
      <3>2. CASE q # r
        BY <1>0, <1>1, <1>3, <1>c, <1>e, <1>f, <2>3, <3>2
           DEF Consistent, StepsConsistent
      <3> QED
        BY <3>1, <3>2
    <2>4. n > 0
      BY <1>1, <1>3
    <2> QED
      BY <1>0, <1>1, <1>2, <1>c, <1>d, <2>2, <2>3, <2>4
         DEF Consistent, StepsConsistent, Fenced, InTransaction
  <1>5. TicketsConsistent'
    BY <1>0, <1>1, <1>2, <1>c, <1>d DEF Consistent, TicketsConsistent
  <1>6. CountersConsistent'
    BY <1>0, <1>1, <1>2, <1>c, <1>e
       DEF Consistent, CountersConsistent, TypeOK
  <1>7. OneTransactionPerEvent'
    BY <1>0, <1>1, <1>c, <1>d
       DEF Consistent, OneTransactionPerEvent, InTransaction
  <1>8. ReservationHolds' /\ ExplanationHolds'
    BY <1>0, <1>1, <1>c, <1>d
       DEF Consistent, ReservationHolds, ExplanationHolds, Reservable
  <1>9. TokensDistinct'
    <2>1. \A q \in Requests : q # r /\ event[q] = event[r] => token[q] < n
      BY <1>0, <1>1, <1>3, <1>f DEF Consistent, StepsConsistent
    <2> QED
      BY <1>0, <1>1, <1>c, <1>d, <1>f, <2>1 DEF Consistent, TokensDistinct
  <1>10. RefusalsJustified'
    <2>1. \A q \in Requests : reply[q] # "none" => q # r
      BY <1>0, <1>1 DEF Consistent, StepsConsistent
    <2>2. \A q \in tickets : q \in Requests /\ q # r
      BY <1>0, <1>2 DEF TypeOK
    <2> QED
      BY <1>0, <1>1, <1>c, <2>1, <2>2 DEF Consistent, RefusalsJustified
  <1> QED
    BY <1>4, <1>5, <1>6, <1>7, <1>8, <1>9, <1>10 DEF Consistent

(* What COMMIT does to the books: the whole booking of r, nothing else. *)
LEMMA CommitEffect ==
  ASSUME IInv, NEW r \in Requests, step[r] = "commit", Apply(r)
  PROVE  /\ event[r] \in Events
         /\ quantity[r] \in Int
         /\ quantity[r] > 0
         /\ remaining[event[r]] \in Nat
         /\ remaining[event[r]] >= quantity[r]
         /\ token[r] > accepted[event[r]]
         /\ r \notin tickets
         /\ remaining' =
              [remaining EXCEPT ![event[r]] = @ - quantity[r]]
         /\ accepted' = [accepted EXCEPT ![event[r]] = token[r]]
         /\ tickets' = tickets \cup {r}
         /\ outbox' = outbox \cup {r}
  <1>1. event[r] \in Events /\ quantity[r] > 0 /\ writes[r] = Tables
    BY DEF IInv, StepsConsistent, Fenced, InTransaction, WrittenBefore
  <1>2. quantity[r] \in Int /\ remaining[event[r]] \in Nat
    BY <1>1, BookingAssumption DEF IInv, TypeOK
  <1>3. remaining[event[r]] >= quantity[r] /\ token[r] > accepted[event[r]]
    BY DEF IInv, ReservationHolds, Reservable
  <1>4. r \notin tickets
    BY DEF IInv, TicketsConsistent
  <1>5. /\ remaining' = [remaining EXCEPT ![event[r]] = @ - quantity[r]]
        /\ accepted' = [accepted EXCEPT ![event[r]] = token[r]]
        /\ tickets' = tickets \cup {r}
        /\ outbox' = outbox \cup {r}
    BY <1>1 DEF Apply, Tables
  <1> QED
    BY <1>1, <1>2, <1>3, <1>4, <1>5

(* COMMIT, acknowledged or not: r goes on to answer, or has answered 500. *)
LEMMA CommitKeepsInv ==
  ASSUME IInv, NEW r \in Requests, step[r] = "commit", Apply(r),
         UNCHANGED <<orders, token, fencing>>,
         writes' = [writes EXCEPT ![r] = {}],
         \/ /\ step' = [step EXCEPT ![r] = "respond"]
            /\ reply' = reply
         \/ /\ step' = [step EXCEPT ![r] = "done"]
            /\ reply' = [reply EXCEPT ![r] = "internal"]
  PROVE  Consistent'
  <1>0. TypeOK /\ Consistent
    BY DEF IInv, Consistent
  <1> PICK e \in Events : e = event[r]
    BY CommitEffect
  <1> PICK left \in Nat : left = remaining[e] - quantity[r]
    BY CommitEffect
  <1>1. /\ quantity[r] > 0
        /\ left < remaining[e]
        /\ token[r] > accepted[e]
        /\ r \notin tickets
        /\ remaining' = [remaining EXCEPT ![e] = left]
        /\ accepted' = [accepted EXCEPT ![e] = token[r]]
        /\ tickets' = tickets \cup {r}
        /\ outbox' = outbox \cup {r}
        /\ UNCHANGED <<event, quantity, token, counters, issued>>
    <2>1. left < remaining[e]
      BY CommitEffect
    <2> QED
      BY <2>1, CommitEffect DEF orders, fencing
  <1>n. /\ \A d \in Events : remaining[d] \in Nat /\ accepted[d] \in Nat
        /\ \A q \in Requests : token[q] \in Nat /\ quantity[q] \in Int
    BY <1>0, BookingAssumption DEF TypeOK
  <1>c. \A q \in Requests : q # r =>
          step'[q] = step[q] /\ writes'[q] = writes[q] /\ reply'[q] = reply[q]
    BY <1>0 DEF TypeOK
  <1>d. /\ writes'[r] = {}
        /\ \/ step'[r] = "respond" /\ reply'[r] = reply[r]
           \/ step'[r] = "done" /\ reply'[r] = "internal"
    BY <1>0 DEF TypeOK
  <1>e. \A d \in Events :
          /\ remaining'[d] = IF d = e THEN left ELSE remaining[d]
          /\ accepted'[d] = IF d = e THEN token[r] ELSE accepted[d]
    BY <1>0, <1>1 DEF TypeOK
  <1>f. reply[r] = "none" /\ e \in counters /\ token[r] > 0
        /\ token[r] <= issued[e]
    BY <1>0 DEF Consistent, StepsConsistent, Fenced, InTransaction
  <1>2. StepsConsistent'
    <2>1. WrittenBefore("respond") = {} /\ WrittenBefore("done") = {}
      BY DEF WrittenBefore
    <2>2. \A q \in Requests : writes'[q] = WrittenBefore(step'[q])
      BY <1>0, <1>c, <1>d, <2>1 DEF Consistent, StepsConsistent
    <2> QED
      BY <1>0, <1>1, <1>c, <1>d, <1>f, <2>2
         DEF Consistent, StepsConsistent, Fenced, InTransaction
  <1>3. TicketsConsistent'
    <2>1. outbox' = tickets'
      BY <1>0, <1>1 DEF Consistent, TicketsConsistent
    <2>2. ASSUME NEW q \in tickets'
          PROVE  /\ event'[q] \in Events
                 /\ token'[q] \in 1..accepted'[event'[q]]
                 /\ step'[q] \in {"respond", "done"}
      <3>1. CASE q = r
        BY <1>1, <1>d, <1>e, <1>f, <1>n, <3>1
      <3>2. CASE q # r
        <4>1. /\ q \in tickets /\ q \in Requests
              /\ event[q] \in Events
              /\ token[q] \in 1..accepted[event[q]]
              /\ step[q] \in {"respond", "done"}
          BY <1>0, <1>1, <3>2 DEF Consistent, TicketsConsistent, TypeOK
        <4> QED
          BY <1>1, <1>c, <1>e, <1>n, <3>2, <4>1
      <3> QED
        BY <3>1, <3>2
    <2>3. ASSUME NEW q \in Requests
          PROVE  /\ step'[q] = "respond" \/ reply'[q] = "ok" => q \in tickets'
                 /\ reply'[q] \in RefusalReplies => q \notin tickets'
      BY <1>0, <1>1, <1>c, <1>d, <1>f
         DEF Consistent, TicketsConsistent, RefusalReplies
    <2> QED
      BY <2>1, <2>2, <2>3 DEF TicketsConsistent
  <1>4. CountersConsistent'
    BY <1>0, <1>1, <1>e, <1>f DEF Consistent, CountersConsistent
  <1>5. \A q \in Requests : q # r /\ step[q] \in InTransaction => event[q] # e
    BY <1>0 DEF Consistent, OneTransactionPerEvent, InTransaction
  <1>6. OneTransactionPerEvent'
    BY <1>0, <1>1, <1>c, <1>d
       DEF Consistent, OneTransactionPerEvent, InTransaction
  <1>7. ReservationHolds' /\ ExplanationHolds'
    <2>1. ASSUME NEW q \in Requests, step'[q] \in InTransaction
          PROVE  step'[q] = step[q] /\ (Reservable(q)' <=> Reservable(q))
      <3>1. q # r /\ step'[q] = step[q]
        BY <1>c, <1>d, <2>1 DEF InTransaction
      <3>2. event[q] \in Events /\ event[q] # e
        BY <1>0, <1>5, <2>1, <3>1 DEF Consistent, StepsConsistent, Fenced
      <3> QED
        BY <1>1, <1>e, <3>1, <3>2 DEF Reservable
    <2> QED
      BY <1>0, <2>1
         DEF Consistent, ReservationHolds, ExplanationHolds, InTransaction
  <1>8. TokensDistinct'
    BY <1>0, <1>1 DEF Consistent, TokensDistinct
  <1>9. RefusalsJustified'
    <2>1. ASSUME NEW q \in Requests, reply'[q] = "ErrStaleFencingToken"
          PROVE  \E t \in tickets' : event'[t] = event'[q] /\ token'[t] > token'[q]
      BY <1>0, <1>1, <1>c, <1>d, <1>f, <2>1 DEF Consistent, RefusalsJustified
    <2>2. ASSUME NEW q \in Requests, reply'[q] = "insufficient"
          PROVE  remaining'[event'[q]] < quantity'[q]
      <3>1. /\ q # r
            /\ reply[q] = "insufficient"
        BY <1>c, <1>d, <1>f, <2>2
      <3>2. event[q] \in Events /\ remaining[event[q]] < quantity[q]
        BY <1>0, <3>1 DEF Consistent, RefusalsJustified, StepsConsistent
      <3> QED
        BY <1>1, <1>e, <1>n, <3>2
    <2> QED
      BY <2>1, <2>2 DEF RefusalsJustified
  <1> QED
    BY <1>2, <1>3, <1>4, <1>6, <1>7, <1>8, <1>9 DEF Consistent

(* Every statement, failure and crash keeps it. *)
LEMMA InvNext == IInv /\ [Next]_vars => IInv'
  <1> SUFFICES ASSUME IInv, [Next]_vars PROVE IInv'
    OBVIOUS
  <1>t. TypeOK'
    BY TypeNext
  <1>0. TypeOK /\ StepsConsistent /\ TicketsConsistent
    BY DEF IInv
  <1>q. \A r \in Requests : quantity[r] \in Int
    BY <1>0, BookingAssumption DEF TypeOK
  <1>c. SUFFICES Consistent'
    BY <1>t DEF IInv, Consistent
  <1> USE DEF Replies, RefusalReplies
  <1>1. ASSUME NEW r \in Requests, RejectQuantity(r) PROVE Consistent'
    BY <1>0, <1>1, ReturnKeepsInv DEF RejectQuantity, TicketsConsistent
  <1>2. ASSUME NEW r \in Requests, AcceptQuantity(r) PROVE Consistent'
    <2>1. /\ WrittenBefore("read") = WrittenBefore(step[r])
          /\ "read" \notin Fenced \cup {"token"} \cup InTransaction
          /\ "read" \in Steps \ {"validate", "respond", "done"}
      BY <1>2 DEF AcceptQuantity, Advance, WrittenBefore, Fenced,
                  InTransaction, Steps, Statements
    <2>2. writes' = [writes EXCEPT ![r] = WrittenBefore("read")]
      BY <1>0, <1>2, <2>1 DEF AcceptQuantity, StepsConsistent, TypeOK
    <2> QED
      BY <1>2, <2>1, <2>2, AdvanceKeepsInv
         DEF AcceptQuantity, Advance, bookings, fencing, orders
  <1>3. ASSUME NEW r \in Requests, EventUnusable(r) PROVE Consistent'
    BY <1>0, <1>3, ReturnKeepsInv DEF EventUnusable, TicketsConsistent
  <1>4. ASSUME NEW r \in Requests, ReadEvent(r) PROVE Consistent'
    <2>1. /\ WrittenBefore("counter") = WrittenBefore(step[r])
          /\ "counter" \notin Fenced \cup {"token"} \cup InTransaction
          /\ "counter" \in Steps \ {"validate", "respond", "done"}
      BY <1>4 DEF ReadEvent, Advance, WrittenBefore, Fenced,
                  InTransaction, Steps, Statements
    <2>2. writes' = [writes EXCEPT ![r] = WrittenBefore("counter")]
      BY <1>0, <1>4, <2>1 DEF ReadEvent, StepsConsistent, TypeOK
    <2>3. quantity[r] > 0
      BY <1>0, <1>4 DEF ReadEvent, Advance, StepsConsistent
    <2> QED
      BY <1>4, <2>1, <2>2, <2>3, AdvanceKeepsInv
         DEF ReadEvent, Advance, bookings, fencing, orders
  <1>5. ASSUME NEW r \in Requests, InitCounter(r) PROVE Consistent'
    BY <1>5, InitCounterKeepsInv
  <1>6. ASSUME NEW r \in Requests, NextFencingToken(r) PROVE Consistent'
    BY <1>6, TokenKeepsInv
  (* What is known of a request that holds a token. *)
  <1>f. ASSUME NEW r \in Requests, step[r] \in Fenced
        PROVE  /\ quantity[r] > 0
               /\ event[r] \in Events
               /\ event[r] \in counters
               /\ token[r] > 0
    BY <1>0, <1>f DEF StepsConsistent, Fenced, InTransaction
  <1>7. ASSUME NEW r \in Requests, AcquireLock(r) PROVE Consistent'
    <2>1. /\ WrittenBefore("reserve") = WrittenBefore(step[r])
          /\ "reserve" \notin InTransaction
          /\ "reserve" \in Steps \ {"validate", "respond", "done"}
          /\ step[r] \in Fenced
      BY <1>7 DEF AcquireLock, Advance, WrittenBefore, Fenced,
                  InTransaction, Steps, Statements
    <2>2. writes' = [writes EXCEPT ![r] = WrittenBefore("reserve")]
      BY <1>0, <1>7, <2>1 DEF AcquireLock, StepsConsistent, TypeOK
    <2> QED
      BY <1>7, <1>f, <2>1, <2>2, AdvanceKeepsInv
         DEF AcquireLock, Advance, bookings, fencing, orders
  <1>8. ASSUME NEW r \in Requests, LockTaken(r) PROVE Consistent'
    BY <1>0, <1>8, ReturnKeepsInv DEF LockTaken, TicketsConsistent
  <1>9. ASSUME NEW r \in Requests, Reserve(r) PROVE Consistent'
    <2>1. /\ step[r] = "reserve"
          /\ step[r] \in Fenced
          /\ {"ticket", "explain"} \subseteq InTransaction
          /\ {"ticket", "explain"} \subseteq
               Steps \ {"validate", "respond", "done"}
          /\ writes[r] = {}
      BY <1>0, <1>9 DEF Reserve, Advance, StepsConsistent, WrittenBefore,
                        Fenced, InTransaction, Steps, Statements
    <2>2. CASE Reservable(r)
      <3>1. /\ step' = [step EXCEPT ![r] = "ticket"]
            /\ Write(r, "events")
            /\ ~RowsLocked(event[r])
            /\ UNCHANGED <<orders, token, reply, bookings, fencing>>
        BY <1>9, <2>2 DEF Reserve, Advance, bookings, fencing, orders
      <3>2. writes' = [writes EXCEPT ![r] = WrittenBefore("ticket")]
        BY <1>0, <2>1, <3>1 DEF Write, WrittenBefore, TypeOK
      <3> QED
        BY <1>f, <2>1, <2>2, <3>1, <3>2, AdvanceKeepsInv
    <2>3. CASE ~Reservable(r)
      <3>1. /\ step' = [step EXCEPT ![r] = "explain"]
            /\ writes' = writes
            /\ ~RowsLocked(event[r])
            /\ UNCHANGED <<orders, token, reply, bookings, fencing>>
        BY <1>9, <2>3 DEF Reserve, Advance, bookings, fencing, orders
      <3>2. writes' = [writes EXCEPT ![r] = WrittenBefore("explain")]
        BY <1>0, <2>1, <3>1 DEF WrittenBefore, TypeOK
      <3> QED
        BY <1>f, <2>1, <2>3, <3>1, <3>2, AdvanceKeepsInv
    <2> QED
      BY <2>2, <2>3
  <1>10. ASSUME NEW r \in Requests, Explain(r) PROVE Consistent'
    <2> PICK e \in Events : e = event[r]
      BY <1>10, <1>f DEF Explain, Fenced, InTransaction
    <2>1. /\ step[r] = "explain" /\ token[r] > 0 /\ r \notin tickets
          /\ e \in counters
          /\ UNCHANGED <<bookings, fencing>>
      BY <1>0, <1>10, <1>f
         DEF Explain, Fenced, InTransaction, TicketsConsistent, bookings, fencing
    <2>2. ~(remaining[e] >= quantity[r] /\ token[r] > accepted[e])
      BY <2>1 DEF IInv, ExplanationHolds, Reservable
    <2>3. remaining[e] \in Nat /\ accepted[e] \in Nat /\ token[r] \in Nat
      BY <1>0 DEF TypeOK
    <2>4. CASE token[r] <= accepted[e]
      <3>1. Return(r, "ErrStaleFencingToken")
        BY <1>10, <2>3, <2>4 DEF Explain
      <3>2. accepted[e] # 0
        BY <2>1, <2>3, <2>4
      <3>3. PICK q \in tickets : event[q] = e /\ token[q] = accepted[e]
        BY <3>2 DEF IInv, CountersConsistent
      <3>4. q # r /\ q \in Requests /\ token[q] # token[r]
        <4>1. q # r /\ q \in Requests
          BY <1>0, <2>1, <3>3 DEF TypeOK
        <4>2. TokensDistinct
          BY DEF IInv
        <4>3. token[r] # 0 /\ event[q] = event[r]
          BY <2>1, <2>3, <3>3
        <4> QED
          BY <4>1, <4>2, <4>3 DEF TokensDistinct
      <3>5. token[q] > token[r]
        BY <2>3, <2>4, <3>3, <3>4
      <3> QED
        BY <2>1, <3>1, <3>3, <3>5, ReturnKeepsInv
    <2>5. CASE token[r] > accepted[e]
      <3>1. Return(r, "insufficient")
        BY <1>10, <2>3, <2>5 DEF Explain
      <3>2. remaining[e] < quantity[r]
        BY <1>q, <2>2, <2>3, <2>5
      <3> QED
        BY <2>1, <3>1, <3>2, ReturnKeepsInv
    <2> QED
      BY <2>3, <2>4, <2>5
  <1>11. ASSUME NEW r \in Requests, CreateTicket(r) PROVE Consistent'
    <2>1. /\ step[r] = "ticket"
          /\ {"ticket", "outbox"} \subseteq InTransaction
          /\ InTransaction \subseteq Fenced
          /\ "outbox" \in Steps \ {"validate", "respond", "done"}
          /\ writes[r] = {"events"}
      BY <1>0, <1>11 DEF CreateTicket, Advance, StepsConsistent, WrittenBefore,
                         Fenced, InTransaction, Steps, Statements
    <2>2. writes' = [writes EXCEPT ![r] = WrittenBefore("outbox")]
      BY <1>0, <1>11, <2>1 DEF CreateTicket, Write, WrittenBefore, TypeOK
    <2>3. Reservable(r)
      BY <2>1 DEF IInv, ReservationHolds
    <2> QED
      BY <1>11, <1>f, <2>1, <2>2, <2>3, AdvanceKeepsInv
         DEF CreateTicket, Advance, bookings, fencing, orders
  <1>12. ASSUME NEW r \in Requests, InsertOutbox(r) PROVE Consistent'
    <2>1. /\ step[r] = "outbox"
          /\ {"outbox", "commit"} \subseteq InTransaction
          /\ InTransaction \subseteq Fenced
          /\ "commit" \in Steps \ {"validate", "respond", "done"}
          /\ writes[r] = {"events", "tickets"}
      BY <1>0, <1>12 DEF InsertOutbox, Advance, StepsConsistent, WrittenBefore,
                         Fenced, InTransaction, Steps, Statements
    <2>2. writes' = [writes EXCEPT ![r] = WrittenBefore("commit")]
      BY <1>0, <1>12, <2>1
         DEF InsertOutbox, Write, WrittenBefore, Tables, TypeOK
    <2>3. Reservable(r)
      BY <2>1 DEF IInv, ReservationHolds
    <2> QED
      BY <1>12, <1>f, <2>1, <2>2, <2>3, AdvanceKeepsInv
         DEF InsertOutbox, Advance, bookings, fencing, orders
  <1>13. ASSUME NEW r \in Requests, Commit(r) PROVE Consistent'
    BY <1>13, CommitKeepsInv DEF Commit, Advance, orders, fencing
  <1>14. ASSUME NEW r \in Requests, CommitUnacknowledged(r) PROVE Consistent'
    BY <1>14, CommitKeepsInv
       DEF CommitUnacknowledged, Return, orders, fencing
  <1>15. ASSUME NEW r \in Requests, Respond(r) PROVE Consistent'
    BY <1>0, <1>15, ReturnKeepsInv DEF Respond, TicketsConsistent
  <1>16. ASSUME NEW r \in Requests, Fail(r) PROVE Consistent'
    BY <1>0, <1>16, ReturnKeepsInv DEF Fail, Statements, InTransaction
  <1>17. ASSUME NEW r \in Requests, Lose(r) PROVE Consistent'
    BY <1>0, <1>17, ReturnKeepsInv DEF Lose
  (* The books and the requests stay as they are. *)
  <1>18. ASSUME UNCHANGED <<orders, request, bookings, fencing>>
         PROVE  Consistent'
    <2>1. UNCHANGED <<event, quantity, step, token, writes, reply, remaining,
                      accepted, tickets, outbox, counters, issued>>
      BY <1>18 DEF orders, request, bookings, fencing
    <2> QED
      BY <2>1
         DEF IInv, Consistent, StepsConsistent, TicketsConsistent,
             CountersConsistent, OneTransactionPerEvent, ReservationHolds,
             ExplanationHolds, TokensDistinct, RefusalsJustified, Reservable
  <1>19. ASSUME NEW e \in Events, EventStarts(e) PROVE Consistent'
    BY <1>18, <1>19 DEF EventStarts
  <1>20. CASE UNCHANGED vars
    BY <1>18, <1>20 DEF vars
  <1> QED
    BY <1>1, <1>2, <1>3, <1>4, <1>5, <1>6, <1>7, <1>8, <1>9, <1>10, <1>11,
       <1>12, <1>13, <1>14, <1>15, <1>16, <1>17, <1>19, <1>20
       DEF Next, Proceed, AllAnswered

(* The inductive invariant holds in every reachable state; with it the     *)
(* types, the reservations, the distinct tokens and the refusals' reasons. *)
THEOREM BookingInvariant == Spec => []IInv
  BY InvInit, InvNext, PTL DEF Spec

(* A booking that passed its conditional UPDATE cannot be overtaken before *)
(* its COMMIT, whatever the Redis lock does.                               *)
THEOREM ReservationsHold == Spec => []ReservationHolds
  <1>1. IInv => ReservationHolds
    BY DEF IInv
  <1> QED
    BY <1>1, BookingInvariant, PTL

(* Fencing tokens of an event are never handed out twice. *)
THEOREM TokensAreDistinct == Spec => []TokensDistinct
  <1>1. IInv => TokensDistinct
    BY DEF IInv
  <1> QED
    BY <1>1, BookingInvariant, PTL

(* No buyer is refused for a reason that is not so. *)
THEOREM RefusalsAreJustified == Spec => []RefusalsJustified
  <1>1. IInv => RefusalsJustified
    BY DEF IInv
  <1> QED
    BY <1>1, BookingInvariant, PTL

-----------------------------------------------------------------------------
(***************************************************************************)
(* Commit order and refinement.                                            *)
(***************************************************************************)

(* Only a COMMIT changes the books; a counter row starts from zero. *)
LEMMA BooksChangeAtCommit ==
  ASSUME IInv, [Next]_vars,
         \A r \in Requests : ~(Commit(r) \/ CommitUnacknowledged(r))
  PROVE  UNCHANGED <<remaining, tickets, outbox>>
  BY DEF Next, Proceed, RejectQuantity, AcceptQuantity, EventUnusable,
         ReadEvent, InitCounter, NextFencingToken, AcquireLock, LockTaken,
         Reserve, Explain, CreateTicket, InsertOutbox, Respond, Fail, Lose,
         EventStarts, AllAnswered, vars, bookings

(* Tickets of an event are committed in the order of their tokens. *)
THEOREM TicketsFollowTokens == Spec => CommitsInTokenOrder
  <1> DEFINE InOrder == \A r \in tickets' \ tickets : \A q \in tickets :
                          event[q] = event[r] => token[q] < token[r]
  <1>1. ASSUME IInv, [Next]_vars PROVE InOrder
    <2>1. ASSUME NEW r \in Requests, step[r] = "commit", Apply(r)
          PROVE  InOrder
      <3>1. tickets' = tickets \cup {r} /\ token[r] > accepted[event[r]]
        BY <1>1, <2>1, CommitEffect
      <3>2. event[r] \in Events
        BY <1>1, <2>1, CommitEffect
      <3>3. ASSUME NEW q \in tickets, event[q] = event[r]
            PROVE  token[q] < token[r]
        <4>1. TypeOK /\ TicketsConsistent
          BY <1>1 DEF IInv
        <4>2. /\ q \in Requests
              /\ token[q] \in Nat /\ token[r] \in Nat
              /\ accepted[event[r]] \in Nat
          BY <2>1, <3>2, <4>1 DEF TypeOK
        <4>3. token[q] \in 1..accepted[event[r]]
          BY <3>3, <4>1, <4>2 DEF TicketsConsistent
        <4> QED
          BY <3>1, <4>2, <4>3
      <3> QED
        BY <3>1, <3>3
    <2>2. CASE \E r \in Requests : Commit(r) \/ CommitUnacknowledged(r)
      BY <2>1, <2>2 DEF Commit, CommitUnacknowledged, Advance
    <2>3. CASE \A r \in Requests : ~(Commit(r) \/ CommitUnacknowledged(r))
      BY <1>1, <2>3, BooksChangeAtCommit
    <2> QED
      BY <2>2, <2>3
  <1>2. IInv /\ [Next]_vars => [InOrder]_vars
    BY <1>1
  <1> QED
    BY <1>2, BookingInvariant, PTL DEF Spec, CommitsInTokenOrder

(* What the buyer of each reply has learnt. *)
LEMMA ReplyOutcomes ==
  ASSUME NEW kind \in Replies \ {"none"}
  PROVE  /\ Outcome(HttpStatus(kind)) \in {"confirmed", "refused", "unknown"}
         /\ Outcome(HttpStatus(kind)) = "confirmed" <=> kind = "ok"
         /\ Outcome(HttpStatus(kind)) = "refused" <=> kind \in RefusalReplies
  <1>1. CASE kind = "ok"
    BY <1>1 DEF Outcome, HttpStatus, RefusalReplies
  <1>2. CASE kind \in {"ErrInvalidQuantity", "ErrEventPast"}
    <2>1. CASE kind = "ErrInvalidQuantity"
      BY <2>1 DEF Outcome, HttpStatus, RefusalReplies
    <2>2. CASE kind = "ErrEventPast"
      BY <2>2 DEF Outcome, HttpStatus, RefusalReplies
    <2> QED
      BY <1>2, <2>1, <2>2
  <1>3. CASE kind = "ErrLockNotAcquired"
    BY <1>3 DEF Outcome, HttpStatus, RefusalReplies
  <1>4. CASE kind = "ErrStaleFencingToken"
    BY <1>4 DEF Outcome, HttpStatus, RefusalReplies
  <1>5. CASE kind \in {"insufficient", "event not found", "parse error",
                       "internal"}
    <2>1. HttpStatus(kind) = 500
      <3>1. CASE kind = "insufficient"
        BY <3>1 DEF HttpStatus, ComparedPrefixLength, InsufficientLength
      <3>2. CASE kind = "event not found"
        BY <3>2 DEF HttpStatus
      <3>3. CASE kind = "parse error"
        BY <3>3 DEF HttpStatus
      <3>4. CASE kind = "internal"
        BY <3>4 DEF HttpStatus
      <3> QED
        BY <1>5, <3>1, <3>2, <3>3, <3>4
    <2>2. Outcome(500) = "unknown"
      BY DEF Outcome
    <2> QED
      BY <1>5, <2>1, <2>2 DEF RefusalReplies
  <1>6. CASE kind = "lost"
    <2>1. HttpStatus(kind) = 0
      BY <1>6 DEF HttpStatus
    <2> QED
      BY <1>6, <2>1 DEF Outcome, RefusalReplies
  <1> QED
    BY <1>1, <1>2, <1>3, <1>4, <1>5, <1>6 DEF Replies

(* A request that returns without touching the books confirms, refuses or  *)
(* gives up in the abstract sale.                                          *)
LEMMA ReturnAnswers ==
  ASSUME IInv, NEW r \in Requests, NEW kind \in Replies \ {"none"},
         step[r] # "done",
         reply' = [reply EXCEPT ![r] = kind],
         UNCHANGED <<event, quantity, remaining, tickets, outbox>>,
         kind = "ok" => r \in tickets,
         kind \in RefusalReplies => r \notin tickets
  PROVE  Sale!Next
  <1>1. TypeOK /\ reply[r] = "none"
    BY DEF IInv, StepsConsistent
  <1>2. answer[r] = "none"
    BY <1>1 DEF answer
  <1>3. answer' = [answer EXCEPT ![r] = Outcome(HttpStatus(kind))]
    BY <1>1 DEF answer, TypeOK
  <1> HIDE DEF answer, Outcome, HttpStatus
  <1>4. CASE kind = "ok"
    <2>1. Sale!Confirm(r)
      BY <1>2, <1>3, <1>4, ReplyOutcomes DEF Sale!Confirm
    <2> QED
      BY <2>1 DEF Sale!Next
  <1>5. CASE kind \in RefusalReplies
    <2>1. Sale!Refuse(r)
      BY <1>2, <1>3, <1>5, ReplyOutcomes DEF Sale!Refuse
    <2> QED
      BY <2>1 DEF Sale!Next
  <1>6. CASE kind # "ok" /\ kind \notin RefusalReplies
    <2>1. Outcome(HttpStatus(kind)) = "unknown"
      BY <1>6, ReplyOutcomes
    <2>2. answer' = [q \in Requests |-> IF q \in {r} THEN "unknown" ELSE answer[q]]
      BY <1>3, <2>1 DEF answer
    <2>3. Sale!GiveUp({r})
      BY <1>2, <2>2 DEF Sale!GiveUp
    <2> QED
      BY <2>3 DEF Sale!Next
  <1> QED
    BY <1>4, <1>5, <1>6

(* A COMMIT books the order; unacknowledged, the buyer is left in doubt. *)
LEMMA CommitBooks ==
  ASSUME IInv, NEW r \in Requests, step[r] = "commit", Apply(r),
         UNCHANGED <<event, quantity>>,
         reply' = reply \/ reply' = [reply EXCEPT ![r] = "internal"]
  PROVE  Sale!Next
  <1>1. TypeOK /\ reply[r] = "none"
    BY DEF IInv, StepsConsistent
  <1>2. answer[r] = "none"
    BY <1>1 DEF answer
  <1>3. \E a \in {"none", "unknown"} : answer' = [answer EXCEPT ![r] = a]
    <2>1. CASE reply' = reply
      <3>1. answer' = [answer EXCEPT ![r] = "none"]
        BY <1>1, <2>1 DEF answer, TypeOK
      <3> QED
        BY <3>1
    <2>2. CASE reply' = [reply EXCEPT ![r] = "internal"]
      <3>1. answer' = [answer EXCEPT ![r] = Outcome(HttpStatus("internal"))]
        BY <1>1, <2>2 DEF answer, TypeOK
      <3>2. Outcome(HttpStatus("internal")) = "unknown"
        <4> DEFINE kind == "internal"
        <4>1. kind \in Replies \ {"none"} /\ kind # "ok"
              /\ kind \notin RefusalReplies
          BY DEF Replies, RefusalReplies
        <4> HIDE DEF kind
        <4>2. Outcome(HttpStatus(kind)) = "unknown"
          BY <4>1, ReplyOutcomes
        <4> QED
          BY <4>2 DEF kind
      <3> QED
        BY <3>1, <3>2
    <2> QED
      BY <2>1, <2>2
  <1>4. quantity[r] \in 1..remaining[event[r]]
    BY CommitEffect
  <1>5. Sale!Book(r)
    BY <1>2, <1>3, <1>4, CommitEffect DEF Sale!Book
  <1> QED
    BY <1>5 DEF Sale!Next

(* The other steps leave the books and the answers alone. *)
LEMMA QuietStep ==
  ASSUME UNCHANGED <<event, quantity, remaining, tickets, outbox, reply>>
  PROVE  UNCHANGED Sale!saleVars
  BY DEF Sale!saleVars, answer

(* The sale opens as the service starts. *)
LEMMA SaleInit == Init => Sale!Init
  BY BookingAssumption DEF Init, Sale!Init, answer

(* A step of the flow is a step of the abstract sale or leaves it alone. *)
LEMMA SaleNext == IInv /\ [Next]_vars => [Sale!Next]_(Sale!saleVars)
  <1> SUFFICES ASSUME IInv, [Next]_vars
               PROVE  Sale!Next \/ UNCHANGED Sale!saleVars
    OBVIOUS
  <1>0. TicketsConsistent
    BY DEF IInv
  <1> USE DEF Replies, RefusalReplies, bookings, orders
  <1>1. ASSUME NEW r \in Requests,
               RejectQuantity(r) \/ EventUnusable(r) \/ LockTaken(r)
               \/ Explain(r)
        PROVE  Sale!Next
    BY <1>0, <1>1, ReturnAnswers
       DEF RejectQuantity, EventUnusable, LockTaken, Explain, Return,
           TicketsConsistent
  <1>2. ASSUME NEW r \in Requests, Respond(r) \/ Fail(r) \/ Lose(r)
        PROVE  Sale!Next
    BY <1>0, <1>2, ReturnAnswers
       DEF Respond, Fail, Lose, Return, TicketsConsistent, Statements,
           InTransaction
  <1>3. ASSUME NEW r \in Requests, Commit(r) \/ CommitUnacknowledged(r)
        PROVE  Sale!Next
    BY <1>3, CommitBooks DEF Commit, CommitUnacknowledged, Advance, Return
  <1>4. ASSUME NEW r \in Requests,
               \/ AcceptQuantity(r) \/ ReadEvent(r) \/ InitCounter(r)
               \/ NextFencingToken(r) \/ AcquireLock(r) \/ Reserve(r)
               \/ CreateTicket(r) \/ InsertOutbox(r)
        PROVE  UNCHANGED Sale!saleVars
    <2>1. UNCHANGED <<event, quantity, remaining, tickets, outbox, reply>>
      BY <1>4 DEF AcceptQuantity, ReadEvent, InitCounter, NextFencingToken,
                  AcquireLock, Reserve, CreateTicket, InsertOutbox
    <2> QED
      BY <2>1, QuietStep
  <1>5. ASSUME \/ \E e \in Events : EventStarts(e)
               \/ UNCHANGED vars
        PROVE  UNCHANGED Sale!saleVars
    <2>1. UNCHANGED <<event, quantity, remaining, tickets, outbox, reply>>
      BY <1>5 DEF EventStarts, vars, request
    <2> QED
      BY <2>1, QuietStep
  <1> QED
    BY <1>1, <1>2, <1>3, <1>4, <1>5 DEF Next, Proceed, AllAnswered

(* The interleaved, failing, unlockable purchase flow implements the       *)
(* atomic sale.                                                            *)
THEOREM BookingImplementsSale == Spec => ImplementsTicketSale
  <1>1. Init => Sale!Init
    BY SaleInit
  <1>2. IInv /\ [Next]_vars => [Sale!Next]_(Sale!saleVars)
    BY SaleNext
  <1> QED
    BY <1>1, <1>2, BookingInvariant, PTL
       DEF Spec, ImplementsTicketSale, Sale!Spec

-----------------------------------------------------------------------------
(***************************************************************************)
(* The atomic sale of TicketSale.tla, for every set of requests, events    *)
(* and stock: tickets and stock add up, every ticket is announced and the  *)
(* answers are true.  These steps are those of the sale alone; whatever    *)
(* implements it inherits them.                                            *)
(***************************************************************************)

(* The counted set has to be finite for its cardinality to be a number. *)
SaleInv ==
  /\ Sale!SaleTypeOK
  /\ \A e \in Events : IsFiniteSet(Sale!Admissions(e))
  /\ Sale!Conservation
  /\ Sale!AnnouncedIffBooked
  /\ Sale!TruthfulAnswers

(* The sale counts its tickets as this module does, now and after a step.  *)
LEMMA SaleCounts ==
  /\ Sale!Conservation
       <=> \A e \in Events : Cardinality(Sale!Admissions(e)) + remaining[e] = OnSale[e]
  /\ Sale!Conservation'
       <=> \A e \in Events : Cardinality(Sale!Admissions(e)') + remaining'[e] = OnSale[e]
  BY DEF Sale!Conservation, Sale!Cardinality, Cardinality

(* The tickets of one order: as many admissions as its quantity. *)
LEMMA OrderSize ==
  ASSUME NEW r, NEW n \in Nat
  PROVE  /\ IsFiniteSet({r} \X (1..n))
         /\ Cardinality({r} \X (1..n)) = n
  <1> DEFINE S == {r}
             T == 1..n
  <1>1. IsFiniteSet(S) /\ Cardinality(S) = 1
    BY FS_Singleton
  <1>2. IsFiniteSet(T) /\ Cardinality(T) = n
    BY FS_Interval
  <1>3. IsFiniteSet(S \X T) /\ Cardinality(S \X T) = 1 * n
    <2> HIDE DEF S, T
    <2> QED
      BY <1>1, <1>2, FS_Product
  <1> QED
    BY <1>3

(* Booking r adds exactly the admissions of r to its event. *)
LEMMA BookCounts ==
  ASSUME SaleInv, NEW r \in Requests, Sale!Book(r)
  PROVE  /\ \A e \in Events : IsFiniteSet(Sale!Admissions(e)')
         /\ Sale!Conservation'
  <1> DEFINE order == {r} \X (1..quantity[r])
  <1> PICK b \in Events : b = event[r]
    BY DEF Sale!Book
  <1>1. b \in Events /\ quantity[r] \in Nat /\ quantity[r] <= remaining[b]
    BY DEF Sale!Book, SaleInv, Sale!SaleTypeOK
  <1>2. Sale!Admissions(b)' = Sale!Admissions(b) \cup order
    BY DEF Sale!Book, Sale!Admissions
  <1>3. Sale!Admissions(b) \cap order = {}
    BY DEF Sale!Book, Sale!Admissions
  <1>4. \A e \in Events : e # b => Sale!Admissions(e)' = Sale!Admissions(e)
    BY DEF Sale!Book, Sale!Admissions
  <1>5. IsFiniteSet(Sale!Admissions(b)) /\ Cardinality(Sale!Admissions(b)) \in Nat
    BY <1>1, FS_CardinalityType DEF SaleInv
  <1>6. IsFiniteSet(order) /\ Cardinality(order) = quantity[r]
    BY <1>1, OrderSize
  <1>7. /\ IsFiniteSet(Sale!Admissions(b)')
        /\ Cardinality(Sale!Admissions(b)') = Cardinality(Sale!Admissions(b)) + quantity[r]
    <2>1. Cardinality(Sale!Admissions(b) \cap order) = 0
      BY <1>3, FS_EmptySet
    <2> DEFINE old == Sale!Admissions(b)
    <2>2. /\ IsFiniteSet(old \cup order)
          /\ Cardinality(old \cup order) = Cardinality(old) + quantity[r] - 0
      <3> HIDE DEF old, order
      <3> QED
        BY <1>5, <1>6, <2>1, FS_Union DEF old
    <2> HIDE DEF order
    <2> QED
      BY <1>1, <1>2, <1>5, <2>2
  <1>8. ASSUME NEW e \in Events
        PROVE  /\ IsFiniteSet(Sale!Admissions(e)')
               /\ Cardinality(Sale!Admissions(e)') + remaining'[e] = OnSale[e]
    <2>1. CASE e = b
      <3>1. remaining'[b] = remaining[b] - quantity[r]
        BY <1>1 DEF Sale!Book, SaleInv, Sale!SaleTypeOK
      <3>2. Cardinality(Sale!Admissions(b)) + remaining[b] = OnSale[b]
        BY <1>1, SaleCounts DEF SaleInv
      <3>3. remaining[b] \in Nat
        BY <1>1 DEF SaleInv, Sale!SaleTypeOK
      <3> QED
        BY <1>1, <1>5, <1>7, <2>1, <3>1, <3>2, <3>3
    <2>2. CASE e # b
      <3>1. remaining'[e] = remaining[e]
        BY <2>2, <1>1 DEF Sale!Book, SaleInv, Sale!SaleTypeOK
      <3> QED
        BY <1>4, <2>2, <3>1, SaleCounts DEF SaleInv
    <2> QED
      BY <2>1, <2>2
  <1>9. \A e \in Events : Cardinality(Sale!Admissions(e)') + remaining'[e] = OnSale[e]
    BY <1>8
  <1> QED
    BY <1>8, <1>9, SaleCounts

(* The sale opens with its whole stock. *)
LEMMA SaleInvInit ==
  ASSUME Sale!SaleAssumption, Sale!Init
  PROVE  SaleInv
  <1>1. Sale!SaleTypeOK
    BY DEF Sale!SaleAssumption, Sale!Init, Sale!SaleTypeOK, Sale!Answers
  <1>2. \A e \in Events : Sale!Admissions(e) = {}
    BY DEF Sale!Init, Sale!Admissions
  <1>3. \A e \in Events : IsFiniteSet(Sale!Admissions(e)) /\ Cardinality(Sale!Admissions(e)) = 0
    BY <1>2, FS_EmptySet
  <1>4. Sale!Conservation
    BY <1>3, SaleCounts DEF Sale!SaleAssumption, Sale!Init
  <1> QED
    BY <1>1, <1>3, <1>4
       DEF Sale!Init, SaleInv, Sale!AnnouncedIffBooked, Sale!TruthfulAnswers

(* Bookings and answers keep the books. *)
LEMMA SaleInvNext == SaleInv /\ [Sale!Next]_(Sale!saleVars) => SaleInv'
  <1> SUFFICES ASSUME SaleInv, [Sale!Next]_(Sale!saleVars) PROVE SaleInv'
    OBVIOUS
  <1> USE DEF SaleInv
  (* A step that only answers leaves the books alone. *)
  <1>0. ASSUME UNCHANGED <<event, quantity, remaining, tickets>>
        PROVE  /\ \A e \in Events : IsFiniteSet(Sale!Admissions(e)')
               /\ Sale!Conservation'
    BY <1>0 DEF Sale!Admissions, Sale!Conservation
  <1>1. ASSUME NEW r \in Requests, Sale!Book(r) PROVE SaleInv'
    <2>1. Sale!SaleTypeOK'
      <3>1. remaining' \in [Events -> Nat]
        <4>1. quantity[r] \in Int /\ remaining[event[r]] - quantity[r] \in Nat
          BY <1>1 DEF Sale!Book, Sale!SaleTypeOK
        <4> QED
          BY <1>1, <4>1 DEF Sale!Book, Sale!SaleTypeOK
      <3> QED
        BY <1>1, <3>1 DEF Sale!Book, Sale!SaleTypeOK, Sale!Answers
    <2>2. Sale!AnnouncedIffBooked' /\ Sale!TruthfulAnswers'
      BY <1>1 DEF Sale!Book, Sale!SaleTypeOK, Sale!AnnouncedIffBooked, Sale!TruthfulAnswers
    <2> QED
      BY <1>1, <2>1, <2>2, BookCounts
  <1>2. ASSUME NEW r \in Requests, Sale!Confirm(r) PROVE SaleInv'
    BY <1>0, <1>2
       DEF Sale!Confirm, Sale!SaleTypeOK, Sale!Answers, Sale!AnnouncedIffBooked, Sale!TruthfulAnswers
  <1>3. ASSUME NEW r \in Requests, Sale!Refuse(r) PROVE SaleInv'
    BY <1>0, <1>3
       DEF Sale!Refuse, Sale!SaleTypeOK, Sale!Answers, Sale!AnnouncedIffBooked, Sale!TruthfulAnswers
  <1>4. ASSUME NEW lost \in SUBSET Requests, Sale!GiveUp(lost) PROVE SaleInv'
    BY <1>0, <1>4
       DEF Sale!GiveUp, Sale!SaleTypeOK, Sale!Answers, Sale!AnnouncedIffBooked, Sale!TruthfulAnswers
  <1>5. CASE UNCHANGED Sale!saleVars
    BY <1>0, <1>5
       DEF Sale!saleVars, Sale!SaleTypeOK, Sale!Answers, Sale!AnnouncedIffBooked, Sale!TruthfulAnswers
  <1> QED
    BY <1>1, <1>2, <1>3, <1>4, <1>5 DEF Sale!Next

(* The abstract sale keeps its books, announces every ticket and never     *)
(* tells a buyer anything untrue.                                          *)
THEOREM SaleCorrect ==
  ASSUME Sale!SaleAssumption
  PROVE  Sale!Spec => [](Sale!Conservation /\ Sale!AnnouncedIffBooked /\ Sale!TruthfulAnswers)
  <1>0. Sale!Init => SaleInv
    BY SaleInvInit
  <1>1. Sale!Spec => []SaleInv
    BY <1>0, SaleInvNext, PTL DEF Sale!Spec
  <1>2. SaleInv => Sale!Conservation /\ Sale!AnnouncedIffBooked /\ Sale!TruthfulAnswers
    BY DEF SaleInv
  <1> QED
    BY <1>1, <1>2, PTL

(* Whatever implements the sale keeps its stock. *)
LEMMA SaleConserves == ImplementsTicketSale => []Conservation
  <1>1. Sale!SaleAssumption
    BY BookingAssumption DEF Sale!SaleAssumption
  <1>2. Sale!Spec => []Sale!Conservation
    BY <1>1, SaleCorrect, PTL
  <1> QED
    BY <1>2, PTL DEF ImplementsTicketSale, Conservation

(* No ticket is sold twice and none is lost. *)
THEOREM StockIsConserved == Spec => []Conservation
  BY BookingImplementsSale, SaleConserves, PTL

-----------------------------------------------------------------------------
(***************************************************************************)
(* The lock of the flow is the one that RedLockProofs.tla is about.        *)
(***************************************************************************)

LockP == INSTANCE RedLockProofs

(* What was assumed there holds here. *)
LEMMA LockAssumed == FlowAssumption => LockP!RedLockAssumption
  BY DEF FlowAssumption, Lock!RedLockAssumption, LockP!RedLockAssumption,
      Lock!IsFiniteSet, LockP!IsFiniteSet

(* The lock starts as it does alone. *)
LEMMA LockInit == Lock!Init <=> LockP!Init
  BY DEF Lock!Init, LockP!Init

(* What the flow does to the lock is a step of the lock. *)
LEMMA LockStep == [FlowNext]_flowVars => [LockP!Next]_(LockP!vars)
  <1> SUFFICES ASSUME [FlowNext]_flowVars
               PROVE  LockP!Next \/ UNCHANGED LockP!vars
    OBVIOUS
  <1>1. CASE UNCHANGED lockVars
    BY <1>1 DEF lockVars, LockP!vars, LockP!votes, LockP!commands
  <1>2. ASSUME Lock!Next PROVE LockP!Next
    BY <1>2
    DEF Lock!Next, LockP!Next, Lock!TryLock, LockP!TryLock, Lock!Win, LockP!Win,
        Lock!Store, LockP!Store, Lock!Taken, LockP!Taken, Lock!GiveUp, LockP!GiveUp,
        Lock!Cancel, LockP!Cancel, Lock!Release, LockP!Release,
        Lock!ReleaseCancelled, LockP!ReleaseCancelled, Lock!Lapse, LockP!Lapse,
        Lock!SetNXAnswered, LockP!SetNXAnswered, Lock!SetNXUnanswered,
        LockP!SetNXUnanswered, Lock!DeleteIfEqual, LockP!DeleteIfEqual,
        Lock!Expire, LockP!Expire, Lock!Crash, LockP!Crash, Lock!Withdraw,
        LockP!Withdraw, Lock!MoveTo, LockP!MoveTo, Lock!Deletes, LockP!Deletes,
        Lock!ForgetVotes, LockP!ForgetVotes, Lock!Majority, LockP!Majority,
        Lock!Cardinality, LockP!Cardinality, Lock!Holder, LockP!Holder,
        Lock!commands, LockP!commands, Lock!votes, LockP!votes
  <1>3. Lock!Next \/ UNCHANGED lockVars
    BY DEF FlowNext, Proceeds, Ask, Granted, Acquired, Refused, AcquireFails,
           Executes, Releases, StatementFails, ClientGone, LeaseEnds, CrashProcess,
           MasterWorks, DatePasses, AllReleased, flowVars, Lock!Next
  <1> QED
    BY <1>1, <1>2, <1>3

-----------------------------------------------------------------------------
(***************************************************************************)
(* The statements of the flow are those of the first part of this module,  *)
(* except that a crash may take several requests at once.                  *)
(***************************************************************************)

(* Where the lock stands does not matter to the statements. *)
LEMMA BookingStep ==
  [FlowNext]_flowVars => [Next]_vars \/ \E p \in Processes : CrashProcess(p)
  BY DEF FlowNext, Proceeds, Ask, Granted, Acquired, Refused, AcquireFails,
         Executes, Releases, StatementFails, ClientGone, LeaseEnds, MasterWorks,
         DatePasses, AllReleased, flowVars, Next, Proceed

(* A crash ends requests that had no answer yet and rolls their            *)
(* transactions back.                                                      *)
LEMMA CrashEffect ==
  ASSUME IInv, NEW p \in Processes, CrashProcess(p)
  PROVE  /\ UNCHANGED <<token, event, quantity, remaining, accepted, tickets,
                        outbox, counters, issued, past>>
         /\ step' \in [Requests -> Steps] /\ writes' \in [Requests -> SUBSET Tables]
         /\ reply' \in [Requests -> Replies]
         /\ \A r \in Requests :
              \/ /\ step'[r] = step[r] /\ writes'[r] = writes[r]
                 /\ reply'[r] = reply[r]
              \/ /\ step[r] # "done"
                 /\ step'[r] = "done" /\ writes'[r] = {} /\ reply'[r] = "lost"
  <1>1. TypeOK
    BY DEF IInv
  <1> USE <1>1 DEF TypeOK, CrashProcess
  <1>2. UNCHANGED <<token, event, quantity, remaining, accepted, tickets, outbox,
                    counters, issued, past>>
    BY DEF orders, bookings, fencing
  <1>3. \A r \in Requests :
          \/ /\ step'[r] = step[r] /\ writes'[r] = writes[r]
             /\ reply'[r] = reply[r]
          \/ /\ step[r] # "done"
             /\ step'[r] = "done" /\ writes'[r] = {} /\ reply'[r] = "lost"
    OBVIOUS
  <1>4. /\ step' \in [Requests -> Steps] /\ writes' \in [Requests -> SUBSET Tables]
        /\ reply' \in [Requests -> Replies]
    <2>1. "done" \in Steps /\ "lost" \in Replies
      BY DEF Steps, Replies
    <2> QED
      BY <2>1
  <1> QED
    BY <1>2, <1>3, <1>4

(* It leaves the invariant of the statements intact. *)
LEMMA CrashKeepsInv ==
  ASSUME IInv, NEW p \in Processes, CrashProcess(p)
  PROVE  IInv'
  <1>0. TypeOK /\ Consistent
    BY DEF IInv, Consistent
  <1>a. /\ UNCHANGED <<token, event, quantity, remaining, accepted, tickets, outbox,
                       counters, issued, past>>
        /\ step' \in [Requests -> Steps] /\ writes' \in [Requests -> SUBSET Tables]
        /\ reply' \in [Requests -> Replies]
    BY CrashEffect
  <1>b. \A r \in Requests :
          \/ step'[r] = step[r] /\ writes'[r] = writes[r] /\ reply'[r] = reply[r]
          \/ step[r] # "done" /\ step'[r] = "done" /\ writes'[r] = {}
             /\ reply'[r] = "lost"
    BY CrashEffect
  <1>c. \A r \in Requests : step'[r] # "done" => step'[r] = step[r]
    BY <1>b
  <1>1. TypeOK'
    BY <1>0, <1>a DEF TypeOK
  <1>2. StepsConsistent'
    <2>1. WrittenBefore("done") = {}
      BY DEF WrittenBefore
    <2>2. \A r \in Requests : writes'[r] = WrittenBefore(step'[r])
      BY <1>0, <1>b, <2>1 DEF Consistent, StepsConsistent
    <2> HIDE DEF WrittenBefore
    <2> QED
      BY <1>0, <1>a, <1>b, <2>2
      DEF Consistent, StepsConsistent, Fenced, InTransaction
  <1>3. TicketsConsistent'
    BY <1>0, <1>a, <1>b DEF Consistent, TicketsConsistent, RefusalReplies
  <1>4. CountersConsistent'
    BY <1>0, <1>a DEF Consistent, CountersConsistent
  <1>5. OneTransactionPerEvent'
    BY <1>0, <1>a, <1>c DEF Consistent, OneTransactionPerEvent, InTransaction
  <1>6. ReservationHolds' /\ ExplanationHolds'
    BY <1>0, <1>a, <1>c DEF Consistent, ReservationHolds, ExplanationHolds, Reservable
  <1>7. TokensDistinct' /\ RefusalsJustified'
    BY <1>0, <1>a, <1>b DEF Consistent, TokensDistinct, RefusalsJustified
  <1> QED
    BY <1>1, <1>2, <1>3, <1>4, <1>5, <1>6, <1>7 DEF IInv

(* In the abstract sale the buyers of a crashed replica give up together. *)
LEMMA CrashGivesUp ==
  ASSUME IInv, NEW p \in Processes, CrashProcess(p)
  PROVE  Sale!Next
  <1> DEFINE lost == {r \in Requests : process[r] = p /\ step[r] # "done"}
  <1>1. \A r \in lost : answer[r] = "none"
    BY DEF IInv, StepsConsistent, answer
  <1>2. answer' = [r \in Requests |-> IF r \in lost THEN "unknown" ELSE answer[r]]
    <2>1. reply' = [r \in Requests |-> IF r \in lost THEN "lost" ELSE reply[r]]
      BY DEF CrashProcess
    <2>2. Outcome(HttpStatus("lost")) = "unknown"
      <3> DEFINE kind == "lost"
      <3>1. /\ kind \in Replies \ {"none"} /\ kind # "ok"
            /\ kind \notin RefusalReplies
        BY DEF Replies, RefusalReplies
      <3> HIDE DEF kind
      <3>2. Outcome(HttpStatus(kind)) = "unknown"
        BY <3>1, ReplyOutcomes
      <3> QED
        BY <3>2 DEF kind
    <2> HIDE DEF lost, Outcome, HttpStatus
    <2>3. answer' = [r \in Requests |->
                       IF reply'[r] = "none" THEN "none"
                                             ELSE Outcome(HttpStatus(reply'[r]))]
      BY DEF answer
    <2>4. \A r \in Requests : reply'[r] = IF r \in lost THEN "lost" ELSE reply[r]
      BY <2>1
    <2> QED
      BY <2>2, <2>3, <2>4 DEF answer
  <1>3. Sale!GiveUp(lost)
    BY <1>1, <1>2, CrashEffect DEF Sale!GiveUp
  <1> QED
    BY <1>3 DEF Sale!Next

-----------------------------------------------------------------------------
(***************************************************************************)
(* The invariant of the flow.                                              *)
(***************************************************************************)

FlowInv ==
  /\ IInv
  /\ LockP!LockInv
  /\ InsideHolds

(* A request gets in with its lock in hand, and out before its Release. *)
LEMMA InsideHoldsNext ==
  ASSUME IInv, LockP!TypeOK, InsideHolds, [FlowNext]_flowVars
  PROVE  InsideHolds'
  <1>1. /\ step \in [Requests -> Steps]
        /\ phase \in [Requests -> LockP!Phases]
        /\ \A r \in Requests : Inside(r) => phase[r] = "holding"
    BY DEF IInv, TypeOK, LockP!TypeOK, InsideHolds
  <1> SUFFICES ASSUME NEW q \in Requests, Inside(q)'
               PROVE  phase'[q] = "holding"
    BY DEF InsideHolds
  <1>2. \* the lock moves, the statements do not
        ASSUME step' = step,
               phase'[q] = phase[q] \/ phase[q] # "holding"
        PROVE  phase'[q] = "holding"
    BY <1>1, <1>2 DEF Inside
  <1>3. \* the statements move, the lock does not
        ASSUME phase' = phase, Inside(q)
        PROVE  phase'[q] = "holding"
    BY <1>1, <1>3
  <1> USE DEF Lock!MoveTo
  <1>4. ASSUME NEW r \in Requests, Ask(r) \/ Granted(r) PROVE phase'[q] = "holding"
    BY <1>1, <1>2, <1>4
    DEF Ask, Granted, Lock!TryLock, Lock!Win, vars, request
  <1>5. ASSUME NEW r \in Requests, Acquired(r) PROVE phase'[q] = "holding"
    BY <1>1, <1>5
    DEF Acquired, Lock!Store, AcquireLock, Advance, Inside, InTransaction, vars,
        request
  <1>6. ASSUME NEW r \in Requests, Refused(r) \/ AcquireFails(r)
        PROVE  phase'[q] = "holding"
    BY <1>1, <1>6
    DEF Refused, AcquireFails, Lock!Taken, Lock!GiveUp, Lock!Withdraw, LockTaken,
        Fail, Return, Inside, InTransaction
  <1>7. ASSUME NEW r \in Requests, Executes(r) PROVE phase'[q] = "holding"
    <2>1. phase' = phase
      BY <1>7 DEF Executes, lockVars
    <2>2. Inside(q)
      BY <1>1, <1>7
      DEF Executes, RejectQuantity, AcceptQuantity, EventUnusable, ReadEvent,
          InitCounter, NextFencingToken, Reserve, Explain, CreateTicket,
          InsertOutbox, Commit, CommitUnacknowledged, Respond, Return, Advance,
          Inside, InTransaction
    <2> QED
      BY <1>3, <2>1, <2>2
  <1>8. ASSUME NEW r \in Requests, Releases(r) PROVE phase'[q] = "holding"
    <2>1. step' = step /\ step[r] = "done"
      BY <1>8 DEF Releases, vars, request
    <2>2. q # r
      BY <2>1 DEF Inside, InTransaction
    <2>3. phase'[q] = phase[q]
      BY <1>1, <1>8, <2>2 DEF Releases, Lock!Release, Lock!ReleaseCancelled
    <2> QED
      BY <1>2, <2>1, <2>3
  <1>9. ASSUME NEW r \in Requests, StatementFails(r) PROVE phase'[q] = "holding"
    BY <1>1, <1>9
    DEF StatementFails, Fail, Return, lockVars, Inside, InTransaction
  <1>10. ASSUME NEW r \in Requests, ClientGone(r) PROVE phase'[q] = "holding"
    <2>1. q # r /\ Inside(q)
      BY <1>1, <1>10 DEF ClientGone, Lose, Return, Inside, InTransaction
    <2>2. phase'[q] = phase[q]
      BY <1>1, <1>10, <2>1 DEF ClientGone, Lock!Cancel, lockVars
    <2> QED
      BY <1>1, <2>1, <2>2
  <1>11. ASSUME NEW p \in Processes, CrashProcess(p) PROVE phase'[q] = "holding"
    <2>1. /\ phase' = [r \in Requests |->
                         IF /\ process[r] = p
                            /\ Lock!Holder(r) \/ phase[r] = "asking"
                         THEN "crashed" ELSE phase[r]]
          /\ step' = [r \in Requests |->
                        IF process[r] = p /\ step[r] # "done" THEN "done"
                                                              ELSE step[r]]
      BY <1>11 DEF CrashProcess, Lock!Crash
    <2>2. process[q] # p /\ Inside(q)
      BY <2>1 DEF Inside, InTransaction
    <2> QED
      BY <1>1, <2>1, <2>2
  <1>12. CASE \/ MasterWorks \/ \E r \in Requests : LeaseEnds(r)
              \/ \E e \in Events : DatePasses(e)
              \/ AllReleased \/ UNCHANGED flowVars
    <2>1. step' = step /\ phase' = phase
      BY <1>12
      DEF MasterWorks, LeaseEnds, DatePasses, AllReleased, EventStarts, AllAnswered,
          Lock!SetNXAnswered, Lock!SetNXUnanswered, Lock!DeleteIfEqual, Lock!Expire,
          Lock!Lapse, flowVars, lockVars, vars, request
    <2> QED
      BY <1>2, <2>1
  <1> QED
    BY <1>4, <1>5, <1>6, <1>7, <1>8, <1>9, <1>10, <1>11, <1>12
    DEF FlowNext, Proceeds

(* The statements and the lock keep their invariants side by side. *)
LEMMA FlowInvNext ==
  ASSUME FlowAssumption, FlowInv, [FlowNext]_flowVars
  PROVE  FlowInv'
  <1>1. IInv'
    BY BookingStep, InvNext, CrashKeepsInv DEF FlowInv
  <1>2. LockP!LockInv'
    BY LockStep, LockAssumed, LockP!LockInvNext DEF FlowInv
  <1>3. InsideHolds'
    BY InsideHoldsNext DEF FlowInv, LockP!LockInv
  <1> QED
    BY <1>1, <1>2, <1>3 DEF FlowInv

(* Nobody is inside when the service starts. *)
LEMMA FlowInvInit ==
  ASSUME FlowAssumption, FlowInit
  PROVE  FlowInv
  <1>1. IInv
    BY InvInit DEF FlowInit
  <1>2. LockP!LockInv
    BY LockInit, LockAssumed, LockP!LockInvInit DEF FlowInit
  <1>3. InsideHolds
    BY DEF FlowInit, Init, InsideHolds, Inside, InTransaction
  <1> QED
    BY <1>1, <1>2, <1>3 DEF FlowInv

(* The statements, the lock and what joins them are consistent, for any    *)
(* number of requests, replicas and masters.                               *)
THEOREM FlowInvariant ==
  ASSUME FlowAssumption
  PROVE  FlowSpec => []FlowInv
  <1>1. FlowInit => FlowInv
    BY FlowInvInit
  <1>2. FlowInv /\ [FlowNext]_flowVars => FlowInv'
    BY FlowInvNext
  <1> QED
    BY <1>1, <1>2, PTL DEF FlowSpec

(* Requests within their leases run their transactions one at a time.      *)
THEOREM OneTransactionAtATime ==
  ASSUME FlowAssumption
  PROVE  FlowSpec => []TransactionsUnderLease
  <1>1. FlowInv => TransactionsUnderLease
    <2> SUFFICES ASSUME FlowInv, Lock!Isolated,
                        NEW r \in Requests \ overran, NEW q \in Requests \ overran,
                        Inside(r), Inside(q)
                 PROVE  r = q
      BY DEF TransactionsUnderLease
    <2>1. phase[r] = "holding" /\ phase[q] = "holding"
      BY DEF FlowInv, InsideHolds
    <2>2. LockP!Live(r) /\ LockP!Live(q)
      BY <2>1
      DEF FlowInv, LockP!LockInv, LockP!TableConsistent, LockP!Live, LockP!Holder
    <2>3. LockP!MutualExclusion /\ LockP!Isolated
      BY LockAssumed, LockP!LockInvImplies
      DEF FlowInv, Lock!Isolated, LockP!Isolated
    <2> QED
      BY <2>2, <2>3 DEF LockP!MutualExclusion
  <1> QED
    BY <1>1, FlowInvariant, PTL

(* Under its lock, with deferred releases, vanished clients and crashing   *)
(* replicas, the purchase flow implements the atomic sale.                 *)
THEOREM FlowImplementsSale ==
  ASSUME FlowAssumption
  PROVE  FlowSpec => ImplementsTicketSale
  <1>1. FlowInit => Sale!Init
    BY SaleInit DEF FlowInit
  <1>2. FlowInv /\ [FlowNext]_flowVars => [Sale!Next]_(Sale!saleVars)
    BY BookingStep, SaleNext, CrashGivesUp DEF FlowInv
  <1> QED
    BY <1>1, <1>2, FlowInvariant, PTL DEF FlowSpec, ImplementsTicketSale, Sale!Spec

(* Stock left plus tickets sold is the stock put on sale, also when a      *)
(* replica crashes in the middle of its transactions.                      *)
THEOREM FlowConservesStock ==
  ASSUME FlowAssumption
  PROVE  FlowSpec => []Conservation
  BY FlowImplementsSale, SaleConserves, PTL

(* Reservations hold until their COMMIT, fencing tokens stay distinct and  *)
(* refusals true, under the lock and through crashes of replicas.          *)
THEOREM FlowKeepsPromises ==
  ASSUME FlowAssumption
  PROVE  FlowSpec => [](ReservationHolds /\ TokensDistinct /\ RefusalsJustified)
  <1>1. FlowInv => ReservationHolds /\ TokensDistinct /\ RefusalsJustified
    BY DEF FlowInv, IInv
  <1> QED
    BY <1>1, FlowInvariant, PTL

=============================================================================
