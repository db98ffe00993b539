---------------------------- MODULE OutboxProofs ----------------------------
(***************************************************************************)
(* Proofs about the outbox relay, for any number of rows and relays.       *)
(***************************************************************************)
EXTENDS Outbox, TLAPS

(* Every action keeps every variable within its type. *)
LEMMA OutboxTypeNext == TypeOK /\ [Next]_vars => TypeOK'
  <1> SUFFICES ASSUME TypeOK, [Next]_vars PROVE TypeOK'
    OBVIOUS
  <1> USE DEF TypeOK, Places, Goto, Deliver, Many, work, table
  <1>1. ASSUME NEW i \in Rows, Insert(i) \/ LeaseRunsOut(i) \/ BackOffElapses(i)
        PROVE  TypeOK'
    BY <1>1 DEF Insert, LeaseRunsOut, BackOffElapses
  <1>2. ASSUME NEW r \in Relays, Select(r) PROVE TypeOK'
    BY <1>2 DEF Select, Claimable
  <1>3. ASSUME NEW r \in Relays, Lease(r) \/ ClaimFails(r) PROVE TypeOK'
    BY <1>3 DEF Lease, ClaimFails
  <1>4. ASSUME NEW r \in Relays,
               Publish(r) \/ PublishFails(r) \/ PublishUnacknowledged(r)
        PROVE  TypeOK'
    BY <1>4 DEF Publish, PublishFails, PublishUnacknowledged
  <1>5. ASSUME NEW r \in Relays, MarkPublished(r) \/ MarkFails(r) PROVE TypeOK'
    BY <1>5 DEF MarkPublished, MarkFails
  <1>6. ASSUME NEW r \in Relays, ScheduleRetry(r) \/ RetryFails(r) PROVE TypeOK'
    BY <1>6 DEF ScheduleRetry, RetryFails
  <1>7. ASSUME NEW r \in Relays, Crash(r) PROVE TypeOK'
    BY <1>7 DEF Crash
  <1>8. CASE UNCHANGED vars
    BY <1>8 DEF vars
  <1> QED
    BY <1>1, <1>2, <1>3, <1>4, <1>5, <1>6, <1>7, <1>8 DEF Next, Proceed, AllPublished

(* Nothing is published that is not committed, and nothing is marked that  *)
(* has not been published.                                                 *)
Delivered ==
  /\ NothingLostOrInvented
  /\ MarkedIsSent
  /\ WorkIsCommitted

(* No step, failure or crash invents a row or loses a published one. *)
LEMMA DeliveredNext ==
  TypeOK /\ Delivered /\ [Next]_vars => Delivered'
  <1> SUFFICES ASSUME TypeOK, Delivered, [Next]_vars PROVE Delivered'
    OBVIOUS
  <1> USE DEF TypeOK, Delivered, NothingLostOrInvented, MarkedIsSent,
              WorkIsCommitted, Places, Goto, Deliver, Many, work, table
  <1>1. ASSUME NEW i \in Rows, Insert(i) \/ LeaseRunsOut(i) \/ BackOffElapses(i)
        PROVE  Delivered'
    BY <1>1 DEF Insert, LeaseRunsOut, BackOffElapses
  <1>2. ASSUME NEW r \in Relays, Select(r) PROVE Delivered'
    BY <1>2 DEF Select, Claimable
  <1>3. ASSUME NEW r \in Relays, Lease(r) \/ ClaimFails(r) PROVE Delivered'
    BY <1>3 DEF Lease, ClaimFails
  <1>4. ASSUME NEW r \in Relays,
               Publish(r) \/ PublishFails(r) \/ PublishUnacknowledged(r)
        PROVE  Delivered'
    BY <1>4 DEF Publish, PublishFails, PublishUnacknowledged
  <1>5. ASSUME NEW r \in Relays, MarkPublished(r) \/ MarkFails(r) PROVE Delivered'
    BY <1>5 DEF MarkPublished, MarkFails
  <1>6. ASSUME NEW r \in Relays, ScheduleRetry(r) \/ RetryFails(r) PROVE Delivered'
    BY <1>6 DEF ScheduleRetry, RetryFails
  <1>7. ASSUME NEW r \in Relays, Crash(r) PROVE Delivered'
    BY <1>7 DEF Crash
  <1>8. CASE UNCHANGED vars
    BY <1>8 DEF vars
  <1> QED
    BY <1>1, <1>2, <1>3, <1>4, <1>5, <1>6, <1>7, <1>8 DEF Next, Proceed, AllPublished

(***************************************************************************)
(* A row that met no fault has one relay at most.  The interesting steps:  *)
(* Select, where an unpublished, unleased row without an open claim has no *)
(* relay and has not been sent; ScheduleRetry and LeaseRunsOut, which drop *)
(* the lease.                                                              *)
(***************************************************************************)
LEMMA CalmRowsNext ==
  TypeOK /\ Delivered /\ CalmRows /\ [Next]_vars => CalmRows'
  <1> SUFFICES ASSUME TypeOK, Delivered, CalmRows, [Next]_vars PROVE CalmRows'
    OBVIOUS
  <1> USE DEF TypeOK, CalmRows, Places, Goto, Deliver, Many, work, table
  <1>1. ASSUME NEW i \in Rows, Insert(i) PROVE CalmRows'
    BY <1>1 DEF Insert
  <1>2. ASSUME NEW i \in Rows, LeaseRunsOut(i) PROVE CalmRows'
    BY <1>2 DEF LeaseRunsOut, WorksOn
  <1>3. ASSUME NEW i \in Rows, BackOffElapses(i) PROVE CalmRows'
    BY <1>3 DEF BackOffElapses
  <1>4. ASSUME NEW r \in Relays, Select(r) PROVE CalmRows'
    <2>1. PICK i \in Claimable : row' = [row EXCEPT ![r] = i]
      BY <1>4 DEF Select
    <2>2. /\ i \in Rows /\ i \notin leased /\ i \notin published
          /\ \A q \in Relays : ~(at[q] = "claim" /\ row[q] = i)
      BY <2>1 DEF Claimable
    <2>3. i \notin troubled =>
            /\ log[i] = 0
            /\ \A q \in Relays : row[q] = i => at[q] = "poll"
      BY <2>2
    <2> QED
      BY <1>4, <2>1, <2>2, <2>3 DEF Select
  <1>5. ASSUME NEW r \in Relays, Lease(r) PROVE CalmRows'
    BY <1>5 DEF Lease
  <1>6. ASSUME NEW r \in Relays, ClaimFails(r) PROVE CalmRows'
    BY <1>6 DEF ClaimFails
  <1>7. ASSUME NEW r \in Relays, Publish(r) PROVE CalmRows'
    BY <1>7 DEF Publish
  <1>8. ASSUME NEW r \in Relays, PublishFails(r) PROVE CalmRows'
    BY <1>8 DEF PublishFails
  <1>9. ASSUME NEW r \in Relays, PublishUnacknowledged(r) PROVE CalmRows'
    BY <1>9 DEF PublishUnacknowledged
  <1>10. ASSUME NEW r \in Relays, MarkPublished(r) PROVE CalmRows'
    BY <1>10 DEF MarkPublished
  <1>11. ASSUME NEW r \in Relays, MarkFails(r) PROVE CalmRows'
    BY <1>11 DEF MarkFails
  <1>12. ASSUME NEW r \in Relays, ScheduleRetry(r) PROVE CalmRows'
    BY <1>12 DEF ScheduleRetry
  <1>13. ASSUME NEW r \in Relays, RetryFails(r) PROVE CalmRows'
    BY <1>13 DEF RetryFails
  <1>14. ASSUME NEW r \in Relays, Crash(r) PROVE CalmRows'
    BY <1>14 DEF Crash
  <1>15. CASE UNCHANGED vars
    BY <1>15 DEF vars
  <1> QED
    BY <1>1, <1>2, <1>3, <1>4, <1>5, <1>6, <1>7, <1>8, <1>9, <1>10, <1>11,
       <1>12, <1>13, <1>14, <1>15 DEF Next, Proceed, AllPublished

(* The invariant of the relay holds for any number of rows and relays.     *)
THEOREM OutboxInvariant == Spec => []OutboxInv
  <1>1. Init => OutboxInv
    BY DEF Init, OutboxInv, TypeOK, NothingLostOrInvented, MarkedIsSent,
           WorkIsCommitted, CalmRows, Places, Many
  <1>2. OutboxInv /\ [Next]_vars => OutboxInv'
    BY OutboxTypeNext, DeliveredNext, CalmRowsNext DEF OutboxInv, Delivered
  <1> QED
    BY <1>1, <1>2, PTL DEF Spec

(* Kafka holds an announcement for every row marked published and none for *)
(* a booking that did not commit.                                          *)
THEOREM NothingIsLost == Spec => []NothingLostOrInvented
  <1>1. OutboxInv => NothingLostOrInvented
    BY DEF OutboxInv
  <1> QED
    BY <1>1, OutboxInvariant, PTL

(* A row that met no fault is published at most once, whatever the number  *)
(* of relays that poll the table.                                          *)
THEOREM CalmRowsPublishedOnce == Spec => []NoDuplicateWithoutFault
  <1>1. OutboxInv => NoDuplicateWithoutFault
    BY DEF OutboxInv, TypeOK, CalmRows, NoDuplicateWithoutFault
  <1> QED
    BY <1>1, OutboxInvariant, PTL

=============================================================================
