------------------------------- MODULE Outbox -------------------------------
(***************************************************************************)
(* The transactional outbox of the ticket service: the rows that booking   *)
(* transactions commit to ticket_db.outbox_events and the relays, one per  *)
(* replica, that publish them to Kafka (services/ticket/internal/outbox,   *)
(* publisher, shared/pkg/kafka/producer.go).                               *)
(*                                                                         *)
(* A relay leases a row in a short transaction (SELECT ... FOR UPDATE SKIP *)
(* LOCKED, UPDATE, COMMIT), publishes it outside of any transaction and    *)
(* then marks it published, or schedules a retry.  The lease has a time    *)
(* limit and no owner.  Time is abstracted: a lease may run out and a      *)
(* back-off may elapse at any moment, so attempts, which only lengthens    *)
(* the back-off, is left out.                                              *)
(***************************************************************************)
EXTENDS Integers, FiniteSets

CONSTANTS
  Rows,     \* ids of outbox_events
  Relays    \* one per replica of the ticket service

ASSUME OutboxAssumption == Rows \subseteq Nat

VARIABLES
  rows,       \* committed rows
  leased,     \* rows with locked_until in the future
  waiting,    \* rows with available_at in the future
  published,  \* rows with published_at set
  log,        \* how often each row is in the Kafka topic, up to Many
  at,         \* where each relay stands in publishOne
  row,        \* the row it works on
  troubled    \* history: rows that met a fault which may duplicate them

work == <<at, row>>
table == <<rows, leased, waiting, published>>
vars == <<table, log, work, troubled>>

(* Counting stops at Many: a duplicate is a duplicate. *)
Many == 2

Places == {"poll", "claim", "publish", "mark", "retry"}

TypeOK ==
  /\ rows \subseteq Rows
  /\ leased \subseteq Rows
  /\ waiting \subseteq Rows
  /\ published \subseteq Rows
  /\ log \in [Rows -> 0..Many]
  /\ at \in [Relays -> Places]
  /\ row \in [Relays -> Rows]
  /\ troubled \subseteq Rows

Init ==
  /\ rows = {}
  /\ leased = {}
  /\ waiting = {}
  /\ published = {}
  /\ log = [i \in Rows |-> 0]
  /\ at = [r \in Relays |-> "poll"]
  /\ row \in [Relays -> Rows]
  /\ troubled = {}

Goto(r, from, to) ==
  /\ at[r] = from
  /\ at' = [at EXCEPT ![r] = to]
  /\ UNCHANGED row

Deliver(i) == log' = [log EXCEPT ![i] = IF @ < Many THEN @ + 1 ELSE @]

(* A relay that believes it holds the lease of row i. *)
WorksOn(r, i) == row[r] = i /\ at[r] \in {"publish", "mark", "retry"}

-----------------------------------------------------------------------------

(* A booking transaction commits; ids become visible in any order. *)
Insert(i) ==
  /\ i \notin rows
  /\ rows' = rows \cup {i}
  /\ UNCHANGED <<leased, waiting, published, log, work, troubled>>

(* Mutant: the SELECT takes no row lock. *)
ClaimableUnlocked == rows \ (leased \cup waiting \cup published)

(* Mutant: the SELECT does not look at locked_until. *)
ClaimableLeased ==
  {i \in rows \ (waiting \cup published) :
     ~\E q \in Relays : at[q] = "claim" /\ row[q] = i}

(* Rows the SELECT finds and nobody has locked in an open claim. *)
Claimable ==
  {i \in rows \ (leased \cup waiting \cup published) :
     ~\E q \in Relays : at[q] = "claim" /\ row[q] = i}

Select(r) ==
  /\ at[r] = "poll"
  /\ \E i \in Claimable :
       /\ \A j \in Claimable : i <= j
       /\ row' = [row EXCEPT ![r] = i]
  /\ at' = [at EXCEPT ![r] = "claim"]
  /\ UNCHANGED <<table, log, troubled>>

(* Mutant: the claim marks the row published. *)
LeaseMarksPublished(r) ==
  /\ Goto(r, "claim", "publish")
  /\ leased' = leased \cup {row[r]}
  /\ published' = published \cup {row[r]}
  /\ UNCHANGED <<rows, waiting, log, troubled>>

Lease(r) ==
  /\ Goto(r, "claim", "publish")
  /\ leased' = leased \cup {row[r]}
  /\ UNCHANGED <<rows, waiting, published, log, troubled>>

ClaimFails(r) ==
  /\ Goto(r, "claim", "poll")
  /\ UNCHANGED <<table, log, troubled>>

(* PublishEnvelope waits for the delivery report of all in-sync replicas,  *)
(* which may be of the last of several attempts of the client.             *)
Publish(r) ==
  /\ Goto(r, "publish", "mark")
  /\ Deliver(row[r])
  /\ UNCHANGED <<table, troubled>>

(* The payload does not decode, or the broker refuses or does not answer. *)
PublishFails(r) ==
  /\ Goto(r, "publish", "retry")
  /\ UNCHANGED <<table, log, troubled>>

(* The broker stored the message and its acknowledgement is lost: the      *)
(* client, which retries and is not idempotent, may send it again.         *)
PublishUnacknowledged(r) ==
  /\ at[r] = "publish"
  /\ Deliver(row[r])
  /\ troubled' = troubled \cup {row[r]}
  /\ UNCHANGED <<table, work>>

MarkPublished(r) ==
  /\ Goto(r, "mark", "poll")
  /\ published' = published \cup {row[r]}
  /\ leased' = leased \ {row[r]}
  /\ UNCHANGED <<rows, waiting, log, troubled>>

MarkFails(r) ==
  /\ Goto(r, "mark", "poll")
  /\ troubled' = troubled \cup {row[r]}
  /\ UNCHANGED <<table, log>>

(* Mutant: a row that fails to publish is deleted. *)
DropFailedRow(r) ==
  /\ Goto(r, "retry", "poll")
  /\ leased' = leased \ {row[r]}
  /\ rows' = rows \ {row[r]}
  /\ UNCHANGED <<waiting, published, log, troubled>>

(* retry: by row id only, whoever holds the lease by now. *)
ScheduleRetry(r) ==
  /\ Goto(r, "retry", "poll")
  /\ leased' = leased \ {row[r]}
  /\ waiting' = waiting \cup {row[r]}
  /\ UNCHANGED <<rows, published, log, troubled>>

RetryFails(r) ==
  /\ Goto(r, "retry", "poll")
  /\ UNCHANGED <<table, log, troubled>>

(* The replica crashes or shuts down in the middle of publishOne. *)
Crash(r) ==
  /\ at[r] # "poll"
  /\ at' = [at EXCEPT ![r] = "poll"]
  /\ troubled' = troubled \cup {row[q] : q \in {p \in {r} : at[p] = "mark"}}
  /\ UNCHANGED <<table, log, row>>

(* Two minutes have passed since the claim. *)
LeaseRunsOut(i) ==
  /\ i \in leased
  /\ leased' = leased \ {i}
  /\ troubled' =
       troubled \cup {j \in {i} : \E r \in Relays : WorksOn(r, j)}
  /\ UNCHANGED <<rows, waiting, published, log, work>>

BackOffElapses(i) ==
  /\ i \in waiting
  /\ waiting' = waiting \ {i}
  /\ UNCHANGED <<rows, leased, published, log, work, troubled>>

AllPublished ==
  /\ published = Rows
  /\ \A r \in Relays : at[r] = "poll"
  /\ leased = {} /\ waiting = {}
  /\ UNCHANGED vars

Proceed(r) ==
  \/ Select(r) \/ Lease(r) \/ ClaimFails(r)
  \/ Publish(r) \/ PublishFails(r) \/ PublishUnacknowledged(r)
  \/ MarkPublished(r) \/ MarkFails(r)
  \/ ScheduleRetry(r) \/ RetryFails(r)

Next ==
  \/ \E i \in Rows : Insert(i) \/ LeaseRunsOut(i) \/ BackOffElapses(i)
  \/ \E r \in Relays : Proceed(r) \/ Crash(r)
  \/ AllPublished

Spec == Init /\ [][Next]_vars

(***************************************************************************)
(* Relays keep running and time passes; a statement or a publication tried *)
(* again and again succeeds some time: MySQL and Kafka are not down for    *)
(* good, and replicas do not crash at the same point every time.           *)
(***************************************************************************)
Fairness ==
  /\ \A r \in Relays :
       /\ WF_vars(Proceed(r))
       /\ SF_vars(Lease(r))
       /\ SF_vars(Publish(r))
       /\ SF_vars(MarkPublished(r))
  /\ \A i \in Rows : WF_vars(LeaseRunsOut(i)) /\ WF_vars(BackOffElapses(i))

FairSpec == Spec /\ Fairness

-----------------------------------------------------------------------------
(***************************************************************************)
(* Properties.                                                             *)
(***************************************************************************)

(* Kafka holds an announcement for every row marked published, and none    *)
(* for a booking that did not commit, through crashes, expired leases and  *)
(* concurrent relays (relay.go:50-97).                                     *)
NothingLostOrInvented ==
  /\ \A i \in published : log[i] > 0
  /\ \A i \in Rows : log[i] > 0 => i \in rows

(* Without a fault a row is published exactly once, however many relays    *)
(* poll the table: duplicates come only from a lost acknowledgement, also  *)
(* one that the client hides under a reported success, from a failed or    *)
(* crashed mark, or from a relay that outlived its lease (relay.go:16-17,  *)
(* 61-82, producer.go:26-31).                                              *)
NoDuplicateWithoutFault == \A i \in Rows : i \notin troubled => log[i] <= 1

(* Every committed row reaches Kafka and is marked: no crash, expired      *)
(* lease or stray retry strands a row (relay.go:30-109).                   *)
EveryRowPublished == \A i \in Rows : i \in rows ~> i \in published

(***************************************************************************)
(* The inductive invariant behind NoDuplicateWithoutFault.                 *)
(***************************************************************************)

(* Relays work on committed rows, on the one they found in the table.      *)
WorkIsCommitted ==
  \A r \in Relays : at[r] # "poll" => row[r] \in rows

(* A row that met no fault has at most one relay, which holds its lease    *)
(* and knows whether it has been sent; an open claim excludes any other.   *)
CalmRows ==
  \A i \in Rows \ troubled :
    /\ \A r, q \in Relays :
         /\ row[r] = i /\ at[r] # "poll"
         /\ row[q] = i /\ at[q] # "poll"
         => r = q
    /\ \A r \in Relays : row[r] = i =>
         /\ at[r] \in {"publish", "mark", "retry"} => i \in leased
         /\ at[r] \in {"claim", "publish", "retry"} => log[i] = 0
         /\ at[r] = "mark" => log[i] = 1
    /\ log[i] = 0 \/ log[i] = 1
    /\ log[i] = 1 =>
         i \in published \/ \E r \in Relays : row[r] = i /\ at[r] = "mark"

MarkedIsSent == \A r \in Relays : at[r] = "mark" => log[row[r]] > 0

OutboxInv ==
  /\ TypeOK
  /\ NothingLostOrInvented
  /\ MarkedIsSent
  /\ WorkIsCommitted
  /\ CalmRows

=============================================================================
