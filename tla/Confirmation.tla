---------------------------- MODULE Confirmation ----------------------------
(***************************************************************************)
(* From the committed booking to the email: the outbox relays of the       *)
(* ticket service (Outbox.tla) and the email service (EmailDelivery.tla)   *)
(* joined by the topic ticket.purchased.  A step is a step of one of the   *)
(* two, except that a publication is a step of both: the relay's copy of   *)
(* the row is the message the consumers read.                              *)
(*                                                                         *)
(* A booking is the id of its outbox row, which carries the booking        *)
(* reference.                                                              *)
(***************************************************************************)
EXTENDS Integers, FiniteSets, Sequences

CONSTANTS
  Bookings,   \* ids of outbox_events, one per booking
  Relays,     \* replicas of the ticket service
  Replicas,   \* replicas of the email service
  Loops,      \* those whose retry loop is awake during the run
  Nobody      \* no replica, no row

VARIABLES
  (* ticket_db.outbox_events and its relays: see Outbox.tla *)
  rows, leased, waiting, published, log, relayAt, relayRow, troubled,
  (* the topic *)
  topic,
  (* the consumer group, email_status and its retry loops: see EmailDelivery *)
  assigned, position, committed, at, msg, status, due, retryCount,
  todo, retrying, mailed, skipped, evicted, doubtful

O == INSTANCE Outbox
       WITH Rows <- Bookings, at <- relayAt, row <- relayRow

(* Copies of a row are counted up to O!Many. *)
E == INSTANCE EmailDelivery
       WITH Length <- O!Many * Cardinality(Bookings)

ASSUME ConfirmationAssumption ==
  O!OutboxAssumption /\ E!EmailAssumption

outboxVars ==
  <<rows, leased, waiting, published, log, relayAt, relayRow, troubled>>
emailVars ==
  <<topic, assigned, position, committed, at, msg, status, due, retryCount,
    todo, retrying, mailed, skipped, evicted, doubtful>>
vars == <<outboxVars, emailVars>>

Init == O!Init /\ E!Init

-----------------------------------------------------------------------------
(* The outbox moves: a copy of a row that is published becomes the next    *)
(* message of the partition.                                               *)
TicketService ==
  /\ O!Next
  /\ \/ log' = log /\ UNCHANGED emailVars
     \/ \E b \in Bookings : log'[b] # log[b] /\ E!Announce(b)

EmailService == E!Process /\ UNCHANGED outboxVars

Next == TicketService \/ EmailService

Spec == Init /\ [][Next]_vars

(***************************************************************************)
(* A step in which nothing fails: no crash, no error of a statement, of    *)
(* the broker or of the provider, no rebalance of an assigned partition.   *)
(***************************************************************************)
Undisturbed ==
  \/ \E i \in Bookings :
       O!Insert(i) \/ O!LeaseRunsOut(i) \/ O!BackOffElapses(i)
  \/ \E r \in Relays :
       \/ O!Select(r) \/ O!Lease(r) \/ O!Publish(r)
       \/ O!MarkPublished(r) \/ O!ScheduleRetry(r)
  \/ \E c \in Replicas :
       \/ assigned = Nobody /\ E!Assign(c)
       \/ E!Read(c) \/ E!SkipDuplicate(c) \/ E!FindNothing(c) \/ E!Create(c)
       \/ E!SendConfirmationEmail(c) \/ E!Record(c) \/ E!Commit(c)
       \/ assigned # c /\ E!CommitFails(c)
  \/ \E c \in Loops :
       \/ E!FindPendingRetries(c) \/ E!RecordRetry(c)
       \/ \E i \in E!Rows : E!Retry(c, i, "sent")
  \/ \E i \in E!Rows : E!BackOffElapses(i)

(* Processes keep running, time passes, and failures, however many, are    *)
(* followed by a time without any.                                         *)
FairSpec ==
  /\ Spec
  /\ <>[][Undisturbed]_vars
  /\ \A r \in Relays : WF_outboxVars(O!Proceed(r))
  /\ \A i \in Bookings :
       WF_outboxVars(O!LeaseRunsOut(i)) /\ WF_outboxVars(O!BackOffElapses(i))
  /\ \A c \in Replicas :
       WF_emailVars(assigned = Nobody /\ E!Assign(c)) /\ WF_emailVars(E!Handles(c))
  /\ \A c \in Loops : WF_emailVars(E!Retries(c))
  /\ \A i \in E!Rows : WF_emailVars(E!BackOffElapses(i))

-----------------------------------------------------------------------------
(***************************************************************************)
(* Properties.                                                             *)
(***************************************************************************)

N == INSTANCE Notification
       WITH booked <- rows,
            announced <- {b \in Bookings : log[b] > 0},
            recorded <- {b \in Bookings : E!Recorded(b)},
            confirmed <- {b \in Bookings : mailed[b] > 0}

(* The two services together implement the abstract notification: no       *)
(* email without a record, no record without an announcement, no           *)
(* announcement without a booking, and nothing is undone, whatever crashes *)
(* or is repeated (relay.go:50-109, consumer.go:43-72, email               *)
(* consumer.go:45-107, retry.go:30-106).                                   *)
ImplementsNotification == N!Spec

(* What is booked is announced, and what is recorded is confirmed          *)
(* (relay.go:30-109, retry.go:30-106).                                     *)
NotificationGoesOn == N!Fairness

(* A committed booking gets its email, unless the handler of one of its    *)
(* messages reported an error or every consumer has stopped at a read      *)
(* error: these are the only two ways a confirmation gets lost             *)
(* (consumer.go:45-66).                                                    *)
PassedOver(b) == \E p \in skipped : topic[p] = b

NobodyReads == \A c \in Replicas : at[c] = "stopped"

BookingConfirmed ==
  \A b \in Bookings :
    b \in rows ~> mailed[b] > 0 \/ PassedOver(b) \/ NobodyReads

(* The properties of the email service when a relay feeds it. *)
CommittedIsRecorded == E!CommittedIsRecorded
OneEmailWithoutFault == E!OneEmailWithoutFault

(* The consumers read what a relay has published.                          *)
TopicIsPublished == \A p \in 1..Len(topic) : log[topic[p]] > 0

=============================================================================
