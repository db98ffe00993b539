--------------------------- MODULE EmailDelivery ---------------------------
(***************************************************************************)
(* The email service: replicas of one Kafka consumer group read            *)
(* ticket.purchased and send a confirmation per booking, while the         *)
(* background retry of every replica sends again what is still pending or  *)
(* failed (services/email, shared/pkg/kafka/consumer.go).                  *)
(*                                                                         *)
(* The topic has one partition (scripts/kafka/init-topics.sh), which grows *)
(* while it is consumed.  It may get the same booking twice, because the   *)
(* outbox relay redelivers (Outbox.tla).  Kafka and the email provider are *)
(* external.  Time is abstracted: the back-off of a row may elapse at any  *)
(* moment.                                                                 *)
(***************************************************************************)
EXTENDS Integers, FiniteSets, Sequences

CONSTANTS
  Replicas,   \* replicas of the email service
  Loops,      \* those whose retry loop is awake during the run
  Bookings,   \* booking references
  Length,     \* bound on the messages in the partition
  Nobody      \* no replica, no row

Positions == 1..Length

(* A row of email_status, named by who inserted it for which message. *)
Rows == Replicas \X Positions

Statuses == {"pending", "sent", "failed", "dead"}

ASSUME EmailAssumption ==
  /\ Loops \subseteq Replicas
  /\ Length \in Nat
  /\ Nobody \notin Replicas \cup (Rows \X Statuses)

VARIABLES
  topic,      \* the partition: the booking each message announces
  assigned,   \* the replica the partition is assigned to
  position,   \* the last message that replica has read, 0 without one
  committed,  \* the last message whose offset the group has committed
  at,         \* where the handler of each replica stands
  msg,        \* the message it handles
  status,     \* email_status.status of each row, "none" if not inserted
  due,        \* rows whose last attempt is NULL or long enough ago
  retryCount, \* email_status.retry_count of each row
  todo,       \* rows the retry loop of each replica has still to go through
  retrying,   \* the row it has just sent, and the status to write
  mailed,     \* how many emails each booking got, up to Many
  skipped,    \* history: messages whose handler returned an error
  evicted,    \* history: some replica lost the partition while handling
  doubtful    \* history: bookings whose email may have gone out twice

group == <<assigned, position, committed>>
handler == <<at, msg>>
table == <<status, due, retryCount>>
retry == <<todo, retrying>>
history == <<skipped, evicted, doubtful>>
vars == <<topic, group, handler, table, retry, mailed, history>>

(* Counting stops at Many: a duplicate is a duplicate. *)
Many == 2

Stages == {"poll", "check", "create", "send", "sent", "failed", "commit", "stopped"}

MaxRetries == 5

TypeOK ==
  /\ topic \in Seq(Bookings) /\ Len(topic) <= Length
  /\ assigned \in Replicas \cup {Nobody}
  /\ position \in 0..Length
  /\ committed \in 0..Length
  /\ at \in [Replicas -> Stages]
  /\ msg \in [Replicas -> 0..Length]
  /\ status \in [Rows -> Statuses \cup {"none"}]
  /\ due \subseteq Rows
  /\ retryCount \in [Rows -> 0..MaxRetries]
  /\ todo \in [Loops -> SUBSET Rows]
  /\ retrying \in [Loops -> (Rows \X Statuses) \cup {Nobody}]
  /\ mailed \in [Bookings -> 0..Many]
  /\ skipped \subseteq Positions
  /\ evicted \in BOOLEAN
  /\ doubtful \subseteq Bookings

Init ==
  /\ topic = <<>>
  /\ assigned = Nobody
  /\ position = 0
  /\ committed = 0
  /\ at = [c \in Replicas |-> "poll"]
  /\ msg = [c \in Replicas |-> 0]
  /\ status = [i \in Rows |-> "none"]
  /\ due = {}
  /\ retryCount = [i \in Rows |-> 0]
  /\ todo = [c \in Loops |-> {}]
  /\ retrying = [c \in Loops |-> Nobody]
  /\ mailed = [b \in Bookings |-> 0]
  /\ skipped = {}
  /\ evicted = FALSE
  /\ doubtful = {}

-----------------------------------------------------------------------------
(***************************************************************************)
(* Helpers.                                                                *)
(***************************************************************************)

(* The message is forgotten when the handler is done with it. *)
Goto(c, from, to) ==
  /\ at[c] = from
  /\ at' = [at EXCEPT ![c] = to]
  /\ msg' = IF to = "poll" THEN [msg EXCEPT ![c] = 0] ELSE msg

BookingOf(i) == topic[i[2]]

(* Mutant: only a sent row counts as a duplicate. *)
RecordedAsSent(b) == \E i \in Rows : status[i] = "sent" /\ BookingOf(i) = b

(* FindByBookingRef: there is no unique key on email_status.booking_ref. *)
Recorded(b) == \E i \in Rows : status[i] # "none" /\ BookingOf(i) = b

(* Mutant: the UPDATE sets the time of the attempt only. *)
UpdateTimeOnly(i, s) ==
  /\ due' = due \ {i}
  /\ UNCHANGED <<status, retryCount>>

(* UPDATE email_status SET status, last_attempt_at: both updateRetry       *)
(* functions end here, without the retry count they were given.            *)
UpdateStatus(i, s) ==
  /\ status' = [status EXCEPT ![i] = s]
  /\ due' = due \ {i}
  /\ UNCHANGED retryCount

Deliver(b) == mailed' = [mailed EXCEPT ![b] = IF @ < Many THEN @ + 1 ELSE @]

Doubt(bookings) == doubtful' = doubtful \cup bookings

(* The provider takes the email or refuses it; or it takes it and the      *)
(* answer is lost.  s is the status that the caller writes then.           *)
Send(b, s) ==
  \/ s = "sent" /\ Deliver(b) /\ UNCHANGED doubtful
  \/ s # "sent" /\ UNCHANGED <<mailed, doubtful>>
  \/ s # "sent" /\ Deliver(b) /\ Doubt({b})

(* Bookings whose email went out and whose row does not say so yet: what   *)
(* is lost if the statement of c that would say it never takes effect.     *)
UnrecordedByHandler(c) == {b \in Bookings : at[c] = "sent" /\ b = topic[msg[c]]}
UnrecordedByRetry(c) ==
  {b \in Bookings : c \in Loops /\ \E i \in Rows :
                       retrying[c] = <<i, "sent">> /\ b = BookingOf(i)}

(* Rows that a handler, or the retry loop of another replica, works on. *)
InOtherHands(c) ==
  {<<d, msg[d]>> : d \in {d \in Replicas : at[d] \in {"send", "sent", "failed"}}}
  \cup {i \in Rows : \E d \in Loops \ {c} :
          i \in todo[d] \/ \E s \in Statuses : retrying[d] = <<i, s>>}

-----------------------------------------------------------------------------
(***************************************************************************)
(* The consumer group.                                                     *)
(***************************************************************************)

(* The outbox relay of the ticket service publishes a booking. *)
Announce(b) ==
  /\ Len(topic) < Length
  /\ topic' = Append(topic, b)
  /\ UNCHANGED <<group, handler, table, retry, mailed, history>>

(* A rebalance.  The former owner may be in the middle of a handler, with  *)
(* no poll for so long that the group has given it up.                     *)
Assign(c) ==
  /\ assigned # c
  /\ at[c] # "stopped"
  /\ assigned' = c
  /\ position' = committed
  /\ evicted' = (evicted \/ \E d \in Replicas : at[d] \notin {"poll", "stopped"})
  /\ UNCHANGED <<topic, committed, handler, table, retry, mailed, skipped, doubtful>>

(* c leaves the group, if the partition is still its own. *)
Leave(c) ==
  /\ assigned' = IF assigned = c THEN Nobody ELSE assigned
  /\ position' = IF assigned = c THEN 0 ELSE position

(* Mutant: offsets are committed when messages are read. *)
ReadAndCommit(c) ==
  /\ assigned = c
  /\ at[c] = "poll"
  /\ position < Len(topic)
  /\ position' = position + 1
  /\ committed' = position + 1
  /\ at' = [at EXCEPT ![c] = "check"]
  /\ msg' = [msg EXCEPT ![c] = position + 1]
  /\ UNCHANGED <<topic, assigned, table, retry, mailed, history>>

Read(c) ==
  /\ assigned = c
  /\ at[c] = "poll"
  /\ position < Len(topic)
  /\ position' = position + 1
  /\ at' = [at EXCEPT ![c] = "check"]
  /\ msg' = [msg EXCEPT ![c] = position + 1]
  /\ UNCHANGED <<topic, assigned, committed, table, retry, mailed, history>>

(* ReadMessage returns an error, Consume returns, and the process stays.   *)
ReadFails(c) ==
  /\ Goto(c, "poll", "stopped")
  /\ Leave(c)
  /\ UNCHANGED <<topic, committed, table, retry, mailed, history>>

Commit(c) ==
  /\ assigned = c
  /\ Goto(c, "commit", "poll")
  /\ committed' = msg[c]
  /\ UNCHANGED <<topic, assigned, position, table, retry, mailed, history>>

(* The partition is somebody else's by now, or the broker is unavailable. *)
CommitFails(c) ==
  /\ Goto(c, "commit", "poll")
  /\ UNCHANGED <<topic, group, table, retry, mailed, history>>

-----------------------------------------------------------------------------
(***************************************************************************)
(* HandleTicketPurchased.                                                  *)
(***************************************************************************)

SkipDuplicate(c) ==
  /\ Goto(c, "check", "commit")
  /\ Recorded(topic[msg[c]])
  /\ UNCHANGED <<topic, group, table, retry, mailed, history>>

(* Mutant: the email goes out before there is a row. *)
SendFirst(c) ==
  /\ Goto(c, "check", "send")
  /\ ~Recorded(topic[msg[c]])
  /\ UNCHANGED <<topic, group, table, retry, mailed, history>>

FindNothing(c) ==
  /\ Goto(c, "check", "create")
  /\ ~Recorded(topic[msg[c]])
  /\ UNCHANGED <<topic, group, table, retry, mailed, history>>

(* The row becomes visible to the retry loops before the email is sent.    *)
Create(c) ==
  LET i == <<c, msg[c]>> IN
    /\ Goto(c, "create", "send")
    /\ status' = [status EXCEPT ![i] = "pending"]
    /\ due' = due \cup {i}
    /\ retryCount' = [retryCount EXCEPT ![i] = 0]
    /\ UNCHANGED <<topic, group, retry, mailed, history>>

(* Mutant: the error of the provider is not looked at. *)
SendUnchecked(c) ==
  /\ \E s \in {"sent", "failed"} :
       /\ Goto(c, "send", "sent")
       /\ Send(topic[msg[c]], s)
  /\ UNCHANGED <<topic, group, table, retry, skipped, evicted>>

SendConfirmationEmail(c) ==
  /\ \E s \in {"sent", "failed"} :
       /\ Goto(c, "send", s)
       /\ Send(topic[msg[c]], s)
  /\ UNCHANGED <<topic, group, table, retry, skipped, evicted>>

(* Mutant: the branch for a failed send does not return. *)
RecordSent(c) ==
  /\ \E s \in {"sent", "failed"} : Goto(c, s, "commit")
  /\ UpdateStatus(<<c, msg[c]>>, "sent")
  /\ UNCHANGED <<topic, group, retry, mailed, history>>

Record(c) ==
  /\ \E s \in {"sent", "failed"} :
       /\ Goto(c, s, "commit")
       /\ UpdateStatus(<<c, msg[c]>>, s)
  /\ UNCHANGED <<topic, group, retry, mailed, history>>

(* An error is returned: a payload that does not parse, a buyer who is not *)
(* found or not decryptable, a failed statement, an INSERT that took       *)
(* effect and is reported as failed ("send").  Consume goes on to the next *)
(* message.                                                                *)
HandlerFails(c) ==
  /\ \E s \in {"check", "create", "send", "sent", "failed"} : Goto(c, s, "poll")
  /\ skipped' = skipped \cup {msg[c]}
  /\ Doubt(UnrecordedByHandler(c))
  /\ UNCHANGED <<topic, group, table, retry, mailed, evicted>>

-----------------------------------------------------------------------------
(***************************************************************************)
(* The retry loop.                                                         *)
(***************************************************************************)

(* Mutant: the query asks for failed rows only. *)
FindFailed(c) ==
  LET found == {i \in due : status[i] = "failed"} IN
    /\ todo[c] = {} /\ retrying[c] = Nobody
    /\ found # {}
    /\ todo' = [todo EXCEPT ![c] = found]
    /\ Doubt({BookingOf(i) : i \in found \cap InOtherHands(c)})
    /\ UNCHANGED <<topic, group, handler, table, retrying, mailed>>
    /\ UNCHANGED <<skipped, evicted>>

(* FindPendingRetries.  Rows still in their back-off are passed over when  *)
(* their turn comes; here they are left out at once.                       *)
FindPendingRetries(c) ==
  LET found == {i \in due : status[i] \in {"pending", "failed"}} IN
    /\ todo[c] = {} /\ retrying[c] = Nobody
    /\ found # {}
    /\ todo' = [todo EXCEPT ![c] = found]
    /\ Doubt({BookingOf(i) : i \in found \cap InOtherHands(c)})
    /\ UNCHANGED <<topic, group, handler, table, retrying, mailed>>
    /\ UNCHANGED <<skipped, evicted>>

StatusAfterRefusal(i) ==
  IF retryCount[i] + 1 >= MaxRetries THEN "dead" ELSE "failed"

(* processRetry, from the list and not from the table. *)
Retry(c, i, s) ==
  /\ i \in todo[c] /\ retrying[c] = Nobody
  /\ todo' = [todo EXCEPT ![c] = @ \ {i}]
  /\ IF retryCount[i] >= MaxRetries
     THEN s = "dead" /\ UNCHANGED <<mailed, doubtful>>
     ELSE s \in {"sent", StatusAfterRefusal(i)} /\ Send(BookingOf(i), s)
  /\ retrying' = [retrying EXCEPT ![c] = <<i, s>>]
  /\ UNCHANGED <<topic, group, handler, table, skipped, evicted>>

RecordRetry(c) ==
  /\ retrying[c] # Nobody
  /\ UpdateStatus(retrying[c][1], retrying[c][2])
  /\ retrying' = [retrying EXCEPT ![c] = Nobody]
  /\ UNCHANGED <<topic, group, handler, todo, mailed, history>>

(* The UPDATE fails, which is only logged. *)
RecordRetryFails(c) ==
  /\ retrying[c] # Nobody
  /\ retrying' = [retrying EXCEPT ![c] = Nobody]
  /\ Doubt(UnrecordedByRetry(c))
  /\ UNCHANGED <<topic, group, handler, table, todo, mailed, skipped, evicted>>

BackOffElapses(i) ==
  /\ status[i] \in {"pending", "failed"}
  /\ i \notin due
  /\ due' = due \cup {i}
  /\ UNCHANGED <<topic, group, handler, status, retryCount, retry, mailed, history>>

(* The process of c ends and a new one takes its place. *)
Restart(c) ==
  /\ \E s \in Stages : Goto(c, s, "poll")
  /\ todo' = [todo EXCEPT ![c] = {}]
  /\ retrying' = [retrying EXCEPT ![c] = Nobody]
  /\ Leave(c)
  /\ Doubt(UnrecordedByHandler(c) \cup UnrecordedByRetry(c))
  /\ UNCHANGED <<topic, committed, table, mailed, skipped, evicted>>

Handles(c) ==
  \/ Read(c) \/ Commit(c) \/ CommitFails(c)
  \/ SkipDuplicate(c) \/ FindNothing(c) \/ Create(c)
  \/ SendConfirmationEmail(c) \/ Record(c) \/ HandlerFails(c)

Consumes(c) == Assign(c) \/ ReadFails(c) \/ Handles(c)

Retries(c) ==
  \/ FindPendingRetries(c)
  \/ \E i \in Rows, s \in Statuses : Retry(c, i, s)
  \/ RecordRetry(c) \/ RecordRetryFails(c)

Process ==
  \/ \E c \in Replicas : Consumes(c) \/ Restart(c)
  \/ \E c \in Loops : Retries(c)
  \/ \E i \in Rows : BackOffElapses(i)

Next == Process \/ \E b \in Bookings : Announce(b)

Spec == Init /\ [][Next]_vars

-----------------------------------------------------------------------------
(***************************************************************************)
(* Properties.                                                             *)
(***************************************************************************)

(* The committed offset moves past a message only when its booking has a   *)
(* row that the retry loop can work on, or its handler reported an error:  *)
(* no crash, rebalance or late commit loses a message silently             *)
(* (consumer.go:43-72, email consumer.go:45-107).                          *)
CommittedIsRecorded ==
  \A p \in 1..committed : Recorded(topic[p]) \/ p \in skipped

(* One booking has one row, through redelivered messages, duplicates in    *)
(* the topic and restarts, as long as no replica is evicted in the middle  *)
(* of a handler: the check and the insert are two statements and nothing   *)
(* makes booking_ref unique (email consumer.go:56-80).                     *)
OneRowPerBooking ==
  ~evicted =>
    \A i, j \in Rows :
      /\ status[i] # "none" /\ status[j] # "none"
      /\ BookingOf(i) = BookingOf(j)
      => i = j

(* "sent" is never written for an email that the provider has not taken    *)
(* (email consumer.go:82-104, retry.go:72-101).                            *)
SentWasMailed == \A i \in Rows : status[i] = "sent" => mailed[BookingOf(i)] > 0

(* A booking gets one email unless a fault or an overlap explains a second *)
(* one: an answer or a status update that was lost, a crash between the    *)
(* two, a row that the retry loop found while its handler or another loop  *)
(* was busy with it, a handler that was evicted.  In particular messages   *)
(* that are redelivered, or announce the booking again, cause none         *)
(* (email consumer.go:56-104, retry.go:30-102).                            *)
OneEmailWithoutFault ==
  ~evicted => \A b \in Bookings \ doubtful : mailed[b] <= 1

-----------------------------------------------------------------------------
(***************************************************************************)
(* The invariant that the proofs in EmailDeliveryProofs.tla rest on.       *)
(***************************************************************************)

Handling(c) == at[c] \notin {"poll", "stopped"}

Inserted(i) == status[i] # "none"

(* The handler of c owns the row, its retry loop has it on its list, or    *)
(* has just sent it.                                                       *)
Owns(c, i) == at[c] \in {"send", "sent", "failed"} /\ i = <<c, msg[c]>>
Lists(c, i) == c \in Loops /\ i \in todo[c]
Resent(c, i) == c \in Loops /\ \E s \in Statuses : retrying[c] = <<i, s>>

(* Offsets are of messages, messages in hand are in the topic, and rows in *)
(* hand are in the table.                                                  *)
InHandExists ==
  /\ position <= Len(topic) /\ committed <= Len(topic)
  /\ \A c \in Replicas : Handling(c) => msg[c] \in 1..Len(topic)
  /\ \A i \in Rows : Inserted(i) => i[2] <= Len(topic)
  /\ \A c \in Replicas, i \in Rows :
       Owns(c, i) \/ Lists(c, i) \/ Resent(c, i) => Inserted(i)

(* Every message before the one in hand is dealt with; so is the one in    *)
(* hand when its offset is about to be committed.                          *)
Covered(p) == Recorded(topic[p]) \/ p \in skipped

CoveredSoFar ==
  /\ \A p \in 1..committed : Covered(p)
  /\ \A p \in 1..position :
       Covered(p) \/ \E c \in Replicas : c = assigned /\ Handling(c) /\ p = msg[c]
  /\ \A c \in Replicas : Handling(c) => \A p \in 1..msg[c] : p < msg[c] => Covered(p)
  /\ \A c \in Replicas : at[c] = "commit" => Recorded(topic[msg[c]])

(* Who writes "sent" has sent. *)
SentInHand ==
  /\ SentWasMailed
  /\ \A c \in Replicas : at[c] = "sent" => mailed[topic[msg[c]]] > 0
  /\ \A c \in Loops, i \in Rows :
       retrying[c] = <<i, "sent">> => mailed[BookingOf(i)] > 0

(* An email goes to a booking with a row: the row is inserted first.       *)
OnlyRecordedMailed == \A b \in Bookings : ~Recorded(b) => mailed[b] = 0

(* As long as nobody is evicted, one handler runs at a time, so what its   *)
(* check has not found is not there when it inserts.                       *)
OneHandler ==
  ~evicted =>
    \A c \in Replicas :
      /\ Handling(c) => c = assigned
      /\ at[c] = "create" => ~Recorded(topic[msg[c]])

(* The row of an undisturbed booking is in one pair of hands at a time,    *)
(* and if its email went out the row says so or is about to.               *)
UndisturbedRow(i) ==
  /\ mailed[BookingOf(i)] > 0 =>
       \/ status[i] = "sent"
       \/ \E c \in Replicas : at[c] = "sent" /\ Owns(c, i)
       \/ \E c \in Loops : retrying[c] = <<i, "sent">>
  /\ \A c \in Replicas :
       /\ Owns(c, i) \/ Lists(c, i) \/ Resent(c, i) => status[i] # "sent"
       /\ ~(Lists(c, i) /\ Resent(c, i))
  /\ \A c, d \in Replicas :
       /\ ~(Owns(c, i) /\ (Lists(d, i) \/ Resent(d, i)))
       /\ (Lists(c, i) \/ Resent(c, i)) /\ (Lists(d, i) \/ Resent(d, i)) => c = d

OneEmail ==
  ~evicted =>
    /\ \A b \in Bookings \ doubtful : mailed[b] <= 1
    /\ \A i \in Rows :
         Inserted(i) /\ BookingOf(i) \notin doubtful => UndisturbedRow(i)

(* Offsets, handlers, rows and emails agree (email consumer.go:45-107,     *)
(* retry.go:30-106, kafka consumer.go:43-72).                              *)
EmailInv ==
  /\ TypeOK
  /\ InHandExists
  /\ CoveredSoFar
  /\ SentInHand
  /\ OnlyRecordedMailed
  /\ OneHandler
  /\ OneRowPerBooking
  /\ OneEmail

-----------------------------------------------------------------------------
(***************************************************************************)
(* What the documents say and the code does not do.                        *)
(***************************************************************************)

(* "Failed messages are NOT committed; consumer pauses and retries on next *)
(* poll", contracts/kafka-topics.md:78.                                    *)
FailedNotCommitted == \A p \in 1..committed : Recorded(topic[p])

=============================================================================
