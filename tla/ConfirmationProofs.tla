------------------------ MODULE ConfirmationProofs -------------------------
(***************************************************************************)
(* Proofs about the two services joined by the topic, for any number of    *)
(* bookings, relays, replicas and retry loops: together they implement the *)
(* abstract notification of Notification.tla, its fairness aside, and the  *)
(* email service keeps its promises when a relay feeds it.                 *)
(*                                                                         *)
(* The invariants of the parts are taken from OutboxProofs.tla and         *)
(* EmailDeliveryProofs.tla; what joins them is TopicIsPublished.           *)
(***************************************************************************)
EXTENDS Confirmation, TLAPS

OP == INSTANCE OutboxProofs
        WITH Rows <- Bookings, at <- relayAt, row <- relayRow

EP == INSTANCE EmailDeliveryProofs
        WITH Length <- O!Many * Cardinality(Bookings)

ConfirmationInv == OP!OutboxInv /\ EP!EmailInv /\ TopicIsPublished

-----------------------------------------------------------------------------
(***************************************************************************)
(* The parts, as Confirmation.tla and as the proofs about them name them.  *)
(***************************************************************************)

(* The assumptions under which the parts have been proved correct hold. *)
LEMMA PartsAssumed == OP!OutboxAssumption /\ EP!EmailAssumption
  BY ConfirmationAssumption
  DEF ConfirmationAssumption, OP!OutboxAssumption, O!OutboxAssumption,
      EP!EmailAssumption, E!EmailAssumption, EP!Rows, E!Rows, EP!Positions,
      E!Positions, EP!Statuses, E!Statuses, OP!Many, O!Many

(* Both start as they do alone. *)
LEMMA PartsInit == Init => OP!Init /\ EP!Init
  BY DEF Init, O!Init, OP!Init, E!Init, EP!Init, EP!Rows, E!Rows, EP!Positions,
         E!Positions

(* A step of the relays is a step of the outbox that was proved correct. *)
LEMMA OutboxStep == O!Next => OP!Next
  BY DEF O!Next, OP!Next, O!Proceed, OP!Proceed, O!Insert, OP!Insert,
         O!LeaseRunsOut, OP!LeaseRunsOut, O!BackOffElapses, OP!BackOffElapses,
         O!Crash, OP!Crash, O!AllPublished, OP!AllPublished, O!Select, OP!Select,
         O!Claimable, OP!Claimable, O!Lease, OP!Lease, O!ClaimFails, OP!ClaimFails,
         O!Publish, OP!Publish, O!PublishFails, OP!PublishFails,
         O!PublishUnacknowledged, OP!PublishUnacknowledged, O!MarkPublished,
         OP!MarkPublished, O!MarkFails, OP!MarkFails, O!ScheduleRetry,
         OP!ScheduleRetry, O!RetryFails, OP!RetryFails, O!Goto, OP!Goto, O!Deliver,
         OP!Deliver, O!WorksOn, OP!WorksOn, O!Many, OP!Many, O!work, OP!work,
         O!table, OP!table, O!vars, OP!vars

(* A step of the email service, or a message it gets, is a step of the     *)
(* email service that was proved correct.                                  *)
LEMMA EmailStep ==
  /\ E!Process => EP!Process
  /\ \A b \in Bookings : E!Announce(b) => EP!Announce(b)
  BY DEF E!Announce, EP!Announce, E!Assign, EP!Assign, E!Leave, EP!Leave,
         E!Read, EP!Read, E!ReadFails, EP!ReadFails, E!Commit, EP!Commit,
         E!CommitFails, EP!CommitFails, E!SkipDuplicate, EP!SkipDuplicate,
         E!FindNothing, EP!FindNothing, E!Create, EP!Create,
         E!SendConfirmationEmail, EP!SendConfirmationEmail, E!Record,
         EP!Record, E!HandlerFails, EP!HandlerFails, E!FindPendingRetries,
         EP!FindPendingRetries, E!StatusAfterRefusal, EP!StatusAfterRefusal,
         E!Retry, EP!Retry, E!RecordRetry, EP!RecordRetry, E!RecordRetryFails,
         EP!RecordRetryFails, E!BackOffElapses, EP!BackOffElapses, E!Restart,
         EP!Restart, E!Handles, EP!Handles, E!Consumes, EP!Consumes,
         E!Retries, EP!Retries, E!Process, EP!Process, E!Goto, EP!Goto,
         E!BookingOf, EP!BookingOf, E!Recorded, EP!Recorded, E!UpdateStatus,
         EP!UpdateStatus, E!Deliver, EP!Deliver, E!Doubt, EP!Doubt, E!Send,
         EP!Send, E!UnrecordedByHandler, EP!UnrecordedByHandler,
         E!UnrecordedByRetry, EP!UnrecordedByRetry, E!InOtherHands,
         EP!InOtherHands, E!Rows, EP!Rows, E!Positions, EP!Positions,
         E!Statuses, EP!Statuses, E!Stages, EP!Stages, E!Many, EP!Many,
         E!MaxRetries, EP!MaxRetries, E!group, EP!group, E!handler,
         EP!handler, E!table, EP!table, E!retry, EP!retry, E!history,
         EP!history

(* What the abstract notification is told of the email service. *)
LEMMA SameRecords == \A b \in Bookings : E!Recorded(b) <=> EP!Recorded(b)
  BY DEF E!Recorded, EP!Recorded, E!Rows, EP!Rows, E!Positions, EP!Positions,
         E!BookingOf, EP!BookingOf

-----------------------------------------------------------------------------
(***************************************************************************)
(* A step of the whole, as a step of the parts.                            *)
(***************************************************************************)

(* Every step is one of the outbox alone, one of the email service alone,  *)
(* or a publication.                                                       *)
LEMMA StepOfParts ==
  ASSUME [Next]_vars
  PROVE  \/ OP!Next /\ log' = log /\ UNCHANGED emailVars
         \/ OP!Next /\ \E b \in Bookings : log'[b] # log[b] /\ EP!Announce(b)
         \/ EP!Process /\ UNCHANGED outboxVars
         \/ UNCHANGED <<outboxVars, emailVars>>
  BY OutboxStep, EmailStep DEF Next, TicketService, EmailService, vars

(* Each part takes a step of its own or stutters. *)
LEMMA PartsMove ==
  ASSUME [Next]_vars
  PROVE  [OP!Next]_(OP!vars) /\ [EP!Next]_(EP!vars)
  <1>1. UNCHANGED outboxVars => UNCHANGED OP!vars
    BY DEF outboxVars, OP!vars, OP!table, OP!work
  <1>2. UNCHANGED emailVars => UNCHANGED EP!vars
    BY DEF emailVars, EP!vars, EP!group, EP!handler, EP!table, EP!retry, EP!history
  <1> QED
    BY <1>1, <1>2, StepOfParts DEF EP!Next

(* The log of the topic only grows, and only by what a relay publishes. *)
LEMMA LogEffect ==
  ASSUME OP!TypeOK, OP!WorkIsCommitted, OP!Next
  PROVE  /\ \A b \in Bookings : log[b] \in Nat /\ log'[b] \in Nat /\ log'[b] >= log[b]
         /\ \/ /\ log' = log
               /\ \/ rows' = rows
                  \/ \E b \in Bookings : b \notin rows /\ rows' = rows \cup {b}
            \/ /\ rows' = rows
               /\ \E b \in rows : \A x \in Bookings : x # b => log'[x] = log[x]
  <1>0. log \in [Bookings -> 0..2] /\ relayRow \in [Relays -> Bookings]
    BY DEF OP!TypeOK, OP!Many
  <1>1. ASSUME NEW b \in Bookings, OP!Deliver(b)
        PROVE  /\ \A x \in Bookings : log[x] \in Nat /\ log'[x] \in Nat /\ log'[x] >= log[x]
               /\ \A x \in Bookings : x # b => log'[x] = log[x]
    BY <1>0, <1>1 DEF OP!Deliver, OP!Many
  <1>2. ASSUME NEW r \in Relays, OP!Publish(r) \/ OP!PublishUnacknowledged(r)
        PROVE  /\ rows' = rows /\ OP!Deliver(relayRow[r])
               /\ relayRow[r] \in rows /\ relayRow[r] \in Bookings
    BY <1>0, <1>2
    DEF OP!Publish, OP!PublishUnacknowledged, OP!Goto, OP!WorkIsCommitted, OP!table
  <1>3. \/ \E r \in Relays : OP!Publish(r) \/ OP!PublishUnacknowledged(r)
        \/ log' = log /\ rows' = rows
        \/ log' = log /\ \E b \in Bookings : b \notin rows /\ rows' = rows \cup {b}
    BY DEF OP!Next, OP!Proceed, OP!Insert, OP!LeaseRunsOut, OP!BackOffElapses,
           OP!Crash, OP!AllPublished, OP!Select, OP!Lease, OP!ClaimFails,
           OP!PublishFails, OP!MarkPublished, OP!MarkFails, OP!ScheduleRetry,
           OP!RetryFails, OP!table, OP!work, OP!vars
  <1> QED
    BY <1>0, <1>1, <1>2, <1>3

(* What is announced leaves the rows of the email service as they are.     *)
LEMMA AnnounceKeepsRecords ==
  ASSUME EP!EmailInv, NEW a \in Bookings, EP!Announce(a)
  PROVE  \A b \in Bookings : EP!Recorded(b)' <=> EP!Recorded(b)
  <1>1. EP!TypeOK /\ EP!InHandExists /\ [EP!Next]_(EP!vars)
    BY DEF EP!EmailInv, EP!Next
  <1>2. \A c \in Replicas : ~EP!Create(c)
    <2>1. topic' # topic
      BY <1>1, PartsAssumed, EP!AnnounceEffect
    <2> QED
      BY <2>1 DEF EP!Create
  <1> QED
    BY <1>1, <1>2, PartsAssumed, EP!NewRows, EP!RecordsKept

(* What a step of the email service does to the records: one more booking, *)
(* of a message in the topic, or none.                                     *)
LEMMA RecordEffect ==
  ASSUME EP!EmailInv, EP!Process
  PROVE  \/ /\ \A b \in Bookings : EP!Recorded(b)' <=> EP!Recorded(b)
         \/ /\ mailed' = mailed
            /\ \E p \in 1..Len(topic) :
                 \A b \in Bookings : EP!Recorded(b)' <=> EP!Recorded(b) \/ b = topic[p]
  <1>1. EP!TypeOK /\ EP!InHandExists /\ [EP!Next]_(EP!vars)
    BY DEF EP!EmailInv, EP!Next
  <1>2. CASE \A c \in Replicas : ~EP!Create(c)
    BY <1>1, <1>2, PartsAssumed, EP!NewRows, EP!RecordsKept
  <1>3. ASSUME NEW c \in Replicas, EP!Create(c)
        PROVE  /\ mailed' = mailed
               /\ \E p \in 1..Len(topic) :
                    \A b \in Bookings : EP!Recorded(b)' <=> EP!Recorded(b) \/ b = topic[p]
    <2> DEFINE i == <<c, msg[c]>>
    <2>1. /\ at[c] = "create" /\ UNCHANGED <<topic, mailed>>
          /\ i \in EP!Rows /\ msg[c] \in 1..Len(topic)
      <3>1. at[c] = "create" /\ UNCHANGED <<topic, mailed>>
        BY <1>3 DEF EP!Create, EP!Goto
      <3>2. EP!Handling(c)
        BY <3>1 DEF EP!Handling
      <3> QED
        BY <1>1, <3>1, <3>2, PartsAssumed, EP!HandledBooking DEF EP!InHandExists
    <2>2. /\ status'[i] = "pending"
          /\ \A j \in EP!Rows : j # i => status'[j] = status[j]
      BY <1>1, <1>3, <2>1, PartsAssumed, EP!CreateEffect
    <2>3. /\ \A j \in EP!Rows : EP!BookingOf(j)' = EP!BookingOf(j)
          /\ EP!BookingOf(i) = topic[msg[c]]
      BY <2>1 DEF EP!BookingOf
    <2> HIDE DEF i
    <2>4. \A b \in Bookings : EP!Recorded(b)' <=> EP!Recorded(b) \/ b = topic[msg[c]]
      <3> SUFFICES ASSUME NEW b \in Bookings
                   PROVE  EP!Recorded(b)' <=> EP!Recorded(b) \/ b = topic[msg[c]]
        OBVIOUS
      <3>1. EP!Recorded(b) => EP!Recorded(b)'
        BY <1>1, PartsAssumed, EP!RecordsKept
      <3>2. b = topic[msg[c]] => EP!Recorded(b)'
        BY <2>1, <2>2, <2>3 DEF EP!Recorded
      <3>3. EP!Recorded(b)' => EP!Recorded(b) \/ b = topic[msg[c]]
        BY <2>2, <2>3 DEF EP!Recorded
      <3> QED
        BY <3>1, <3>2, <3>3
    <2> QED
      BY <2>1, <2>4
  <1> QED
    BY <1>2, <1>3

(* What it does to the emails: one recorded booking may get one.           *)
LEMMA MailEffect ==
  ASSUME EP!EmailInv, [EP!Next]_(EP!vars)
  PROVE  /\ \A b \in Bookings :
              mailed[b] \in Nat /\ mailed'[b] \in Nat /\ mailed'[b] >= mailed[b]
         /\ \/ mailed' = mailed
            \/ \E b \in Bookings :
                 /\ EP!Recorded(b)
                 /\ \A x \in Bookings : x # b => mailed'[x] = mailed[x]
  <1>1. EP!TypeOK /\ EP!InHandExists
    BY DEF EP!EmailInv
  <1>2. EP!TypeOK'
    BY <1>1, PartsAssumed, EP!EmailTypeNext
  <1>3. \A b \in Bookings : mailed[b] \in Nat /\ mailed'[b] \in Nat
    <2>1. mailed \in [Bookings -> 0..2] /\ mailed' \in [Bookings -> 0..2]
      BY <1>1, <1>2 DEF EP!TypeOK, EP!Many
    <2> QED
      BY <2>1
  <1>4. \/ mailed' = mailed
        \/ \E c \in Replicas : EP!SendConfirmationEmail(c)
        \/ \E c \in Loops, i \in EP!Rows, s \in EP!Statuses : EP!Retry(c, i, s)
    BY DEF EP!Next, EP!Process, EP!Consumes, EP!Handles, EP!Retries, EP!Announce,
           EP!Assign, EP!ReadFails, EP!Read, EP!Commit, EP!CommitFails,
           EP!SkipDuplicate, EP!FindNothing, EP!Create, EP!Record, EP!HandlerFails,
           EP!FindPendingRetries, EP!RecordRetry, EP!RecordRetryFails,
           EP!BackOffElapses, EP!Restart, EP!vars
  <1>5. ASSUME NEW i \in EP!Rows, EP!Inserted(i)
        PROVE  EP!BookingOf(i) \in Bookings /\ EP!Recorded(EP!BookingOf(i))
    BY <1>1, <1>5, PartsAssumed
    DEF EP!InHandExists, EP!TypeOK, EP!Inserted, EP!BookingOf, EP!Recorded, EP!Rows,
        EP!Positions
  <1>6. ASSUME NEW c \in Replicas, EP!SendConfirmationEmail(c)
        PROVE  \E b \in Bookings :
                 /\ EP!Recorded(b)
                 /\ \A x \in Bookings : x # b => mailed'[x] = mailed[x]
    <2>1. at[c] = "send" /\ \E s \in {"sent", "failed"} : EP!Send(topic[msg[c]], s)
      BY <1>6 DEF EP!SendConfirmationEmail, EP!Goto
    <2>2. <<c, msg[c]>> \in EP!Rows /\ topic[msg[c]] \in Bookings
      BY <1>1, <2>1, PartsAssumed, EP!HandledBooking DEF EP!Handling
    <2>3. EP!Recorded(topic[msg[c]])
      BY <1>1, <1>5, <2>1, <2>2 DEF EP!InHandExists, EP!Owns, EP!BookingOf
    <2> QED
      BY <1>1, <2>1, <2>2, <2>3, PartsAssumed, EP!SendEffect
  <1>7. ASSUME NEW c \in Loops, NEW i \in EP!Rows, NEW s, EP!Retry(c, i, s)
        PROVE  \/ mailed' = mailed
               \/ \E b \in Bookings :
                    /\ EP!Recorded(b)
                    /\ \A x \in Bookings : x # b => mailed'[x] = mailed[x]
    <2>1. EP!Inserted(i)
      BY <1>1, <1>7, PartsAssumed
      DEF EP!Retry, EP!InHandExists, EP!Lists, EP!EmailAssumption
    <2> QED
      BY <1>1, <1>5, <1>7, <2>1, PartsAssumed, EP!SendEffect DEF EP!Retry
  <1>8. \A b \in Bookings : mailed'[b] >= mailed[b]
    BY <1>1, PartsAssumed, EP!MailedKept
  <1> QED
    BY <1>3, <1>4, <1>6, <1>7, <1>8

-----------------------------------------------------------------------------
(***************************************************************************)
(* The invariant of the whole.                                             *)
(***************************************************************************)

(* The consumers read only what a relay has published. *)
LEMMA TopicIsPublishedNext ==
  ConfirmationInv /\ [Next]_vars => TopicIsPublished'
  <1> SUFFICES ASSUME ConfirmationInv, [Next]_vars PROVE TopicIsPublished'
    OBVIOUS
  <1>1. /\ OP!TypeOK /\ OP!WorkIsCommitted /\ EP!TypeOK
        /\ \A p \in 1..Len(topic) : log[topic[p]] > 0
    BY DEF ConfirmationInv, OP!OutboxInv, EP!EmailInv, TopicIsPublished
  <1>2. Len(topic) \in Nat /\ \A p \in 1..Len(topic) : topic[p] \in Bookings
    BY <1>1 DEF EP!TypeOK
  <1>3. CASE OP!Next /\ log' = log /\ UNCHANGED emailVars
    BY <1>1, <1>3 DEF emailVars, TopicIsPublished
  <1>4. ASSUME OP!Next, NEW b \in Bookings, log'[b] # log[b], EP!Announce(b)
        PROVE  TopicIsPublished'
    <2>1. \A x \in Bookings : log[x] \in Nat /\ log'[x] \in Nat /\ log'[x] >= log[x]
      BY <1>1, <1>4, LogEffect
    <2>2. /\ Len(topic') = Len(topic) + 1 /\ topic'[Len(topic) + 1] = b
          /\ \A p \in 1..Len(topic) : topic'[p] = topic[p]
      BY <1>1, <1>4 DEF EP!Announce, EP!TypeOK
    <2> QED
      BY <1>1, <1>2, <1>4, <2>1, <2>2 DEF TopicIsPublished
  <1>5. CASE EP!Process /\ UNCHANGED outboxVars
    <2>1. UNCHANGED <<topic, log>>
      BY <1>5
      DEF EP!Process, EP!Consumes, EP!Handles, EP!Retries, EP!Assign, EP!ReadFails,
          EP!Read, EP!Commit, EP!CommitFails, EP!SkipDuplicate, EP!FindNothing,
          EP!Create, EP!SendConfirmationEmail, EP!Record, EP!HandlerFails,
          EP!FindPendingRetries, EP!Retry, EP!RecordRetry, EP!RecordRetryFails,
          EP!BackOffElapses, EP!Restart, outboxVars
    <2> QED
      BY <1>1, <2>1 DEF TopicIsPublished
  <1>6. CASE UNCHANGED <<outboxVars, emailVars>>
    BY <1>1, <1>6 DEF outboxVars, emailVars, TopicIsPublished
  <1> QED
    BY <1>3, <1>4, <1>5, <1>6, StepOfParts

(* The parts keep their invariants side by side, and what joins them holds. *)
LEMMA ConfirmationInvNext == ConfirmationInv /\ [Next]_vars => ConfirmationInv'
  <1> SUFFICES ASSUME ConfirmationInv, [Next]_vars PROVE ConfirmationInv'
    OBVIOUS
  <1>1. OP!OutboxInv'
    BY PartsMove, PartsAssumed, OP!OutboxTypeNext, OP!DeliveredNext, OP!CalmRowsNext
    DEF ConfirmationInv, OP!OutboxInv, OP!Delivered
  <1>2. EP!EmailInv'
    BY PartsMove, PartsAssumed, EP!EmailInvNext DEF ConfirmationInv
  <1> QED
    BY <1>1, <1>2, TopicIsPublishedNext DEF ConfirmationInv

(* Nothing is booked and nothing in the topic at the start. *)
LEMMA ConfirmationInvInit == Init => ConfirmationInv
  <1> SUFFICES ASSUME Init PROVE ConfirmationInv
    OBVIOUS
  <1>1. OP!Init /\ EP!Init
    BY PartsInit
  <1>2. OP!OutboxInv
    BY <1>1
    DEF OP!Init, OP!OutboxInv, OP!TypeOK, OP!NothingLostOrInvented, OP!MarkedIsSent,
        OP!WorkIsCommitted, OP!CalmRows, OP!Places, OP!Many
  <1>3. EP!EmailInv
    BY <1>1, PartsAssumed, EP!EmailInvInit
  <1>4. TopicIsPublished
    BY <1>1 DEF EP!Init, TopicIsPublished
  <1> QED
    BY <1>2, <1>3, <1>4 DEF ConfirmationInv

(* Outbox, topic and email service agree, for any number of bookings,      *)
(* relays and replicas.                                                    *)
THEOREM ConfirmationInvariant == Spec => []ConfirmationInv
  BY ConfirmationInvInit, ConfirmationInvNext, PTL DEF Spec

(* A message is committed only if its booking is recorded or its handler   *)
(* reported an error, also when relays crash and publish twice.            *)
THEOREM FedMessagesNotForgotten == Spec => []CommittedIsRecorded
  <1>1. ConfirmationInv => EP!CommittedIsRecorded
    BY PartsAssumed, EP!EmailInvImplies DEF ConfirmationInv
  <1>2. EP!CommittedIsRecorded <=> CommittedIsRecorded
    BY DEF EP!CommittedIsRecorded, CommittedIsRecorded, E!CommittedIsRecorded,
           E!Recorded, EP!Recorded, E!Rows, EP!Rows, E!Positions, EP!Positions,
           E!BookingOf, EP!BookingOf
  <1> QED
    BY <1>1, <1>2, ConfirmationInvariant, PTL

(* A booking that a relay publishes twice gets one email all the same,     *)
(* unless a fault or an overlap in the email service explains a second.    *)
THEOREM FedSecondEmailExplained == Spec => []OneEmailWithoutFault
  <1>1. ConfirmationInv => EP!OneEmailWithoutFault
    BY PartsAssumed, EP!EmailInvImplies DEF ConfirmationInv
  <1>2. EP!OneEmailWithoutFault <=> OneEmailWithoutFault
    BY DEF EP!OneEmailWithoutFault, OneEmailWithoutFault, E!OneEmailWithoutFault
  <1> QED
    BY <1>1, <1>2, ConfirmationInvariant, PTL

-----------------------------------------------------------------------------
(***************************************************************************)
(* The refinement of the abstract notification.                            *)
(***************************************************************************)

(* Nothing is booked, announced, recorded or confirmed at the start. *)
LEMMA NotificationInit == Init => N!Init
  <1> SUFFICES ASSUME Init PROVE N!Init
    OBVIOUS
  <1>1. OP!Init /\ EP!Init
    BY PartsInit
  <1>2. rows = {} /\ \A b \in Bookings : ~(log[b] > 0)
    BY <1>1 DEF OP!Init
  <1>3. \A b \in Bookings : ~E!Recorded(b)
    BY <1>1, SameRecords DEF EP!Init, EP!Recorded
  <1>4. \A b \in Bookings : ~(mailed[b] > 0)
    BY <1>1 DEF EP!Init
  <1> QED
    BY <1>2, <1>3, <1>4 DEF N!Init

(* A step of the services is a step of the abstract notification or leaves *)
(* it as it is: an insert books, the first publication announces, the      *)
(* first row records and the first email confirms.                         *)
LEMMA NotificationNext == ConfirmationInv /\ [Next]_vars => [N!Next]_(N!vars)
  <1> SUFFICES ASSUME ConfirmationInv, [Next]_vars
               PROVE  N!Next \/ UNCHANGED N!vars
    OBVIOUS
  <1> DEFINE announced == {b \in Bookings : log[b] > 0}
             recorded == {b \in Bookings : E!Recorded(b)}
             confirmed == {b \in Bookings : mailed[b] > 0}
  <1>1. /\ OP!TypeOK /\ OP!WorkIsCommitted /\ EP!TypeOK /\ EP!EmailInv
        /\ \A p \in 1..Len(topic) : log[topic[p]] > 0
    BY DEF ConfirmationInv, OP!OutboxInv, EP!EmailInv, TopicIsPublished
  <1>2. \A b \in Bookings : /\ E!Recorded(b) <=> EP!Recorded(b)
                            /\ E!Recorded(b)' <=> EP!Recorded(b)'
    BY SameRecords
    DEF E!Recorded, EP!Recorded, E!Rows, EP!Rows, E!Positions, EP!Positions,
        E!BookingOf, EP!BookingOf
  <1>3. UNCHANGED emailVars => recorded' = recorded /\ confirmed' = confirmed
    BY DEF emailVars, E!Recorded, E!BookingOf
  <1>4. rows \subseteq Bookings
    BY <1>1 DEF OP!TypeOK
  <1>5. CASE OP!Next /\ log' = log /\ UNCHANGED emailVars
    <2>1. \/ rows' = rows
          \/ \E b \in Bookings : b \notin rows /\ rows' = rows \cup {b}
      BY <1>1, <1>5, LogEffect
    <2>2. announced' = announced
      BY <1>5
    <2> QED
      BY <1>3, <1>5, <2>1, <2>2 DEF N!Next, N!Book, N!vars
  <1>6. ASSUME OP!Next, NEW a \in Bookings, log'[a] # log[a], EP!Announce(a)
        PROVE  N!Next \/ UNCHANGED N!vars
    <2>1. /\ \A b \in Bookings :
               log[b] \in Nat /\ log'[b] \in Nat /\ log'[b] >= log[b]
          /\ rows' = rows /\ a \in rows
          /\ \A x \in Bookings : x # a => log'[x] = log[x]
      BY <1>1, <1>6, LogEffect
    <2>2. recorded' = recorded
      BY <1>1, <1>2, <1>6, AnnounceKeepsRecords
    <2>3. confirmed' = confirmed
      BY <1>6 DEF EP!Announce
    <2>4. CASE log[a] = 0
      <3>1. a \notin announced /\ announced' = announced \cup {a}
        BY <1>6, <2>1, <2>4
      <3> QED
        BY <2>1, <2>2, <2>3, <3>1 DEF N!Next, N!Announce
    <2>5. CASE log[a] # 0
      <3>1. announced' = announced
        BY <2>1, <2>5
      <3> QED
        BY <2>1, <2>2, <2>3, <3>1 DEF N!vars
    <2> QED
      BY <2>4, <2>5
  <1>7. CASE EP!Process /\ UNCHANGED outboxVars
    <2>1. rows' = rows /\ announced' = announced
      BY <1>7 DEF outboxVars
    <2>2. [EP!Next]_(EP!vars)
      BY <1>7 DEF EP!Next
    <2>3. CASE \A b \in Bookings : EP!Recorded(b)' <=> EP!Recorded(b)
      <3>1. recorded' = recorded
        BY <1>2, <2>3
      <3>2. CASE mailed' = mailed
        BY <2>1, <3>1, <3>2 DEF N!vars
      <3>3. ASSUME NEW b \in Bookings, EP!Recorded(b),
                   \A x \in Bookings : x # b => mailed'[x] = mailed[x]
            PROVE  N!Next \/ UNCHANGED N!vars
        <4>1. \A x \in Bookings :
                mailed[x] \in Nat /\ mailed'[x] \in Nat /\ mailed'[x] >= mailed[x]
          BY <1>1, <2>2, MailEffect
        <4>2. CASE mailed[b] = 0 /\ mailed'[b] > 0
          <5>1. /\ b \in recorded \ confirmed
                /\ confirmed' = confirmed \cup {b}
            BY <1>2, <3>3, <4>1, <4>2
          <5> QED
            BY <2>1, <3>1, <5>1 DEF N!Next, N!Confirm
        <4>3. CASE ~(mailed[b] = 0 /\ mailed'[b] > 0)
          <5>1. confirmed' = confirmed
            BY <3>3, <4>1, <4>3
          <5> QED
            BY <2>1, <3>1, <5>1 DEF N!vars
        <4> QED
          BY <4>2, <4>3
      <3> QED
        BY <1>1, <2>2, <3>2, <3>3, MailEffect
    <2>4. ASSUME mailed' = mailed, NEW p \in 1..Len(topic),
                 \A b \in Bookings : EP!Recorded(b)' <=> EP!Recorded(b) \/ b = topic[p]
          PROVE  N!Next \/ UNCHANGED N!vars
      <3>1. topic[p] \in announced
        BY <1>1 DEF EP!TypeOK
      <3>2. recorded' = recorded \cup {topic[p]} /\ confirmed' = confirmed
        BY <1>2, <2>4, <3>1
      <3>3. CASE topic[p] \in recorded
        <4>1. recorded' = recorded
          BY <3>2, <3>3
        <4> QED
          BY <2>1, <3>2, <4>1 DEF N!vars
      <3>4. CASE topic[p] \notin recorded
        BY <2>1, <3>1, <3>2, <3>4 DEF N!Next, N!Record
      <3> QED
        BY <3>3, <3>4
    <2> QED
      BY <1>1, <1>7, <2>3, <2>4, RecordEffect
  <1>8. CASE UNCHANGED <<outboxVars, emailVars>>
    <2>1. rows' = rows /\ announced' = announced
      BY <1>8 DEF outboxVars
    <2> QED
      BY <1>3, <1>8, <2>1 DEF N!vars
  <1> QED
    BY <1>5, <1>6, <1>7, <1>8, StepOfParts

(* Relays that crash and publish twice, consumers that lose the partition, *)
(* retries, restarts: together the services implement the abstract         *)
(* notification.                                                           *)
THEOREM ConfirmationImplementsNotification == Spec => ImplementsNotification
  BY NotificationInit, NotificationNext, ConfirmationInvariant, PTL
     DEF Spec, ImplementsNotification, N!Spec

=============================================================================
