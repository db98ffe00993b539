------------------------ MODULE EmailDeliveryProofs ------------------------
(***************************************************************************)
(* Proofs about the email service, for any number of replicas, retry       *)
(* loops, bookings and messages.                                           *)
(***************************************************************************)
EXTENDS EmailDelivery, TLAPS

(* A row is a pair, and what a retry loop has just sent is a row with the  *)
(* status to write.                                                        *)
LEMMA RowsArePairs ==
  /\ \A c \in Replicas, p \in Positions : <<c, p>> \in Rows
  /\ \A i \in Rows : i[1] \in Replicas /\ i[2] \in Positions /\ i = <<i[1], i[2]>>
  BY DEF Rows

(* What a step of the handler of c does to where the handlers stand. *)
LEMMA GotoEffect ==
  ASSUME TypeOK, NEW c \in Replicas, NEW from, NEW to \in Stages, Goto(c, from, to)
  PROVE  /\ at' \in [Replicas -> Stages]
         /\ msg' \in [Replicas -> 0..Length]
         /\ at[c] = from /\ at'[c] = to
         /\ to # "poll" => msg' = msg
         /\ \A d \in Replicas : d # c => at'[d] = at[d] /\ msg'[d] = msg[d]
  BY EmailAssumption DEF TypeOK, Goto

(* Emails are only added, and an email that is not reported is doubted. *)
LEMMA SendEffect ==
  ASSUME TypeOK, NEW b \in Bookings, NEW s, Send(b, s)
  PROVE  /\ mailed' \in [Bookings -> 0..Many]
         /\ doubtful' \in SUBSET Bookings /\ doubtful \subseteq doubtful'
         /\ \A x \in Bookings : mailed'[x] >= mailed[x]
         /\ \A x \in Bookings : x # b => mailed'[x] = mailed[x]
         /\ s = "sent" => mailed'[b] > 0 /\ (mailed[b] = 0 => mailed'[b] = 1)
         /\ s # "sent" /\ b \notin doubtful' => mailed'[b] = mailed[b]
  <1>0. /\ mailed \in [Bookings -> 0..2] /\ doubtful \subseteq Bookings
        /\ \A x \in Bookings : mailed[x] \in 0..2 /\ mailed[x] \in Int
    BY DEF TypeOK, Many
  <1>1. ASSUME Deliver(b)
        PROVE  /\ mailed' \in [Bookings -> 0..Many]
               /\ \A x \in Bookings : mailed'[x] >= mailed[x]
               /\ \A x \in Bookings : x # b => mailed'[x] = mailed[x]
               /\ mailed'[b] > 0 /\ (mailed[b] = 0 => mailed'[b] = 1)
    <2>1. \A x \in Bookings :
            mailed'[x] = IF x = b THEN (IF mailed[x] < 2 THEN mailed[x] + 1 ELSE mailed[x])
                                  ELSE mailed[x]
      BY <1>0, <1>1 DEF Deliver, Many
    <2>2. mailed' = [x \in Bookings |-> mailed'[x]]
      BY <1>0, <1>1 DEF Deliver
    <2>3. \A x \in Bookings : mailed'[x] \in 0..2
      BY <1>0, <2>1
    <2> QED
      BY <1>0, <2>1, <2>2, <2>3 DEF Many
  <1>2. CASE s = "sent" /\ Deliver(b) /\ UNCHANGED doubtful
    BY <1>0, <1>1, <1>2
  <1>3. CASE s # "sent" /\ UNCHANGED <<mailed, doubtful>>
    BY <1>0, <1>3 DEF Many
  <1>4. CASE s # "sent" /\ Deliver(b) /\ Doubt({b})
    BY <1>0, <1>1, <1>4 DEF Doubt
  <1> QED
    BY <1>2, <1>3, <1>4 DEF Send

(* The topic only grows. *)
LEMMA AnnounceEffect ==
  ASSUME TypeOK, NEW b \in Bookings, Announce(b)
  PROVE  /\ Len(topic) \in Nat /\ Len(topic') = Len(topic) + 1
         /\ \A p \in 1..Len(topic) : topic'[p] = topic[p]
  BY DEF TypeOK, Announce

(* The next message is in hand, and nothing else of the handlers changes. *)
LEMMA ReadEffect ==
  ASSUME TypeOK, NEW c \in Replicas, Read(c)
  PROVE  /\ position \in Nat /\ Len(topic) \in Nat
         /\ position' = position + 1 /\ position' \in 1..Len(topic)
         /\ position' <= Len(topic)
         /\ at[c] = "poll" /\ at'[c] = "check" /\ msg'[c] = position'
         /\ \A d \in Replicas : d # c => at'[d] = at[d] /\ msg'[d] = msg[d]
  BY EmailAssumption DEF TypeOK, Read

(* One row gets a status. *)
LEMMA UpdateEffect ==
  ASSUME TypeOK, NEW i \in Rows, NEW s \in Statuses, UpdateStatus(i, s)
  PROVE  /\ status'[i] = s
         /\ \A j \in Rows : j # i => status'[j] = status[j]
  BY DEF TypeOK, UpdateStatus

(* A new row is pending. *)
LEMMA CreateEffect ==
  ASSUME TypeOK, NEW c \in Replicas, Create(c), <<c, msg[c]>> \in Rows
  PROVE  /\ status'[<<c, msg[c]>>] = "pending"
         /\ \A j \in Rows : j # <<c, msg[c]>> => status'[j] = status[j]
  BY DEF TypeOK, Create

(* What a retry loop has sent is a row, and the status to write. *)
LEMMA RetryingType ==
  ASSUME TypeOK, NEW c \in Loops, retrying[c] # Nobody
  PROVE  \E i \in Rows, s \in Statuses : retrying[c] = <<i, s>>
  BY DEF TypeOK

(* The retry loop of c has nothing in hand any more. *)
LEMMA ForgetEffect ==
  ASSUME TypeOK, NEW c, retrying' = [retrying EXCEPT ![c] = Nobody]
  PROVE  /\ \A d \in Loops, i \in Rows, s \in Statuses :
              retrying'[d] = <<i, s>> => d # c /\ retrying[d] = <<i, s>>
         /\ \A d \in Replicas, i \in Rows : Resent(d, i)' => d # c /\ Resent(d, i)
  <1>1. \A i \in Rows, s \in Statuses : <<i, s>> # Nobody
    BY EmailAssumption
  <1>2. \A d \in Loops, i \in Rows, s \in Statuses :
          retrying'[d] = <<i, s>> => d # c /\ retrying[d] = <<i, s>>
    BY <1>1 DEF TypeOK
  <1> QED
    BY <1>2 DEF Resent

(* A process that starts has nothing in hand. *)
LEMMA RestartEffect ==
  ASSUME TypeOK, NEW c \in Replicas, Restart(c)
  PROVE  /\ at'[c] = "poll"
         /\ \A d \in Replicas : d # c => at'[d] = at[d] /\ msg'[d] = msg[d]
         /\ \A d \in Replicas, i \in Rows : Lists(d, i)' => d # c /\ Lists(d, i)
         /\ \A d \in Replicas, i \in Rows : Resent(d, i)' => d # c /\ Resent(d, i)
         /\ \A d \in Loops, i \in Rows, s \in Statuses :
              retrying'[d] = <<i, s>> => d # c /\ retrying[d] = <<i, s>>
  <1>1. PICK s \in Stages : Goto(c, s, "poll")
    BY DEF Restart
  <1>2. \A d \in Replicas, i \in Rows : Lists(d, i)' => d # c /\ Lists(d, i)
    BY DEF TypeOK, Restart, Lists
  <1> QED
    BY <1>1, <1>2, GotoEffect, ForgetEffect DEF Restart, Stages

(* Every action keeps every variable within its type. *)
LEMMA EmailTypeNext == TypeOK /\ InHandExists /\ [Next]_vars => TypeOK'
  <1> SUFFICES ASSUME TypeOK, InHandExists, [Next]_vars PROVE TypeOK'
    OBVIOUS
  <1>0. /\ \A c \in Replicas :
             Handling(c) => /\ msg[c] \in Positions /\ topic[msg[c]] \in Bookings
                            /\ <<c, msg[c]>> \in Rows
        /\ \A i \in Rows : Inserted(i) => BookingOf(i) \in Bookings
    BY EmailAssumption DEF TypeOK, InHandExists, Positions, BookingOf, Rows
  <1>1. ASSUME NEW b \in Bookings, Announce(b) PROVE TypeOK'
    BY <1>1, EmailAssumption DEF TypeOK, Announce, group, handler, table, retry, history
  <1> USE EmailAssumption DEF TypeOK, group, handler, table, retry, history
  <1>2. ASSUME NEW c \in Replicas, Assign(c) PROVE TypeOK'
    BY <1>2 DEF Assign
  <1>3. ASSUME NEW c \in Replicas, ReadFails(c) PROVE TypeOK'
    BY <1>3, GotoEffect DEF ReadFails, Leave, Stages
  <1>4. ASSUME NEW c \in Replicas, Read(c) PROVE TypeOK'
    BY <1>4 DEF Read, Stages
  <1>5. ASSUME NEW c \in Replicas, Commit(c) PROVE TypeOK'
    BY <1>5, GotoEffect DEF Commit, Stages
  <1>6. ASSUME NEW c \in Replicas, CommitFails(c) PROVE TypeOK'
    BY <1>6, GotoEffect DEF CommitFails, Stages
  <1>7. ASSUME NEW c \in Replicas, SkipDuplicate(c) \/ FindNothing(c) PROVE TypeOK'
    BY <1>7, GotoEffect DEF SkipDuplicate, FindNothing, Stages
  <1>8. ASSUME NEW c \in Replicas, Create(c) PROVE TypeOK'
    <2>1. <<c, msg[c]>> \in Rows
      BY <1>0, <1>8 DEF Create, Handling, Goto
    <2>2. at' \in [Replicas -> Stages] /\ msg' \in [Replicas -> 0..Length]
      BY <1>8, GotoEffect DEF Create, Stages
    <2>3. status' \in [Rows -> Statuses \cup {"none"}]
      BY <1>8, <2>1 DEF Create, Statuses
    <2>4. due' \subseteq Rows
      BY <1>8, <2>1 DEF Create
    <2>5. retryCount' \in [Rows -> 0..MaxRetries]
      BY <1>8, <2>1 DEF Create, MaxRetries
    <2> QED
      BY <1>8, <2>2, <2>3, <2>4, <2>5 DEF Create
  <1>9. ASSUME NEW c \in Replicas, SendConfirmationEmail(c) PROVE TypeOK'
    <2>1. PICK s \in {"sent", "failed"} : Goto(c, "send", s) /\ Send(topic[msg[c]], s)
      BY <1>9 DEF SendConfirmationEmail
    <2>2. topic[msg[c]] \in Bookings
      BY <1>0, <2>1 DEF Handling, Goto
    <2>3. s \in Stages
      BY DEF Stages
    <2> QED
      BY <1>9, <2>1, <2>2, <2>3, GotoEffect, SendEffect DEF SendConfirmationEmail
  <1>10. ASSUME NEW c \in Replicas, Record(c) PROVE TypeOK'
    <2>1. PICK s \in {"sent", "failed"} :
            Goto(c, s, "commit") /\ UpdateStatus(<<c, msg[c]>>, s)
      BY <1>10 DEF Record
    <2>2. <<c, msg[c]>> \in Rows
      BY <1>0, <2>1 DEF Handling, Goto
    <2> QED
      BY <1>10, <2>1, <2>2, GotoEffect DEF Record, UpdateStatus, Stages, Statuses
  <1>11. ASSUME NEW c \in Replicas, HandlerFails(c) PROVE TypeOK'
    <2>1. PICK s \in {"check", "create", "send", "sent", "failed"} : Goto(c, s, "poll")
      BY <1>11 DEF HandlerFails
    <2>2. msg[c] \in Positions
      BY <1>0, <2>1 DEF Handling, Goto
    <2> QED
      BY <1>11, <2>1, <2>2, GotoEffect
      DEF HandlerFails, Doubt, UnrecordedByHandler, Stages
  <1>12. ASSUME NEW c \in Loops, FindPendingRetries(c) PROVE TypeOK'
    BY <1>0, <1>12 DEF FindPendingRetries, Inserted, Doubt
  <1>13. ASSUME NEW c \in Loops, NEW i \in Rows, NEW s \in Statuses, Retry(c, i, s)
         PROVE  TypeOK'
    <2>1. BookingOf(i) \in Bookings
      BY <1>0, <1>13 DEF InHandExists, Retry, Lists
    <2>2. /\ mailed' \in [Bookings -> 0..Many]
          /\ doubtful' \in SUBSET Bookings
      BY <1>13, <2>1, SendEffect DEF Retry
    <2> QED
      BY <1>13, <2>2 DEF Retry
  <1>14. ASSUME NEW c \in Loops, RecordRetry(c) PROVE TypeOK'
    BY <1>14 DEF RecordRetry, UpdateStatus
  <1>15. ASSUME NEW c \in Loops, RecordRetryFails(c) PROVE TypeOK'
    BY <1>15 DEF RecordRetryFails, Doubt, UnrecordedByRetry
  <1>16. ASSUME NEW i \in Rows, BackOffElapses(i) PROVE TypeOK'
    BY <1>16 DEF BackOffElapses
  <1>17. ASSUME NEW c \in Replicas, Restart(c) PROVE TypeOK'
    <2>1. PICK s \in Stages : Goto(c, s, "poll")
      BY <1>17 DEF Restart
    <2>2. at' \in [Replicas -> Stages] /\ msg' \in [Replicas -> 0..Length]
      BY <2>1, GotoEffect DEF Stages
    <2>3. /\ UnrecordedByHandler(c) \subseteq Bookings
          /\ UnrecordedByRetry(c) \subseteq Bookings
      BY DEF UnrecordedByRetry, UnrecordedByHandler
    <2>4. /\ assigned' \in Replicas \cup {Nobody} /\ position' \in 0..Length
          /\ doubtful' \subseteq Bookings
      BY <1>17, <2>3 DEF Restart, Leave, Doubt
    <2>5. /\ todo' \in [Loops -> SUBSET Rows]
          /\ retrying' \in [Loops -> (Rows \X Statuses) \cup {Nobody}]
      BY <1>17 DEF Restart
    <2> QED
      BY <1>17, <2>2, <2>4, <2>5 DEF Restart
  <1>18. CASE UNCHANGED vars
    BY <1>18 DEF vars
  <1> HIDE DEF TypeOK
  <1>19. CASE \E c \in Replicas : Consumes(c) \/ Restart(c)
    BY <1>2, <1>3, <1>4, <1>5, <1>6, <1>7, <1>8, <1>9, <1>10, <1>11, <1>17, <1>19
    DEF Consumes, Handles
  <1>20. CASE \E c \in Loops : Retries(c)
    BY <1>12, <1>13, <1>14, <1>15, <1>20 DEF Retries
  <1> QED
    BY <1>1, <1>16, <1>18, <1>19, <1>20 DEF Next, Process

(* Messages and rows in hand exist: neither is ever removed. *)
LEMMA InHandNext ==
  TypeOK /\ InHandExists /\ [Next]_vars => InHandExists'
  <1> SUFFICES ASSUME TypeOK, InHandExists, [Next]_vars
               PROVE  InHandExists'
    OBVIOUS
  <1>0. \A c \in Replicas : Handling(c) => <<c, msg[c]>> \in Rows
    BY EmailAssumption DEF TypeOK, InHandExists, Positions, Rows
  <1> USE EmailAssumption DEF InHandExists, Handling, Inserted, Owns, Lists, Resent,
      Stages, group, handler, table, retry, history
  <1>1. ASSUME NEW b \in Bookings, Announce(b) PROVE InHandExists'
    <2>1. /\ \A i \in Rows : i[2] \in Nat
          /\ \A d \in Replicas : msg[d] \in Nat
          /\ position \in Nat /\ committed \in Nat
      BY RowsArePairs DEF TypeOK, Positions
    <2>2. (position <= Len(topic) /\ committed <= Len(topic))'
      BY <1>1, <2>1, AnnounceEffect DEF Announce
    <2>3. (\A d \in Replicas : Handling(d) => msg[d] \in 1..Len(topic))'
      BY <1>1, <2>1, AnnounceEffect DEF Announce
    <2>4. (\A i \in Rows : Inserted(i) => i[2] <= Len(topic))'
      BY <1>1, <2>1, AnnounceEffect DEF Announce
    <2>5. (\A d \in Replicas, i \in Rows :
             Owns(d, i) \/ Lists(d, i) \/ Resent(d, i) => Inserted(i))'
      BY <1>1, <2>1, AnnounceEffect DEF Announce
    <2> QED
      BY <2>2, <2>3, <2>4, <2>5
  <1>2. ASSUME NEW c \in Replicas, Assign(c) PROVE InHandExists'
    BY <1>2 DEF Assign
  <1>3. ASSUME NEW c \in Replicas, ReadFails(c) PROVE InHandExists'
    BY <1>3, GotoEffect DEF ReadFails, Leave
  <1>4. ASSUME NEW c \in Replicas, Read(c) PROVE InHandExists'
    <2>1. (position <= Len(topic) /\ committed <= Len(topic))'
      BY <1>4, ReadEffect DEF Read
    <2>2. (\A d \in Replicas : Handling(d) => msg[d] \in 1..Len(topic))'
      BY <1>4, ReadEffect DEF Read
    <2>3. (\A i \in Rows : Inserted(i) => i[2] <= Len(topic))'
      BY <1>4, ReadEffect DEF Read
    <2>4. (\A d \in Replicas, i \in Rows :
             Owns(d, i) \/ Lists(d, i) \/ Resent(d, i) => Inserted(i))'
      BY <1>4, ReadEffect DEF Read
    <2> QED
      BY <2>1, <2>2, <2>3, <2>4
  <1>5. ASSUME NEW c \in Replicas, Commit(c) PROVE InHandExists'
    BY <1>5, GotoEffect DEF Commit
  <1>6. ASSUME NEW c \in Replicas, CommitFails(c) PROVE InHandExists'
    BY <1>6, GotoEffect DEF CommitFails
  <1>7. ASSUME NEW c \in Replicas, SkipDuplicate(c) \/ FindNothing(c)
         PROVE  InHandExists'
    <2>1. \E t \in {"commit", "create"} : Goto(c, "check", t)
      BY <1>7 DEF SkipDuplicate, FindNothing
    <2>2. UNCHANGED <<topic, group, table, retry>>
      BY <1>7 DEF SkipDuplicate, FindNothing
    <2> QED
      BY <2>1, <2>2, GotoEffect
  <1>8. ASSUME NEW c \in Replicas, Create(c) PROVE InHandExists'
    <2>1. at[c] = "create" /\ <<c, msg[c]>> \in Rows
      BY <1>0, <1>8 DEF Create, Goto
    <2>2. /\ at'[c] = "send" /\ msg' = msg
          /\ \A d \in Replicas : d # c => at'[d] = at[d]
      BY <1>8, GotoEffect DEF Create
    <2>3. (position <= Len(topic) /\ committed <= Len(topic))'
      BY <1>8, <2>1, <2>2, CreateEffect DEF Create
    <2>4. (\A d \in Replicas : Handling(d) => msg[d] \in 1..Len(topic))'
      BY <1>8, <2>1, <2>2, CreateEffect DEF Create
    <2>5. (\A i \in Rows : Inserted(i) => i[2] <= Len(topic))'
      BY <1>8, <2>1, <2>2, CreateEffect DEF Create
    <2>6. (\A d \in Replicas, i \in Rows :
             Owns(d, i) \/ Lists(d, i) \/ Resent(d, i) => Inserted(i))'
      BY <1>8, <2>1, <2>2, CreateEffect DEF Create
    <2> QED
      BY <2>3, <2>4, <2>5, <2>6
  <1>9. ASSUME NEW c \in Replicas, SendConfirmationEmail(c) PROVE InHandExists'
    BY <1>9, GotoEffect DEF SendConfirmationEmail
  <1>10. ASSUME NEW c \in Replicas, Record(c) PROVE InHandExists'
    <2>1. PICK s \in {"sent", "failed"} :
            Goto(c, s, "commit") /\ UpdateStatus(<<c, msg[c]>>, s)
      BY <1>10 DEF Record
    <2>2. <<c, msg[c]>> \in Rows /\ s \in Statuses
      BY <1>0, <2>1 DEF Goto, Statuses
    <2>3. \A j \in Rows : Inserted(j) => Inserted(j)'
      BY <2>1, <2>2, UpdateEffect DEF Statuses
    <2>4. /\ at[c] = s /\ at'[c] = "commit" /\ msg' = msg
          /\ \A d \in Replicas : d # c => at'[d] = at[d]
      BY <2>1, GotoEffect
    <2>5. \A j \in Rows : Inserted(j)' => Inserted(j)
      BY <2>1, <2>2, <2>4, UpdateEffect
    <2>6. (position <= Len(topic) /\ committed <= Len(topic))'
      BY <1>10, <2>3, <2>4, <2>5 DEF Record
    <2>7. (\A d \in Replicas : Handling(d) => msg[d] \in 1..Len(topic))'
      BY <1>10, <2>3, <2>4, <2>5 DEF Record
    <2>8. (\A i \in Rows : Inserted(i) => i[2] <= Len(topic))'
      BY <1>10, <2>3, <2>4, <2>5 DEF Record
    <2>9. (\A d \in Replicas, i \in Rows :
             Owns(d, i) \/ Lists(d, i) \/ Resent(d, i) => Inserted(i))'
      BY <1>10, <2>3, <2>4, <2>5 DEF Record
    <2> QED
      BY <2>6, <2>7, <2>8, <2>9
  <1>11. ASSUME NEW c \in Replicas, HandlerFails(c) PROVE InHandExists'
    BY <1>11, GotoEffect DEF HandlerFails
  <1>12. ASSUME NEW c \in Loops, FindPendingRetries(c) PROVE InHandExists'
    BY <1>12 DEF FindPendingRetries
  <1>13. ASSUME NEW c \in Loops, NEW i \in Rows, NEW s \in Statuses, Retry(c, i, s)
         PROVE  InHandExists'
    BY <1>13 DEF Retry
  <1>14. ASSUME NEW c \in Loops, RecordRetry(c) PROVE InHandExists'
    <2>1. PICK i \in Rows, s \in Statuses : retrying[c] = <<i, s>>
      BY <1>14, RetryingType DEF RecordRetry
    <2>2. \A j \in Rows : Inserted(j) <=> Inserted(j)'
      BY <1>14, <2>1, UpdateEffect DEF RecordRetry, Statuses
    <2>3. \A d \in Replicas, j \in Rows : Resent(d, j)' => Resent(d, j)
      BY <1>14, ForgetEffect DEF RecordRetry
    <2>4. (position <= Len(topic) /\ committed <= Len(topic))'
      BY <1>14, <2>2, <2>3 DEF RecordRetry
    <2>5. (\A d \in Replicas : Handling(d) => msg[d] \in 1..Len(topic))'
      BY <1>14, <2>2, <2>3 DEF RecordRetry
    <2>6. (\A k \in Rows : Inserted(k) => k[2] <= Len(topic))'
      BY <1>14, <2>2, <2>3 DEF RecordRetry
    <2>7. (\A d \in Replicas, k \in Rows :
             Owns(d, k) \/ Lists(d, k) \/ Resent(d, k) => Inserted(k))'
      BY <1>14, <2>2, <2>3 DEF RecordRetry
    <2> QED
      BY <2>4, <2>5, <2>6, <2>7
  <1>15. ASSUME NEW c \in Loops, RecordRetryFails(c) PROVE InHandExists'
    <2>1. \A d \in Replicas, j \in Rows : Resent(d, j)' => Resent(d, j)
      BY <1>15, ForgetEffect DEF RecordRetryFails
    <2>2. (position <= Len(topic) /\ committed <= Len(topic))'
      BY <1>15, <2>1 DEF RecordRetryFails
    <2>3. (\A d \in Replicas : Handling(d) => msg[d] \in 1..Len(topic))'
      BY <1>15, <2>1 DEF RecordRetryFails
    <2>4. (\A i \in Rows : Inserted(i) => i[2] <= Len(topic))'
      BY <1>15, <2>1 DEF RecordRetryFails
    <2>5. (\A d \in Replicas, i \in Rows :
             Owns(d, i) \/ Lists(d, i) \/ Resent(d, i) => Inserted(i))'
      BY <1>15, <2>1 DEF RecordRetryFails
    <2> QED
      BY <2>2, <2>3, <2>4, <2>5
  <1>16. ASSUME NEW i \in Rows, BackOffElapses(i) PROVE InHandExists'
    BY <1>16 DEF BackOffElapses
  <1>17. ASSUME NEW c \in Replicas, Restart(c) PROVE InHandExists'
    <2>1. \A d \in Replicas, j \in Rows :
            Lists(d, j)' \/ Resent(d, j)' => Lists(d, j) \/ Resent(d, j)
      BY <1>17, RestartEffect
    <2>2. /\ at'[c] = "poll"
          /\ \A d \in Replicas : d # c => at'[d] = at[d] /\ msg'[d] = msg[d]
      BY <1>17, RestartEffect
    <2>3. (position <= Len(topic) /\ committed <= Len(topic))'
      BY <1>17, <2>1, <2>2 DEF Restart, Leave
    <2>4. (\A d \in Replicas : Handling(d) => msg[d] \in 1..Len(topic))'
      BY <1>17, <2>1, <2>2 DEF Restart, Leave
    <2>5. (\A i \in Rows : Inserted(i) => i[2] <= Len(topic))'
      BY <1>17, <2>1, <2>2 DEF Restart, Leave
    <2>6. (\A d \in Replicas, i \in Rows :
             Owns(d, i) \/ Lists(d, i) \/ Resent(d, i) => Inserted(i))'
      BY <1>17, <2>1, <2>2 DEF Restart, Leave
    <2> QED
      BY <2>3, <2>4, <2>5, <2>6
  <1>18. CASE UNCHANGED vars
    BY <1>18 DEF vars
  <1> HIDE DEF InHandExists, Handling, Inserted, Owns, Lists, Resent,
      Stages, group, handler, table, retry, history
  <1>19. CASE \E c \in Replicas : Consumes(c) \/ Restart(c)
    BY <1>2, <1>3, <1>4, <1>5, <1>6, <1>7, <1>8, <1>9, <1>10, <1>11, <1>17, <1>19
    DEF Consumes, Handles
  <1>20. CASE \E c \in Loops : Retries(c)
    BY <1>12, <1>13, <1>14, <1>15, <1>20 DEF Retries
  <1> QED
    BY <1>1, <1>16, <1>18, <1>19, <1>20 DEF Next, Process

(* The topic, the table and the messages passed over only grow.            *)
LEMMA RecordsKept ==
  ASSUME TypeOK, InHandExists, [Next]_vars
  PROVE  /\ Len(topic) \in Nat /\ Len(topic') \in Nat /\ Len(topic) <= Len(topic')
         /\ \A p \in 1..Len(topic) : topic'[p] = topic[p]
         /\ \A i \in Rows : Inserted(i) => Inserted(i)' /\ BookingOf(i)' = BookingOf(i)
         /\ \A b \in Bookings : Recorded(b) => Recorded(b)'
         /\ \A p \in 1..Len(topic) : Covered(p) => Covered(p)'
         /\ skipped \subseteq skipped'
         /\ evicted => evicted'
         /\ doubtful \subseteq doubtful'
  <1>1. \/ UNCHANGED topic
        \/ \E b \in Bookings : Announce(b)
    BY DEF Next, Process, Consumes, Handles, Retries, Assign, ReadFails, Read,
           Commit, CommitFails, SkipDuplicate, FindNothing, Create,
           SendConfirmationEmail, Record, HandlerFails, FindPendingRetries, Retry,
           RecordRetry, RecordRetryFails, BackOffElapses, Restart, vars
  <1>2. /\ Len(topic) \in Nat /\ Len(topic') \in Nat /\ Len(topic) <= Len(topic')
        /\ \A p \in 1..Len(topic) : topic'[p] = topic[p]
    <2>1. Len(topic) \in Nat
      BY DEF TypeOK
    <2> QED
      BY <1>1, <2>1, AnnounceEffect
  <1>3. \/ UNCHANGED status
        \/ \E c \in Replicas : Create(c)
        \/ \E c \in Replicas : Record(c)
        \/ \E c \in Loops : RecordRetry(c)
    BY DEF Next, Process, Consumes, Handles, Retries, Announce, Assign, ReadFails,
           Read, Commit, CommitFails, SkipDuplicate, FindNothing,
           SendConfirmationEmail, HandlerFails, FindPendingRetries, Retry,
           RecordRetryFails, BackOffElapses, Restart, vars, table
  <1>4. \A i \in Rows : Inserted(i) => Inserted(i)'
    <2>1. \A c \in Replicas : Handling(c) => <<c, msg[c]>> \in Rows
      BY EmailAssumption DEF TypeOK, InHandExists, Positions, Rows
    <2>2. ASSUME NEW c \in Replicas, Create(c)
          PROVE  \A i \in Rows : Inserted(i) => Inserted(i)'
      BY <2>1, <2>2, CreateEffect DEF Create, Goto, Handling, Inserted
    <2>3. ASSUME NEW c \in Replicas, Record(c)
          PROVE  \A i \in Rows : Inserted(i) => Inserted(i)'
      <3>1. PICK s \in {"sent", "failed"} :
              at[c] = s /\ UpdateStatus(<<c, msg[c]>>, s)
        BY <2>3 DEF Record, Goto
      <3>2. <<c, msg[c]>> \in Rows /\ s \in Statuses
        BY <2>1, <3>1 DEF Handling, Statuses
      <3> QED
        BY <3>1, <3>2, UpdateEffect DEF Inserted, Statuses
    <2>4. ASSUME NEW c \in Loops, RecordRetry(c)
          PROVE  \A i \in Rows : Inserted(i) => Inserted(i)'
      <3>1. PICK i \in Rows, s \in Statuses : retrying[c] = <<i, s>>
        BY <2>4, RetryingType DEF RecordRetry
      <3> QED
        BY <2>4, <3>1, UpdateEffect DEF RecordRetry, Inserted, Statuses
    <2> QED
      BY <1>3, <2>2, <2>3, <2>4 DEF Inserted
  <1>5. \A i \in Rows : Inserted(i) => BookingOf(i)' = BookingOf(i)
    <2>1. \A i \in Rows : i[2] \in Nat /\ i[2] >= 1
      BY EmailAssumption DEF Rows, Positions
    <2> QED
      BY <1>2, <2>1 DEF InHandExists, BookingOf
  <1>6. \A b \in Bookings : Recorded(b) => Recorded(b)'
    BY <1>4, <1>5 DEF Recorded, Inserted
  <1>7. skipped \subseteq skipped' /\ (evicted => evicted') /\ doubtful \subseteq doubtful'
    <2>1. \/ UNCHANGED <<skipped, evicted>>
          \/ \E c \in Replicas : Assign(c) \/ HandlerFails(c)
      BY DEF Next, Process, Consumes, Handles, Retries, Announce, ReadFails, Read,
             Commit, CommitFails, SkipDuplicate, FindNothing, Create,
             SendConfirmationEmail, Record, FindPendingRetries, Retry, RecordRetry,
             RecordRetryFails, BackOffElapses, Restart, vars, history
    <2>2. skipped \subseteq skipped' /\ (evicted => evicted')
      BY <2>1 DEF Assign, HandlerFails, TypeOK
    <2>3. UNCHANGED doubtful \/ doubtful \subseteq doubtful'
      BY DEF Next, Process, Consumes, Handles, Retries, Announce, Assign, ReadFails,
             Read, Commit, CommitFails, SkipDuplicate, FindNothing, Create,
             SendConfirmationEmail, Record, HandlerFails, FindPendingRetries, Retry,
             RecordRetry, RecordRetryFails, BackOffElapses, Restart, Send, Doubt,
             vars, history
    <2> QED
      BY <2>2, <2>3
  <1>8. \A p \in 1..Len(topic) : topic[p] \in Bookings
    BY DEF TypeOK
  <1> QED
    BY <1>2, <1>4, <1>5, <1>6, <1>7, <1>8 DEF Covered

(* No message before the one in hand is forgotten: a handler lets go of    *)
(* its message when the booking is recorded or the message passed over.    *)
LEMMA CoveredNext ==
  TypeOK /\ InHandExists /\ CoveredSoFar /\ [Next]_vars => CoveredSoFar'
  <1> SUFFICES ASSUME TypeOK, InHandExists, CoveredSoFar, [Next]_vars
               PROVE  CoveredSoFar'
    OBVIOUS
  <1>0. /\ Len(topic) \in Nat
        /\ \A p \in 1..Len(topic) : topic'[p] = topic[p]
        /\ \A b \in Bookings : Recorded(b) => Recorded(b)'
        /\ \A p \in 1..Len(topic) : Covered(p) => Covered(p)'
        /\ \A p \in 1..Len(topic) : topic[p] \in Bookings
    BY RecordsKept DEF TypeOK
  <1>a. /\ committed \in Nat /\ committed <= Len(topic)
        /\ position \in Nat /\ position <= Len(topic)
        /\ \A d \in Replicas : Handling(d) => msg[d] \in 1..Len(topic)
    BY DEF TypeOK, InHandExists
  <1>b. \A d \in Replicas : at[d] = "commit" => Covered(msg[d])
    BY DEF CoveredSoFar, Covered
  <1> USE <1>0, <1>a, <1>b DEF CoveredSoFar, Handling, group, handler,
       table, retry, history
  <1>1. ASSUME NEW b \in Bookings, Announce(b) PROVE CoveredSoFar'
    BY <1>1 DEF Announce
  <1>2. ASSUME NEW c \in Replicas, Assign(c) PROVE CoveredSoFar'
    BY <1>2 DEF Assign
  <1>3. ASSUME NEW c \in Replicas, ReadFails(c) PROVE CoveredSoFar'
    <2>1. (\A p \in 1..committed : Covered(p))'
      BY <1>3, GotoEffect DEF ReadFails, Leave, Stages
    <2>2. (\A p \in 1..position :
             Covered(p) \/ \E d \in Replicas : d = assigned /\ Handling(d) /\ p = msg[d])'
      BY <1>3, GotoEffect DEF ReadFails, Leave, Stages
    <2>3. (\A d \in Replicas : Handling(d) =>
             \A p \in 1..msg[d] : p < msg[d] => Covered(p))'
      BY <1>3, GotoEffect DEF ReadFails, Leave, Stages
    <2>4. (\A d \in Replicas : at[d] = "commit" => Recorded(topic[msg[d]]))'
      BY <1>3, GotoEffect DEF ReadFails, Leave, Stages
    <2> QED
      BY <2>1, <2>2, <2>3, <2>4
  <1>4. ASSUME NEW c \in Replicas, Read(c) PROVE CoveredSoFar'
    <2>1. \A p \in 1..position : Covered(p)
      BY <1>4 DEF Read
    <2>2. /\ position' = position + 1 /\ topic' = topic /\ committed' = committed
          /\ assigned = c /\ assigned' = c
          /\ at'[c] = "check" /\ msg'[c] = position + 1
          /\ \A d \in Replicas : d # c => at'[d] = at[d] /\ msg'[d] = msg[d]
      BY <1>4, ReadEffect DEF Read
    <2>3. \A p \in 1..position' : p \in 1..position \/ p = position + 1
      BY <2>2
    <2>4. \A p \in 1..position : Covered(p)'
      BY <2>1
    <2>5. (\A p \in 1..committed : Covered(p))'
      BY <2>2, <2>3, <2>4
    <2>6. (\A p \in 1..position :
             Covered(p) \/ \E d \in Replicas : d = assigned /\ Handling(d) /\ p = msg[d])'
      BY <2>2, <2>3, <2>4
    <2>7. (\A d \in Replicas : Handling(d) =>
             \A p \in 1..msg[d] : p < msg[d] => Covered(p))'
      BY <2>2, <2>3, <2>4
    <2>8. (\A d \in Replicas : at[d] = "commit" => Recorded(topic[msg[d]]))'
      BY <2>2, <2>3, <2>4
    <2> QED
      BY <2>5, <2>6, <2>7, <2>8
  <1>5. ASSUME NEW c \in Replicas, Commit(c) PROVE CoveredSoFar'
    <2>1. (\A p \in 1..committed : Covered(p))'
      BY <1>5, GotoEffect DEF Commit, Stages
    <2>2. (\A p \in 1..position :
             Covered(p) \/ \E d \in Replicas : d = assigned /\ Handling(d) /\ p = msg[d])'
      BY <1>5, GotoEffect DEF Commit, Stages
    <2>3. (\A d \in Replicas : Handling(d) =>
             \A p \in 1..msg[d] : p < msg[d] => Covered(p))'
      BY <1>5, GotoEffect DEF Commit, Stages
    <2>4. (\A d \in Replicas : at[d] = "commit" => Recorded(topic[msg[d]]))'
      BY <1>5, GotoEffect DEF Commit, Stages
    <2> QED
      BY <2>1, <2>2, <2>3, <2>4
  <1>6. ASSUME NEW c \in Replicas, CommitFails(c) PROVE CoveredSoFar'
    <2>1. /\ at[c] = "commit" /\ at'[c] = "poll"
          /\ \A d \in Replicas : d # c => at'[d] = at[d] /\ msg'[d] = msg[d]
      BY <1>6, GotoEffect DEF CommitFails, Stages
    <2>2. (\A p \in 1..committed : Covered(p))'
      BY <1>6, <2>1 DEF CommitFails
    <2>3. (\A p \in 1..position :
             Covered(p) \/ \E d \in Replicas : d = assigned /\ Handling(d) /\ p = msg[d])'
      BY <1>6, <2>1 DEF CommitFails
    <2>4. (\A d \in Replicas : Handling(d) =>
             \A p \in 1..msg[d] : p < msg[d] => Covered(p))'
      BY <1>6, <2>1 DEF CommitFails
    <2>5. (\A d \in Replicas : at[d] = "commit" => Recorded(topic[msg[d]]))'
      BY <1>6, <2>1 DEF CommitFails
    <2> QED
      BY <2>2, <2>3, <2>4, <2>5
  <1>7. ASSUME NEW c \in Replicas, SkipDuplicate(c) \/ FindNothing(c)
         PROVE  CoveredSoFar'
    <2>1. (\A p \in 1..committed : Covered(p))'
      BY <1>7, GotoEffect DEF SkipDuplicate, FindNothing, Stages
    <2>2. (\A p \in 1..position :
             Covered(p) \/ \E d \in Replicas : d = assigned /\ Handling(d) /\ p = msg[d])'
      BY <1>7, GotoEffect DEF SkipDuplicate, FindNothing, Stages
    <2>3. (\A d \in Replicas : Handling(d) =>
             \A p \in 1..msg[d] : p < msg[d] => Covered(p))'
      BY <1>7, GotoEffect DEF SkipDuplicate, FindNothing, Stages
    <2>4. (\A d \in Replicas : at[d] = "commit" => Recorded(topic[msg[d]]))'
      BY <1>7, GotoEffect DEF SkipDuplicate, FindNothing, Stages
    <2> QED
      BY <2>1, <2>2, <2>3, <2>4
  <1>8. ASSUME NEW c \in Replicas, Create(c) PROVE CoveredSoFar'
    <2>1. /\ at[c] = "create" /\ at'[c] = "send"
          /\ \A d \in Replicas : d # c => at'[d] = at[d] /\ msg'[d] = msg[d]
      BY <1>8, GotoEffect DEF Create, Stages
    <2>2. msg' = msg
      BY <1>8 DEF Create, Goto
    <2>3. (\A p \in 1..committed : Covered(p))'
      BY <1>8, <2>1, <2>2 DEF Create
    <2>4. (\A p \in 1..position :
             Covered(p) \/ \E d \in Replicas : d = assigned /\ Handling(d) /\ p = msg[d])'
      BY <1>8, <2>1, <2>2 DEF Create
    <2>5. (\A d \in Replicas : Handling(d) =>
             \A p \in 1..msg[d] : p < msg[d] => Covered(p))'
      BY <1>8, <2>1, <2>2 DEF Create
    <2>6. (\A d \in Replicas : at[d] = "commit" => Recorded(topic[msg[d]]))'
      BY <1>8, <2>1, <2>2 DEF Create
    <2> QED
      BY <2>3, <2>4, <2>5, <2>6
  <1>9. ASSUME NEW c \in Replicas, SendConfirmationEmail(c) PROVE CoveredSoFar'
    <2>1. PICK s \in {"sent", "failed"} : Goto(c, "send", s)
      BY <1>9 DEF SendConfirmationEmail
    <2>2. /\ at[c] = "send" /\ at'[c] = s /\ msg' = msg
          /\ \A d \in Replicas : d # c => at'[d] = at[d]
      BY <2>1, GotoEffect DEF Stages
    <2>3. (\A p \in 1..committed : Covered(p))'
      BY <1>9, <2>2 DEF SendConfirmationEmail
    <2>4. (\A p \in 1..position :
             Covered(p) \/ \E d \in Replicas : d = assigned /\ Handling(d) /\ p = msg[d])'
      BY <1>9, <2>2 DEF SendConfirmationEmail
    <2>5. (\A d \in Replicas : Handling(d) =>
             \A p \in 1..msg[d] : p < msg[d] => Covered(p))'
      BY <1>9, <2>2 DEF SendConfirmationEmail
    <2>6. (\A d \in Replicas : at[d] = "commit" => Recorded(topic[msg[d]]))'
      BY <1>9, <2>2 DEF SendConfirmationEmail
    <2> QED
      BY <2>3, <2>4, <2>5, <2>6
  <1>10. ASSUME NEW c \in Replicas, Record(c) PROVE CoveredSoFar'
    <2>1. PICK s \in {"sent", "failed"} : Goto(c, s, "commit")
      BY <1>10 DEF Record
    <2>2. /\ at[c] = s /\ at'[c] = "commit" /\ msg' = msg
          /\ \A d \in Replicas : d # c => at'[d] = at[d]
      BY <2>1, GotoEffect DEF Stages
    <2>3. <<c, msg[c]>> \in Rows
      <3>1. msg[c] \in 1..Len(topic)
        BY <2>2
      <3>2. Len(topic) <= Length /\ Length \in Nat
        BY EmailAssumption DEF TypeOK
      <3> QED
        BY <3>1, <3>2 DEF Rows, Positions
    <2>4. Inserted(<<c, msg[c]>>)
      BY <2>2, <2>3 DEF InHandExists, Owns
    <2>5. Recorded(topic[msg[c]])
      BY <2>3, <2>4 DEF Recorded, Inserted, BookingOf
    <2>6. (\A p \in 1..committed : Covered(p))'
      BY <1>10, <2>2, <2>5 DEF Record
    <2>7. (\A p \in 1..position :
             Covered(p) \/ \E d \in Replicas : d = assigned /\ Handling(d) /\ p = msg[d])'
      BY <1>10, <2>2, <2>5 DEF Record
    <2>8. (\A d \in Replicas : Handling(d) =>
             \A p \in 1..msg[d] : p < msg[d] => Covered(p))'
      BY <1>10, <2>2, <2>5 DEF Record
    <2>9. (\A d \in Replicas : at[d] = "commit" => Recorded(topic[msg[d]]))'
      BY <1>10, <2>2, <2>5 DEF Record
    <2> QED
      BY <2>6, <2>7, <2>8, <2>9
  <1>11. ASSUME NEW c \in Replicas, HandlerFails(c) PROVE CoveredSoFar'
    <2>1. PICK s \in {"check", "create", "send", "sent", "failed"} : Goto(c, s, "poll")
      BY <1>11 DEF HandlerFails
    <2>2. /\ at[c] = s /\ at'[c] = "poll"
          /\ \A d \in Replicas : d # c => at'[d] = at[d] /\ msg'[d] = msg[d]
      BY <2>1, GotoEffect DEF Stages
    <2>3. \A p \in 1..Len(topic) : p = msg[c] => Covered(p)'
      BY <1>11 DEF HandlerFails, Covered
    <2>4. (\A p \in 1..committed : Covered(p))'
      BY <1>11, <2>2, <2>3 DEF HandlerFails
    <2>5. (\A p \in 1..position :
             Covered(p) \/ \E d \in Replicas : d = assigned /\ Handling(d) /\ p = msg[d])'
      BY <1>11, <2>2, <2>3 DEF HandlerFails
    <2>6. (\A d \in Replicas : Handling(d) =>
             \A p \in 1..msg[d] : p < msg[d] => Covered(p))'
      BY <1>11, <2>2, <2>3 DEF HandlerFails
    <2>7. (\A d \in Replicas : at[d] = "commit" => Recorded(topic[msg[d]]))'
      BY <1>11, <2>2, <2>3 DEF HandlerFails
    <2> QED
      BY <2>4, <2>5, <2>6, <2>7
  <1>12. ASSUME NEW c \in Loops, FindPendingRetries(c) PROVE CoveredSoFar'
    BY <1>12 DEF FindPendingRetries
  <1>13. ASSUME NEW c \in Loops, NEW i \in Rows, NEW s \in Statuses, Retry(c, i, s)
         PROVE  CoveredSoFar'
    BY <1>13 DEF Retry
  <1>14. ASSUME NEW c \in Loops, RecordRetry(c) PROVE CoveredSoFar'
    BY <1>14 DEF RecordRetry, UpdateStatus
  <1>15. ASSUME NEW c \in Loops, RecordRetryFails(c) PROVE CoveredSoFar'
    BY <1>15 DEF RecordRetryFails
  <1>16. ASSUME NEW i \in Rows, BackOffElapses(i) PROVE CoveredSoFar'
    BY <1>16 DEF BackOffElapses
  <1>17. ASSUME NEW c \in Replicas, Restart(c) PROVE CoveredSoFar'
    <2>1. /\ at'[c] = "poll"
          /\ \A d \in Replicas : d # c => at'[d] = at[d] /\ msg'[d] = msg[d]
      BY <1>17, RestartEffect
    <2>2. /\ topic' = topic /\ committed' = committed
          /\ IF assigned = c THEN position' = 0
                             ELSE assigned' = assigned /\ position' = position
      BY <1>17 DEF Restart, Leave
    <2>3. (\A p \in 1..committed : Covered(p))'
      BY <2>1, <2>2
    <2>4. (\A p \in 1..position :
             Covered(p) \/ \E d \in Replicas : d = assigned /\ Handling(d) /\ p = msg[d])'
      BY <2>1, <2>2
    <2>5. (\A d \in Replicas : Handling(d) =>
             \A p \in 1..msg[d] : p < msg[d] => Covered(p))'
      BY <2>1, <2>2
    <2>6. (\A d \in Replicas : at[d] = "commit" => Recorded(topic[msg[d]]))'
      BY <2>1, <2>2
    <2> QED
      BY <2>3, <2>4, <2>5, <2>6
  <1>18. CASE UNCHANGED vars
    BY <1>18 DEF vars, Recorded, BookingOf
  <1> HIDE DEF CoveredSoFar, Handling, group, handler,
       table, retry, history
  <1>19. CASE \E c \in Replicas : Consumes(c) \/ Restart(c)
    BY <1>2, <1>3, <1>4, <1>5, <1>6, <1>7, <1>8, <1>9, <1>10, <1>11, <1>17, <1>19
    DEF Consumes, Handles
  <1>20. CASE \E c \in Loops : Retries(c)
    BY <1>12, <1>13, <1>14, <1>15, <1>20 DEF Retries
  <1> QED
    BY <1>1, <1>16, <1>18, <1>19, <1>20 DEF Next, Process

(* Emails are counted. *)
LEMMA MailedType == TypeOK => \A b \in Bookings : mailed[b] \in Nat
  <1>1. TypeOK => mailed \in [Bookings -> 0..2]
    BY DEF TypeOK, Many
  <1> QED
    BY <1>1

(* Emails are not taken back, and go out only from a handler or a retry.   *)
LEMMA MailedKept ==
  ASSUME TypeOK, InHandExists, [Next]_vars
  PROVE  \A b \in Bookings : mailed'[b] >= mailed[b]
  <1>1. \A b \in Bookings : mailed[b] \in Nat
    BY MailedType
  <1>2. \/ UNCHANGED mailed
        \/ \E c \in Replicas : SendConfirmationEmail(c)
        \/ \E c \in Loops, i \in Rows, s \in Statuses : Retry(c, i, s)
    BY DEF Next, Process, Consumes, Handles, Retries, Announce, Assign, ReadFails,
           Read, Commit, CommitFails, SkipDuplicate, FindNothing, Create, Record,
           HandlerFails, FindPendingRetries, RecordRetry, RecordRetryFails,
           BackOffElapses, Restart, vars
  <1>3. CASE UNCHANGED mailed
    BY <1>1, <1>3
  <1>4. ASSUME NEW c \in Replicas, SendConfirmationEmail(c)
        PROVE  \A b \in Bookings : mailed'[b] >= mailed[b]
    <2>1. topic[msg[c]] \in Bookings
      <3>1. Handling(c)
        BY <1>4 DEF SendConfirmationEmail, Goto, Handling
      <3> QED
        BY <3>1 DEF InHandExists, TypeOK
    <2> QED
      BY <1>4, <2>1, SendEffect DEF SendConfirmationEmail
  <1>5. ASSUME NEW c \in Loops, NEW i \in Rows, NEW s \in Statuses, Retry(c, i, s)
        PROVE  \A b \in Bookings : mailed'[b] >= mailed[b]
    <2>1. BookingOf(i) \in Bookings
      BY <1>5, EmailAssumption
      DEF Retry, InHandExists, Lists, Inserted, BookingOf, TypeOK, Rows, Positions
    <2> QED
      BY <1>1, <1>5, <2>1, SendEffect DEF Retry
  <1> QED
    BY <1>2, <1>3, <1>4, <1>5

(* "sent" is written only for an email that the provider has taken.       *)
LEMMA SentInHandNext ==
  TypeOK /\ InHandExists /\ SentInHand /\ [Next]_vars => SentInHand'
  <1> SUFFICES ASSUME TypeOK, InHandExists, SentInHand, [Next]_vars
               PROVE  SentInHand'
    OBVIOUS
  <1>0. /\ \A i \in Rows : Inserted(i) => BookingOf(i)' = BookingOf(i)
        /\ \A d \in Replicas : Handling(d) => topic'[msg[d]] = topic[msg[d]]
    <2>1. \A d \in Replicas : Handling(d) => msg[d] \in 1..Len(topic)
      BY DEF InHandExists
    <2> QED
      BY <2>1, RecordsKept
  <1>a. \A b \in Bookings : /\ mailed[b] \in Nat /\ mailed'[b] \in Nat
                            /\ mailed[b] > 0 => mailed'[b] > 0
    <2>1. \A b \in Bookings : mailed[b] \in Nat /\ mailed'[b] \in Nat
      <3>1. TypeOK'
        BY EmailTypeNext
      <3>2. (\A b \in Bookings : mailed[b] \in Nat)'
        BY <3>1, MailedType, PTL
      <3> QED
        BY <3>2, MailedType
    <2> QED
      BY <2>1, MailedKept
  <1>b. /\ \A i \in Rows : Inserted(i) => BookingOf(i) \in Bookings
        /\ \A d \in Replicas : Handling(d) => topic[msg[d]] \in Bookings
    BY EmailAssumption DEF TypeOK, InHandExists, BookingOf, Rows, Positions
  <1>c. \A d \in Loops, i \in Rows : retrying[d] = <<i, "sent">> => Inserted(i)
    BY EmailAssumption DEF InHandExists, Resent, Statuses
  <1>d. \A d \in Replicas : Handling(d) => <<d, msg[d]>> \in Rows
    BY EmailAssumption DEF TypeOK, InHandExists, Rows, Positions
  <1> USE <1>0, <1>a, <1>b, <1>c, <1>d DEF SentInHand, SentWasMailed, Handling, Inserted, Stages, group, handler,
       table, retry, history
  <1>1. ASSUME NEW b \in Bookings, Announce(b) PROVE SentInHand'
    BY <1>1 DEF Announce
  <1>2. ASSUME NEW c \in Replicas, Assign(c) PROVE SentInHand'
    BY <1>2 DEF Assign
  <1>3. ASSUME NEW c \in Replicas, ReadFails(c) PROVE SentInHand'
    BY <1>3, GotoEffect DEF ReadFails, Leave
  <1>4. ASSUME NEW c \in Replicas, Read(c) PROVE SentInHand'
    <2>1. (\A i \in Rows : status[i] = "sent" => mailed[BookingOf(i)] > 0)'
      BY <1>4, ReadEffect DEF Read
    <2>2. (\A d \in Replicas : at[d] = "sent" => mailed[topic[msg[d]]] > 0)'
      BY <1>4, ReadEffect DEF Read
    <2>3. (\A d \in Loops, i \in Rows :
             retrying[d] = <<i, "sent">> => mailed[BookingOf(i)] > 0)'
      BY <1>4, ReadEffect DEF Read
    <2> QED
      BY <2>1, <2>2, <2>3
  <1>5. ASSUME NEW c \in Replicas, Commit(c) PROVE SentInHand'
    BY <1>5, GotoEffect DEF Commit
  <1>6. ASSUME NEW c \in Replicas, CommitFails(c) PROVE SentInHand'
    BY <1>6, GotoEffect DEF CommitFails
  <1>7. ASSUME NEW c \in Replicas, SkipDuplicate(c) \/ FindNothing(c)
         PROVE  SentInHand'
    BY <1>7, GotoEffect DEF SkipDuplicate, FindNothing
  <1>8. ASSUME NEW c \in Replicas, Create(c) PROVE SentInHand'
    <2>1. <<c, msg[c]>> \in Rows
      BY <1>8 DEF Create, Goto
    <2>2. (\A i \in Rows : status[i] = "sent" => mailed[BookingOf(i)] > 0)'
      BY <1>8, <2>1, GotoEffect, CreateEffect DEF Create
    <2>3. (\A d \in Replicas : at[d] = "sent" => mailed[topic[msg[d]]] > 0)'
      BY <1>8, <2>1, GotoEffect, CreateEffect DEF Create
    <2>4. (\A d \in Loops, i \in Rows :
             retrying[d] = <<i, "sent">> => mailed[BookingOf(i)] > 0)'
      BY <1>8, <2>1, GotoEffect, CreateEffect DEF Create
    <2> QED
      BY <2>2, <2>3, <2>4
  <1>9. ASSUME NEW c \in Replicas, SendConfirmationEmail(c) PROVE SentInHand'
    <2>1. PICK s \in {"sent", "failed"} : Goto(c, "send", s) /\ Send(topic[msg[c]], s)
      BY <1>9 DEF SendConfirmationEmail
    <2>2. /\ at[c] = "send" /\ at'[c] = s /\ msg' = msg
          /\ \A d \in Replicas : d # c => at'[d] = at[d]
      BY <2>1, GotoEffect DEF Stages
    <2>3. topic[msg[c]] \in Bookings
      BY <2>2
    <2>4. s = "sent" => mailed'[topic[msg[c]]] > 0
      BY <2>1, <2>3, SendEffect
    <2>5. (\A i \in Rows : status[i] = "sent" => mailed[BookingOf(i)] > 0)'
      BY <1>9, <2>2, <2>4 DEF SendConfirmationEmail
    <2>6. (\A d \in Replicas : at[d] = "sent" => mailed[topic[msg[d]]] > 0)'
      BY <1>9, <2>2, <2>4 DEF SendConfirmationEmail
    <2>7. (\A d \in Loops, i \in Rows :
             retrying[d] = <<i, "sent">> => mailed[BookingOf(i)] > 0)'
      BY <1>9, <2>2, <2>4 DEF SendConfirmationEmail
    <2> QED
      BY <2>5, <2>6, <2>7
  <1>10. ASSUME NEW c \in Replicas, Record(c) PROVE SentInHand'
    <2>1. PICK s \in {"sent", "failed"} :
            Goto(c, s, "commit") /\ UpdateStatus(<<c, msg[c]>>, s)
      BY <1>10 DEF Record
    <2>2. /\ at[c] = s /\ at'[c] = "commit" /\ msg' = msg
          /\ \A d \in Replicas : d # c => at'[d] = at[d]
      BY <2>1, GotoEffect DEF Stages
    <2>3. PICK i \in Rows : i = <<c, msg[c]>>
      BY <2>2
    <2>4. /\ status'[i] = s
          /\ \A j \in Rows : j # i => status'[j] = status[j]
      BY <2>1, <2>3, UpdateEffect DEF Statuses
    <2>5. Inserted(i) /\ BookingOf(i) = topic[msg[c]]
      BY <2>2, <2>3 DEF InHandExists, Owns, BookingOf
    <2>6. s = "sent" => mailed'[BookingOf(i)'] > 0
      BY <2>2, <2>5
    <2>7. (\A k \in Rows : status[k] = "sent" => mailed[BookingOf(k)] > 0)'
      BY <1>10, <2>2, <2>4, <2>6 DEF Record
    <2>8. (\A d \in Replicas : at[d] = "sent" => mailed[topic[msg[d]]] > 0)'
      BY <1>10, <2>2, <2>4, <2>6 DEF Record
    <2>9. (\A d \in Loops, k \in Rows :
             retrying[d] = <<k, "sent">> => mailed[BookingOf(k)] > 0)'
      BY <1>10, <2>2, <2>4, <2>6 DEF Record
    <2> QED
      BY <2>7, <2>8, <2>9
  <1>11. ASSUME NEW c \in Replicas, HandlerFails(c) PROVE SentInHand'
    BY <1>11, GotoEffect DEF HandlerFails
  <1>12. ASSUME NEW c \in Loops, FindPendingRetries(c) PROVE SentInHand'
    BY <1>12 DEF FindPendingRetries
  <1>13. ASSUME NEW c \in Loops, NEW i \in Rows, NEW s \in Statuses, Retry(c, i, s)
         PROVE  SentInHand'
    <2>1. Inserted(i)
      BY <1>13, EmailAssumption DEF Retry, InHandExists, Lists
    <2>2. s = "sent" => mailed'[BookingOf(i)] > 0
      BY <1>13, <2>1, SendEffect DEF Retry, StatusAfterRefusal
    <2>3. \A d \in Loops, j \in Rows :
            retrying'[d] = <<j, "sent">> =>
              retrying[d] = <<j, "sent">> \/ (j = i /\ s = "sent")
      BY <1>13 DEF Retry, TypeOK
    <2>4. (\A k \in Rows : status[k] = "sent" => mailed[BookingOf(k)] > 0)'
      BY <1>13, <2>1, <2>2, <2>3 DEF Retry, Statuses
    <2>5. (\A d \in Replicas : at[d] = "sent" => mailed[topic[msg[d]]] > 0)'
      BY <1>13, <2>1, <2>2, <2>3 DEF Retry, Statuses
    <2>6. (\A d \in Loops, k \in Rows :
             retrying[d] = <<k, "sent">> => mailed[BookingOf(k)] > 0)'
      BY <1>13, <2>1, <2>2, <2>3 DEF Retry, Statuses
    <2> QED
      BY <2>4, <2>5, <2>6
  <1>14. ASSUME NEW c \in Loops, RecordRetry(c) PROVE SentInHand'
    <2>1. PICK i \in Rows, s \in Statuses : retrying[c] = <<i, s>>
      BY <1>14, RetryingType DEF RecordRetry
    <2>2. /\ status'[i] = s /\ \A j \in Rows : j # i => status'[j] = status[j]
      BY <1>14, <2>1, UpdateEffect DEF RecordRetry
    <2>3. \A d \in Loops, j \in Rows :
            retrying'[d] = <<j, "sent">> => retrying[d] = <<j, "sent">>
      BY <1>14, ForgetEffect DEF RecordRetry, Statuses
    <2>4. (\A k \in Rows : status[k] = "sent" => mailed[BookingOf(k)] > 0)'
      BY <1>14, <2>1, <2>2, <2>3 DEF RecordRetry, Statuses
    <2>5. (\A d \in Replicas : at[d] = "sent" => mailed[topic[msg[d]]] > 0)'
      BY <1>14, <2>1, <2>2, <2>3 DEF RecordRetry, Statuses
    <2>6. (\A d \in Loops, k \in Rows :
             retrying[d] = <<k, "sent">> => mailed[BookingOf(k)] > 0)'
      BY <1>14, <2>1, <2>2, <2>3 DEF RecordRetry, Statuses
    <2> QED
      BY <2>4, <2>5, <2>6
  <1>15. ASSUME NEW c \in Loops, RecordRetryFails(c) PROVE SentInHand'
    <2>1. \A d \in Loops, j \in Rows :
            retrying'[d] = <<j, "sent">> => retrying[d] = <<j, "sent">>
      BY <1>15, ForgetEffect DEF RecordRetryFails, Statuses
    <2> QED
      BY <1>15, <2>1 DEF RecordRetryFails, Statuses
  <1>16. ASSUME NEW i \in Rows, BackOffElapses(i) PROVE SentInHand'
    BY <1>16 DEF BackOffElapses
  <1>17. ASSUME NEW c \in Replicas, Restart(c) PROVE SentInHand'
    <2>1. \A d \in Loops, j \in Rows :
            retrying'[d] = <<j, "sent">> => retrying[d] = <<j, "sent">>
      BY <1>17, RestartEffect DEF Statuses
    <2>2. (\A i \in Rows : status[i] = "sent" => mailed[BookingOf(i)] > 0)'
      BY <1>17, <2>1, RestartEffect DEF Restart, Statuses
    <2>3. (\A d \in Replicas : at[d] = "sent" => mailed[topic[msg[d]]] > 0)'
      BY <1>17, <2>1, RestartEffect DEF Restart, Statuses
    <2>4. (\A d \in Loops, i \in Rows :
             retrying[d] = <<i, "sent">> => mailed[BookingOf(i)] > 0)'
      BY <1>17, <2>1, RestartEffect DEF Restart, Statuses
    <2> QED
      BY <2>2, <2>3, <2>4
  <1>18. CASE UNCHANGED vars
    BY <1>18 DEF vars
  <1> HIDE DEF SentInHand, SentWasMailed, Handling, Inserted, Stages, group, handler,
       table, retry, history
  <1>19. CASE \E c \in Replicas : Consumes(c) \/ Restart(c)
    BY <1>2, <1>3, <1>4, <1>5, <1>6, <1>7, <1>8, <1>9, <1>10, <1>11, <1>17, <1>19
    DEF Consumes, Handles
  <1>20. CASE \E c \in Loops : Retries(c)
    BY <1>12, <1>13, <1>14, <1>15, <1>20 DEF Retries
  <1> QED
    BY <1>1, <1>16, <1>18, <1>19, <1>20 DEF Next, Process

(* Rows are inserted by Create only. *)
LEMMA NewRows ==
  ASSUME TypeOK, InHandExists, [Next]_vars,
         \A c \in Replicas : ~Create(c)
  PROVE  /\ \A i \in Rows : Inserted(i)' => Inserted(i)
         /\ \A b \in Bookings : Recorded(b)' => Recorded(b)
  <1>1. \A c \in Replicas : Handling(c) => <<c, msg[c]>> \in Rows
    BY EmailAssumption DEF TypeOK, InHandExists, Positions, Rows
  <1>2. \/ UNCHANGED status
        \/ \E c \in Replicas : Record(c)
        \/ \E c \in Loops : RecordRetry(c)
    BY DEF Next, Process, Consumes, Handles, Retries, Announce, Assign, ReadFails,
           Read, Commit, CommitFails, SkipDuplicate, FindNothing,
           SendConfirmationEmail, HandlerFails, FindPendingRetries, Retry,
           RecordRetryFails, BackOffElapses, Restart, vars, table
  <1>3. ASSUME NEW c \in Replicas, Record(c)
        PROVE  \A i \in Rows : Inserted(i)' => Inserted(i)
    <2>1. PICK s \in {"sent", "failed"} :
            at[c] = s /\ UpdateStatus(<<c, msg[c]>>, s)
      BY <1>3 DEF Record, Goto
    <2>2. <<c, msg[c]>> \in Rows /\ s \in Statuses
      BY <1>1, <2>1 DEF Handling, Statuses
    <2>3. Inserted(<<c, msg[c]>>)
      BY <2>1, <2>2 DEF InHandExists, Owns
    <2> QED
      BY <2>1, <2>2, <2>3, UpdateEffect DEF Inserted
  <1>4. ASSUME NEW c \in Loops, RecordRetry(c)
        PROVE  \A i \in Rows : Inserted(i)' => Inserted(i)
    <2>1. PICK i \in Rows, s \in Statuses : retrying[c] = <<i, s>>
      BY <1>4, RetryingType DEF RecordRetry
    <2>2. Inserted(i)
      BY <2>1, EmailAssumption DEF InHandExists, Resent
    <2> QED
      BY <1>4, <2>1, <2>2, UpdateEffect DEF RecordRetry, Inserted
  <1>5. \A i \in Rows : Inserted(i)' => Inserted(i)
    BY <1>2, <1>3, <1>4 DEF Inserted
  <1>6. \A i \in Rows : Inserted(i) => BookingOf(i)' = BookingOf(i)
    BY RecordsKept
  <1> QED
    BY <1>5, <1>6 DEF Recorded, Inserted

(* The handlers' messages are those of the topic, whatever is announced. *)
LEMMA HandledBooking ==
  ASSUME TypeOK, InHandExists, [Next]_vars, NEW c \in Replicas, Handling(c)
  PROVE  /\ topic'[msg[c]] = topic[msg[c]] /\ topic[msg[c]] \in Bookings
         /\ <<c, msg[c]>> \in Rows
  <1>1. msg[c] \in 1..Len(topic) /\ msg[c] \in Positions
    BY EmailAssumption DEF TypeOK, InHandExists, Positions
  <1>2. topic[msg[c]] \in Bookings
    BY <1>1 DEF TypeOK
  <1> QED
    BY <1>1, <1>2, RecordsKept DEF Rows

(* One handler runs at a time, unless its replica is evicted; first without *)
(* the step that makes a booking recorded, then with it.                   *)
LEMMA OneHandlerKept ==
  TypeOK /\ InHandExists /\ OneHandler /\ [Next]_vars
    /\ (\A c \in Replicas : ~Create(c)) => OneHandler'
  <1> SUFFICES ASSUME TypeOK, InHandExists, OneHandler, (\A c \in Replicas : ~Create(c)), [Next]_vars
               PROVE  OneHandler'
    OBVIOUS
  <1>0. evicted => evicted'
    BY RecordsKept
  <1>a. \A d \in Replicas : Handling(d) =>
          topic'[msg[d]] = topic[msg[d]] /\ topic[msg[d]] \in Bookings
    BY HandledBooking
  <1>b. \A b \in Bookings : Recorded(b)' => Recorded(b)
    BY NewRows
  <1> USE <1>0, <1>a, <1>b DEF OneHandler, Handling, Stages, group, handler,
       table, retry, history
  <1>1. ASSUME NEW b \in Bookings, Announce(b) PROVE OneHandler'
    BY <1>1 DEF Announce
  <1>2. ASSUME NEW c \in Replicas, Assign(c) PROVE OneHandler'
    BY <1>2 DEF Assign
  <1>3. ASSUME NEW c \in Replicas, ReadFails(c) PROVE OneHandler'
    BY <1>3, GotoEffect DEF ReadFails, Leave
  <1>4. ASSUME NEW c \in Replicas, Read(c) PROVE OneHandler'
    BY <1>4 DEF Read
  <1>5. ASSUME NEW c \in Replicas, Commit(c) PROVE OneHandler'
    BY <1>5, GotoEffect DEF Commit
  <1>6. ASSUME NEW c \in Replicas, CommitFails(c) PROVE OneHandler'
    BY <1>6, GotoEffect DEF CommitFails
  <1>7. ASSUME NEW c \in Replicas, SkipDuplicate(c) \/ FindNothing(c)
         PROVE  OneHandler'
    BY <1>7, GotoEffect DEF SkipDuplicate, FindNothing
  <1>8. ASSUME NEW c \in Replicas, Create(c) PROVE OneHandler'
    BY <1>8
  <1>9. ASSUME NEW c \in Replicas, SendConfirmationEmail(c) PROVE OneHandler'
    BY <1>9, GotoEffect DEF SendConfirmationEmail
  <1>10. ASSUME NEW c \in Replicas, Record(c) PROVE OneHandler'
    <2>1. PICK s \in {"sent", "failed"} : Goto(c, s, "commit")
      BY <1>10 DEF Record
    <2>2. /\ at[c] = s /\ at'[c] = "commit"
          /\ \A d \in Replicas : d # c => at'[d] = at[d]
      BY <2>1, GotoEffect DEF Stages
    <2> QED
      BY <1>0, <1>10, <2>2 DEF Record
  <1>11. ASSUME NEW c \in Replicas, HandlerFails(c) PROVE OneHandler'
    BY <1>11, GotoEffect DEF HandlerFails
  <1>12. ASSUME NEW c \in Loops, FindPendingRetries(c) PROVE OneHandler'
    BY <1>12 DEF FindPendingRetries
  <1>13. ASSUME NEW c \in Loops, NEW i \in Rows, NEW s \in Statuses, Retry(c, i, s)
         PROVE  OneHandler'
    BY <1>13 DEF Retry
  <1>14. ASSUME NEW c \in Loops, RecordRetry(c) PROVE OneHandler'
    BY <1>14 DEF RecordRetry, UpdateStatus
  <1>15. ASSUME NEW c \in Loops, RecordRetryFails(c) PROVE OneHandler'
    BY <1>15 DEF RecordRetryFails
  <1>16. ASSUME NEW i \in Rows, BackOffElapses(i) PROVE OneHandler'
    BY <1>16 DEF BackOffElapses
  <1>17. ASSUME NEW c \in Replicas, Restart(c) PROVE OneHandler'
    BY <1>17, GotoEffect DEF Restart, Leave
  <1>18. CASE UNCHANGED vars
    BY <1>18 DEF vars
  <1> HIDE DEF OneHandler, Handling, Stages, group, handler,
       table, retry, history
  <1>19. CASE \E c \in Replicas : Consumes(c) \/ Restart(c)
    BY <1>2, <1>3, <1>4, <1>5, <1>6, <1>7, <1>8, <1>9, <1>10, <1>11, <1>17, <1>19
    DEF Consumes, Handles
  <1>20. CASE \E c \in Loops : Retries(c)
    BY <1>12, <1>13, <1>14, <1>15, <1>20 DEF Retries
  <1> QED
    BY <1>1, <1>16, <1>18, <1>19, <1>20 DEF Next, Process

(* While nobody is evicted the handlers run one at a time. *)
LEMMA OneHandlerNext ==
  TypeOK /\ InHandExists /\ OneHandler /\ [Next]_vars => OneHandler'
  <1> SUFFICES ASSUME TypeOK, InHandExists, OneHandler, NEW c \in Replicas, Create(c)
               PROVE  OneHandler'
    BY OneHandlerKept
  <1>1. /\ at[c] = "create" /\ at'[c] = "send" /\ assigned' = assigned
        /\ evicted' = evicted
        /\ \A d \in Replicas : d # c => at'[d] = at[d]
    BY GotoEffect DEF Create, Stages, group, history
  <1> QED
    BY <1>1 DEF OneHandler, Handling

(* The row that Create inserts is the first one of its booking.            *)
LEMMA OneRowNext ==
  TypeOK /\ InHandExists /\ OneHandler /\ OneRowPerBooking /\ [Next]_vars
    => OneRowPerBooking'
  <1> SUFFICES ASSUME TypeOK, InHandExists, OneHandler, OneRowPerBooking,
                      [Next]_vars, ~evicted',
                      NEW i \in Rows, NEW j \in Rows,
                      Inserted(i)', Inserted(j)', BookingOf(i)' = BookingOf(j)'
               PROVE  i = j
    BY DEF OneRowPerBooking, Inserted
  <1>1. /\ ~evicted
        /\ \A k \in Rows : Inserted(k) => BookingOf(k)' = BookingOf(k)
    BY RecordsKept
  <1>2. CASE \A c \in Replicas : ~Create(c)
    BY <1>1, <1>2, NewRows DEF OneRowPerBooking, Inserted
  <1>3. ASSUME NEW c \in Replicas, Create(c)
        PROVE  i = j
    <2>1. at[c] = "create" /\ topic' = topic
      BY <1>3 DEF Create, Goto
    <2>2. PICK k \in Rows : k = <<c, msg[c]>>
      BY <2>1, HandledBooking DEF Handling
    <2>3. \A l \in Rows : l # k => status'[l] = status[l]
      BY <1>3, <2>2, CreateEffect
    <2>4. ~Recorded(topic[msg[c]])
      BY <1>1, <2>1 DEF OneHandler
    <2>5. \A l \in Rows : Inserted(l) => BookingOf(l) # BookingOf(k)
      BY <2>2, <2>4 DEF Recorded, Inserted, BookingOf
    <2>6. BookingOf(k)' = BookingOf(k)
      BY <2>1 DEF BookingOf
    <2> QED
      BY <1>1, <2>3, <2>5, <2>6 DEF OneRowPerBooking, Inserted
  <1> QED
    BY <1>2, <1>3

(* A row nobody touches stays undisturbed. *)
LEMMA HandsOff ==
  ASSUME UNCHANGED <<topic, mailed, status>>, NEW i \in Rows, UndisturbedRow(i),
         \A d \in Replicas : /\ Owns(d, i)' => Owns(d, i)
                             /\ Lists(d, i)' => Lists(d, i)
                             /\ Resent(d, i)' => Resent(d, i)
                             /\ at[d] = "sent" /\ Owns(d, i)
                                  => at'[d] = "sent" /\ Owns(d, i)',
         \A d \in Loops : retrying[d] = <<i, "sent">> => retrying'[d] = <<i, "sent">>
  PROVE  UndisturbedRow(i)'
  BY DEF UndisturbedRow, BookingOf

(* An email goes to a recorded booking. *)
LEMMA UnrecordedNotMailed ==
  ASSUME TypeOK, InHandExists, OnlyRecordedMailed, [Next]_vars
  PROVE  OnlyRecordedMailed'
  <1>1. \/ UNCHANGED mailed
        \/ \E c \in Replicas : SendConfirmationEmail(c)
        \/ \E c \in Loops, i \in Rows, s \in Statuses : Retry(c, i, s)
    BY DEF Next, Process, Consumes, Handles, Retries, Announce, Assign, ReadFails,
           Read, Commit, CommitFails, SkipDuplicate, FindNothing, Create, Record,
           HandlerFails, FindPendingRetries, RecordRetry, RecordRetryFails,
           BackOffElapses, Restart, vars
  <1>2. ASSUME NEW b \in Bookings, ~Recorded(b) PROVE mailed'[b] = 0
    <2>1. \A i \in Rows : Inserted(i) => BookingOf(i) # b
      BY <1>2 DEF Recorded, Inserted
    <2>2. ASSUME NEW c \in Replicas, SendConfirmationEmail(c)
          PROVE  mailed'[b] = mailed[b]
      <3>1. at[c] = "send"
        BY <2>2 DEF SendConfirmationEmail, Goto
      <3>2. <<c, msg[c]>> \in Rows /\ topic[msg[c]] \in Bookings
        BY <3>1, HandledBooking DEF Handling
      <3>3. Inserted(<<c, msg[c]>>)
        BY <3>1, <3>2 DEF InHandExists, Owns
      <3>4. topic[msg[c]] # b
        BY <2>1, <3>2, <3>3 DEF BookingOf
      <3> QED
        BY <2>2, <3>2, <3>4, SendEffect DEF SendConfirmationEmail
    <2>3. ASSUME NEW c \in Loops, NEW i \in Rows, NEW s \in Statuses, Retry(c, i, s)
          PROVE  mailed'[b] = mailed[b]
      <3>1. Inserted(i)
        BY <2>3, EmailAssumption DEF Retry, InHandExists, Lists
      <3>2. BookingOf(i) # b /\ BookingOf(i) \in Bookings
        BY <2>1, <3>1 DEF InHandExists, BookingOf, TypeOK, Rows, Positions
      <3> QED
        BY <2>3, <3>2, SendEffect DEF Retry
    <2> QED
      BY <1>1, <1>2, <2>2, <2>3 DEF OnlyRecordedMailed
  <1> QED
    BY <1>2, RecordsKept DEF OnlyRecordedMailed

(* Two rows in the table are of two bookings, while nobody is evicted. *)
LEMMA OtherRow ==
  ASSUME OneRowPerBooking, ~evicted, NEW i \in Rows, NEW j \in Rows,
         Inserted(i), Inserted(j), BookingOf(i) = BookingOf(j)
  PROVE  i = j
  BY DEF OneRowPerBooking, Inserted

(* The handler of c moves, and does not own a row before or after. *)
LEMMA HandlerElsewhere ==
  ASSUME TypeOK, NEW c \in Replicas, NEW from, NEW to \in Stages, Goto(c, from, to),
         from \notin {"send", "sent", "failed"}, to \notin {"send", "sent", "failed"}
  PROVE  \A d \in Replicas, i \in Rows :
           /\ Owns(d, i)' <=> Owns(d, i)
           /\ at[d] = "sent" /\ Owns(d, i) => at'[d] = "sent"
  BY GotoEffect DEF Owns

(***************************************************************************)
(* What a step makes of a row that is in the table, if its booking is not  *)
(* doubtful afterwards.                                                    *)
(***************************************************************************)
LEMMA RowNext ==
  ASSUME TypeOK, InHandExists, OneHandler, OneRowPerBooking, OneEmail,
         [Next]_vars, ~evicted',
         NEW i \in Rows, Inserted(i), BookingOf(i) \notin doubtful'
  PROVE  UndisturbedRow(i)' /\ mailed'[BookingOf(i)] <= 1
  <1> DEFINE b == BookingOf(i)
             Kept == UndisturbedRow(i)' /\ mailed'[BookingOf(i)] <= 1
  <1>0. /\ ~evicted /\ b \notin doubtful /\ b \in Bookings
        /\ UndisturbedRow(i) /\ mailed[b] <= 1 /\ mailed[b] \in Nat
        /\ BookingOf(i)' = BookingOf(i)
    <2>1. ~evicted /\ b \notin doubtful /\ BookingOf(i)' = BookingOf(i)
      BY RecordsKept
    <2>2. b \in Bookings
      BY DEF InHandExists, BookingOf, TypeOK, Rows, Positions
    <2> QED
      BY <2>1, <2>2, MailedType DEF OneEmail
  <1> HIDE DEF b
  <1> USE <1>0
  <1>1. ASSUME NEW a \in Bookings, Announce(a) PROVE Kept
    <2>1. /\ mailed' = mailed /\ status' = status /\ retrying' = retrying
          /\ \A d \in Replicas : /\ Owns(d, i)' <=> Owns(d, i)
                                 /\ Lists(d, i)' <=> Lists(d, i)
                                 /\ Resent(d, i)' <=> Resent(d, i)
          /\ at' = at
      BY <1>1 DEF Announce, handler, table, retry, Owns, Lists, Resent
    <2> QED
      BY <2>1 DEF UndisturbedRow, b
  <1>2. ASSUME NEW c \in Replicas,
               \/ Assign(c) \/ ReadFails(c) \/ Read(c) \/ Commit(c)
               \/ CommitFails(c) \/ SkipDuplicate(c) \/ FindNothing(c)
        PROVE  Kept
    <2>1. UNCHANGED <<topic, mailed, status, todo, retrying>>
      BY <1>2 DEF Assign, ReadFails, Read, Commit, CommitFails, SkipDuplicate,
                  FindNothing, table, retry
    <2>2. \A d \in Replicas : /\ Owns(d, i)' <=> Owns(d, i)
                              /\ at[d] = "sent" /\ Owns(d, i) => at'[d] = "sent"
      <3>1. CASE Assign(c)
        BY <3>1 DEF Assign, handler, Owns
      <3>2. CASE Read(c)
        BY <3>2, ReadEffect DEF Owns
      <3>3. CASE ReadFails(c) \/ Commit(c) \/ CommitFails(c)
        BY <3>3, HandlerElsewhere DEF ReadFails, Commit, CommitFails, Stages
      <3>4. CASE SkipDuplicate(c) \/ FindNothing(c)
        BY <3>4, HandlerElsewhere DEF SkipDuplicate, FindNothing, Stages
      <3> QED
        BY <1>2, <3>1, <3>2, <3>3, <3>4
    <2> QED
      BY <2>1, <2>2, HandsOff DEF Lists, Resent, b
  <1>3. ASSUME NEW c \in Replicas, Create(c) PROVE Kept
    <2>1. /\ at[c] = "create" /\ at'[c] = "send" /\ msg' = msg
          /\ \A d \in Replicas : d # c => at'[d] = at[d]
          /\ UNCHANGED <<topic, mailed, todo, retrying>>
      BY <1>3, GotoEffect DEF Create, Stages, retry
    <2>2. PICK k \in Rows : k = <<c, msg[c]>>
      BY <2>1, HandledBooking DEF Handling
    <2>3. k # i
      BY <2>1, <2>2 DEF OneHandler, Recorded, Inserted, BookingOf
    <2>4. status'[i] = status[i]
      BY <1>3, <2>2, <2>3, CreateEffect
    <2> QED
      BY <2>1, <2>2, <2>3, <2>4 DEF UndisturbedRow, Owns, Lists, Resent, b
  <1>4. ASSUME NEW c \in Replicas, SendConfirmationEmail(c) PROVE Kept
    <2>1. PICK s \in {"sent", "failed"} : Goto(c, "send", s) /\ Send(topic[msg[c]], s)
      BY <1>4 DEF SendConfirmationEmail
    <2>2. /\ at[c] = "send" /\ at'[c] = s /\ msg' = msg
          /\ \A d \in Replicas : d # c => at'[d] = at[d]
      BY <2>1, GotoEffect DEF Stages
    <2>3. UNCHANGED <<topic, status, todo, retrying>>
      BY <1>4 DEF SendConfirmationEmail, table, retry
    <2>4. PICK k \in Rows : /\ k = <<c, msg[c]>> /\ Owns(c, k) /\ Inserted(k)
                            /\ BookingOf(k) = topic[msg[c]] /\ BookingOf(k) \in Bookings
      BY <2>2, HandledBooking DEF Handling, InHandExists, Owns, BookingOf
    <2>5. \A d \in Replicas : Owns(d, i)' <=> Owns(d, i)
      BY <2>2 DEF Owns
    <2>6. CASE k = i
      <3>1. mailed[b] = 0
        BY <2>2, <2>4, <2>6, EmailAssumption
        DEF UndisturbedRow, Owns, Resent, Statuses, b
      <3>2. IF s = "sent" THEN mailed'[b] = 1 ELSE mailed'[b] = 0
        BY <2>1, <2>4, <2>6, <3>1, SendEffect DEF b
      <3> QED
        BY <2>2, <2>3, <2>4, <2>5, <2>6, <3>2
        DEF UndisturbedRow, Lists, Resent, b
    <2>7. CASE k # i
      <3>1. mailed'[b] = mailed[b]
        BY <2>1, <2>4, <2>7, OtherRow, SendEffect DEF b
      <3>2. ~Owns(c, i)
        BY <2>4, <2>7 DEF Owns
      <3> QED
        BY <2>2, <2>3, <2>5, <3>1, <3>2 DEF UndisturbedRow, Lists, Resent, b
    <2> QED
      BY <2>6, <2>7
  <1>5. ASSUME NEW c \in Replicas, Record(c) PROVE Kept
    <2>1. PICK s \in {"sent", "failed"} :
            Goto(c, s, "commit") /\ UpdateStatus(<<c, msg[c]>>, s)
      BY <1>5 DEF Record
    <2>2. /\ at[c] = s /\ at'[c] = "commit" /\ msg' = msg
          /\ \A d \in Replicas : d # c => at'[d] = at[d]
      BY <2>1, GotoEffect DEF Stages
    <2>3. UNCHANGED <<topic, mailed, todo, retrying>>
      BY <1>5 DEF Record, retry
    <2>4. PICK k \in Rows : k = <<c, msg[c]>> /\ Owns(c, k)
      BY <2>2, HandledBooking DEF Handling, Owns
    <2>5. /\ status'[k] = s
          /\ \A j \in Rows : j # k => status'[j] = status[j]
      BY <2>1, <2>4, UpdateEffect DEF Statuses
    <2>6. \A d \in Replicas : Owns(d, i)' <=> Owns(d, i) /\ d # c
      BY <2>2 DEF Owns
    <2>7. CASE k = i
      <3>1. \A d \in Replicas : ~Owns(d, i)' /\ ~Lists(d, i)' /\ ~Resent(d, i)'
        BY <2>3, <2>4, <2>6, <2>7 DEF UndisturbedRow, Lists, Resent, Owns
      <3>2. mailed[b] > 0 => s = "sent"
        BY <2>2, <2>4, <2>7, EmailAssumption
        DEF UndisturbedRow, Owns, Resent, Statuses, b
      <3> QED
        BY <2>3, <2>5, <2>7, <3>1, <3>2 DEF UndisturbedRow, b
    <2>8. CASE k # i
      <3>1. ~Owns(c, i)
        BY <2>4, <2>8 DEF Owns
      <3> QED
        BY <2>2, <2>3, <2>5, <2>6, <2>8, <3>1 DEF UndisturbedRow, Lists, Resent, b
    <2> QED
      BY <2>7, <2>8
  <1>6. ASSUME NEW c \in Replicas, HandlerFails(c) PROVE Kept
    <2>1. PICK s \in {"check", "create", "send", "sent", "failed"} : Goto(c, s, "poll")
      BY <1>6 DEF HandlerFails
    <2>2. /\ at[c] = s /\ at'[c] = "poll"
          /\ \A d \in Replicas : d # c => at'[d] = at[d] /\ msg'[d] = msg[d]
      BY <2>1, GotoEffect DEF Stages
    <2>3. UNCHANGED <<topic, mailed, status, todo, retrying>>
      BY <1>6 DEF HandlerFails, table, retry
    <2>4. \A d \in Replicas : Owns(d, i)' <=> Owns(d, i) /\ d # c
      BY <2>2 DEF Owns
    <2>5. ~(at[c] = "sent" /\ Owns(c, i))
      <3>1. SUFFICES ASSUME at[c] = "sent", Owns(c, i) PROVE FALSE
        OBVIOUS
      <3>2. b = topic[msg[c]]
        BY <3>1 DEF Owns, BookingOf, b
      <3>3. b \in UnrecordedByHandler(c)
        BY <3>1, <3>2 DEF UnrecordedByHandler
      <3> QED
        BY <1>6, <3>3 DEF HandlerFails, Doubt, b
    <2> QED
      BY <2>2, <2>3, <2>4, <2>5, HandsOff DEF Lists, Resent, b
  <1>7. ASSUME NEW c \in Loops, FindPendingRetries(c) PROVE Kept
    <2> DEFINE rows == {k \in due : status[k] \in {"pending", "failed"}}
    <2>1. /\ todo[c] = {} /\ retrying[c] = Nobody
          /\ todo' = [todo EXCEPT ![c] = rows]
          /\ UNCHANGED <<topic, mailed, status, retrying, at, msg>>
          /\ Doubt({BookingOf(k) : k \in rows \cap InOtherHands(c)})
      BY <1>7 DEF FindPendingRetries, handler, table
    <2>2. /\ \A d \in Replicas : d # c => (Lists(d, i)' <=> Lists(d, i))
          /\ Lists(c, i)' <=> i \in rows
          /\ \A d \in Replicas : Owns(d, i)' <=> Owns(d, i)
          /\ \A d \in Replicas : Resent(d, i)' <=> Resent(d, i)
      BY <2>1 DEF TypeOK, Lists, Owns, Resent
    <2>3. ~Lists(c, i) /\ ~Resent(c, i)
      BY <2>1, EmailAssumption DEF Lists, Resent
    <2>4. CASE i \in rows
      <3>1. i \notin InOtherHands(c)
        BY <2>1, <2>4 DEF Doubt, b
      <3>2. \A d \in Replicas : ~Owns(d, i) /\ ~Lists(d, i) /\ ~Resent(d, i)
        BY <2>3, <3>1 DEF InOtherHands, Owns, Lists, Resent
      <3>3. status[i] \in {"pending", "failed"}
        BY <2>4
      <3> QED
        BY <2>1, <2>2, <3>2, <3>3, EmailAssumption DEF UndisturbedRow, b
    <2>5. CASE i \notin rows
      BY <2>1, <2>2, <2>3, <2>5, EmailAssumption, HandsOff DEF b
    <2> QED
      BY <2>4, <2>5
  <1>8. ASSUME NEW c \in Loops, NEW k \in Rows, NEW s \in Statuses, Retry(c, k, s)
        PROVE  Kept
    <2>1. /\ k \in todo[c] /\ retrying[c] = Nobody
          /\ todo' = [todo EXCEPT ![c] = @ \ {k}]
          /\ retrying' = [retrying EXCEPT ![c] = <<k, s>>]
          /\ UNCHANGED <<topic, status, at, msg>>
      BY <1>8 DEF Retry, handler, table
    <2>2. \/ s # "sent" /\ UNCHANGED <<mailed, doubtful>>
          \/ Send(BookingOf(k), s)
      BY <1>8 DEF Retry
    <2>3. Inserted(k) /\ Lists(c, k)
      BY <2>1, EmailAssumption DEF InHandExists, Lists
    <2>4. /\ \A d \in Replicas : d # c => (Lists(d, i)' <=> Lists(d, i))
          /\ Lists(c, i)' <=> Lists(c, i) /\ i # k
          /\ \A d \in Replicas : Owns(d, i)' <=> Owns(d, i)
          /\ \A d \in Replicas : d # c => (Resent(d, i)' <=> Resent(d, i))
          /\ \A d \in Loops : d # c => retrying'[d] = retrying[d]
          /\ retrying'[c] = <<k, s>>
      BY <2>1 DEF TypeOK, Lists, Owns, Resent
    <2>5. ~Resent(c, i)
      BY <2>1, EmailAssumption DEF Resent
    <2>6. CASE k = i
      <3>1. /\ status[i] # "sent"
            /\ \A d \in Replicas : ~Owns(d, i) /\ ~Resent(d, i)
            /\ \A d \in Replicas : d # c => ~Lists(d, i)
        BY <2>3, <2>6, EmailAssumption DEF UndisturbedRow
      <3>2. mailed[b] = 0
        BY <3>1, EmailAssumption DEF UndisturbedRow, Resent, Statuses, b
      <3>3. IF s = "sent" THEN mailed'[b] = 1 ELSE mailed'[b] = 0
        BY <2>2, <2>6, <3>2, SendEffect DEF b
      <3> QED
        BY <2>1, <2>4, <2>6, <3>1, <3>3, EmailAssumption DEF UndisturbedRow, b
    <2>7. CASE k # i
      <3>1. BookingOf(k) # b /\ BookingOf(k) \in Bookings
        BY <2>3, <2>7, OtherRow
        DEF InHandExists, BookingOf, TypeOK, Rows, Positions, b
      <3>2. mailed'[b] = mailed[b]
        BY <2>2, <3>1, SendEffect
      <3>3. \A d \in Replicas : /\ Lists(d, i)' <=> Lists(d, i)
                                /\ Resent(d, i)' <=> Resent(d, i)
        BY <2>4, <2>5, <2>7 DEF Resent
      <3>4. \A d \in Loops : retrying[d] = <<i, "sent">> => d # c
        BY <2>1, EmailAssumption DEF Statuses
      <3>5. \A d \in Loops : retrying[d] = <<i, "sent">> => retrying'[d] = <<i, "sent">>
        BY <2>4, <3>4
      <3> QED
        BY <2>1, <2>4, <3>2, <3>3, <3>5 DEF UndisturbedRow, b
    <2> QED
      BY <2>6, <2>7
  <1>9. ASSUME NEW c \in Loops, RecordRetry(c) PROVE Kept
    <2>1. PICK k \in Rows, s \in Statuses : retrying[c] = <<k, s>>
      BY <1>9, RetryingType DEF RecordRetry
    <2>2. /\ status'[k] = s
          /\ \A j \in Rows : j # k => status'[j] = status[j]
      BY <1>9, <2>1, UpdateEffect DEF RecordRetry
    <2>3. UNCHANGED <<topic, mailed, todo, at, msg>>
      BY <1>9 DEF RecordRetry, handler
    <2>4. /\ \A d \in Replicas : Owns(d, i)' <=> Owns(d, i)
          /\ \A d \in Replicas : Lists(d, i)' <=> Lists(d, i)
          /\ \A d \in Replicas : Resent(d, i)' => d # c /\ Resent(d, i)
      BY <1>9, <2>3, ForgetEffect DEF RecordRetry, Owns, Lists
    <2>8. \A d \in Loops : d # c => retrying'[d] = retrying[d]
      BY <1>9 DEF RecordRetry, TypeOK
    <2>5. Resent(c, k)
      BY <2>1 DEF Resent
    <2>6. CASE k = i
      <3>1. \A d \in Replicas : ~Owns(d, i)' /\ ~Lists(d, i)' /\ ~Resent(d, i)'
        BY <2>4, <2>5, <2>6, EmailAssumption DEF UndisturbedRow
      <3>2. mailed[b] > 0 => s = "sent"
        BY <2>1, <2>5, <2>6, EmailAssumption
        DEF UndisturbedRow, Resent, Statuses, b
      <3> QED
        BY <2>2, <2>3, <2>6, <3>1, <3>2, EmailAssumption DEF UndisturbedRow, b
    <2>7. CASE k # i
      <3>1. retrying[c] # <<i, "sent">> /\ status'[i] = status[i]
        BY <2>1, <2>2, <2>7
      <3> QED
        BY <2>3, <2>4, <2>8, <3>1, EmailAssumption DEF UndisturbedRow, b
    <2> QED
      BY <2>6, <2>7
  <1>10. ASSUME NEW c \in Loops, RecordRetryFails(c) PROVE Kept
    <2>1. UNCHANGED <<topic, mailed, status, todo, at, msg>>
      BY <1>10 DEF RecordRetryFails, handler, table
    <2>2. \A d \in Replicas : Resent(d, i)' => Resent(d, i)
      BY <1>10, ForgetEffect DEF RecordRetryFails
    <2>4. \A d \in Loops : d # c => retrying'[d] = retrying[d]
      BY <1>10 DEF RecordRetryFails, TypeOK
    <2>3. retrying[c] # <<i, "sent">>
      <3>1. SUFFICES ASSUME retrying[c] = <<i, "sent">> PROVE FALSE
        OBVIOUS
      <3>2. b \in UnrecordedByRetry(c)
        BY <3>1 DEF UnrecordedByRetry, b
      <3> QED
        BY <1>10, <3>2 DEF RecordRetryFails, Doubt, b
    <2> QED
      BY <2>1, <2>2, <2>3, <2>4, HandsOff DEF Owns, Lists, b
  <1>11. ASSUME NEW k \in Rows, BackOffElapses(k) PROVE Kept
    <2>1. /\ UNCHANGED <<topic, mailed, status, retry, at, msg>>
      BY <1>11 DEF BackOffElapses, handler
    <2> QED
      BY <2>1, HandsOff DEF Owns, Lists, Resent, retry, b
  <1>12. ASSUME NEW c \in Replicas, Restart(c) PROVE Kept
    <2>1. /\ at'[c] = "poll"
          /\ \A d \in Replicas : d # c => at'[d] = at[d] /\ msg'[d] = msg[d]
          /\ \A d \in Replicas : Lists(d, i)' => Lists(d, i)
          /\ \A d \in Replicas : Resent(d, i)' => Resent(d, i)
      BY <1>12, RestartEffect
    <2>2. /\ UNCHANGED <<topic, mailed, status>>
          /\ \A d \in Loops : d # c => retrying'[d] = retrying[d]
      BY <1>12 DEF Restart, table, TypeOK
    <2>3. UnrecordedByHandler(c) \cup UnrecordedByRetry(c) \subseteq doubtful'
      BY <1>12 DEF Restart, Doubt
    <2>4. ~(at[c] = "sent" /\ Owns(c, i))
      BY <2>3 DEF Owns, BookingOf, UnrecordedByHandler, b
    <2>5. \A d \in Loops : d = c => retrying[d] # <<i, "sent">>
      BY <2>3 DEF UnrecordedByRetry, b
    <2> QED
      BY <2>1, <2>2, <2>4, <2>5, HandsOff DEF Owns, b
  <1>13. CASE UNCHANGED vars
    BY <1>13, HandsOff
    DEF vars, handler, table, retry, Owns, Lists, Resent, b
  <1>14. CASE \E c \in Replicas : Consumes(c) \/ Restart(c)
    BY <1>2, <1>3, <1>4, <1>5, <1>6, <1>12, <1>14 DEF Consumes, Handles
  <1>15. CASE \E c \in Loops : Retries(c)
    BY <1>7, <1>8, <1>9, <1>10, <1>15 DEF Retries
  <1> QED
    BY <1>1, <1>11, <1>13, <1>14, <1>15 DEF Next, Process, b

(* The row that Create inserts has no email behind it and no second owner. *)
LEMMA NewRowUndisturbed ==
  ASSUME TypeOK, InHandExists, OnlyRecordedMailed, OneHandler, [Next]_vars,
         ~evicted, NEW c \in Replicas, Create(c), NEW i \in Rows, i = <<c, msg[c]>>
  PROVE  UndisturbedRow(i)' /\ mailed'[BookingOf(i)'] = 0
  <1>1. /\ at[c] = "create" /\ at'[c] = "send" /\ msg' = msg
        /\ \A d \in Replicas : d # c => at'[d] = at[d]
        /\ UNCHANGED <<topic, mailed, todo, retrying>>
    BY GotoEffect DEF Create, Stages, retry
  <1>2. BookingOf(i) = topic[msg[c]] /\ BookingOf(i)' = BookingOf(i)
        /\ BookingOf(i) \in Bookings
    BY <1>1, HandledBooking DEF BookingOf, Handling
  <1>3. ~Recorded(BookingOf(i)) /\ ~Inserted(i)
    BY <1>1, <1>2 DEF OneHandler, Recorded, Inserted
  <1>4. mailed'[BookingOf(i)'] = 0
    BY <1>1, <1>2, <1>3 DEF OnlyRecordedMailed
  <1>5. \A d \in Replicas : ~Owns(d, i) /\ ~Lists(d, i) /\ ~Resent(d, i)
    BY <1>3 DEF InHandExists
  <1>6. \A d \in Replicas : /\ Owns(d, i)' => d = c
                            /\ ~Lists(d, i)' /\ ~Resent(d, i)'
    BY <1>1, <1>5 DEF Owns, Lists, Resent
  <1>7. status'[i] = "pending"
    BY CreateEffect
  <1> QED
    BY <1>4, <1>6, <1>7 DEF UndisturbedRow

(* A booking gets one email unless a fault explains a second one.          *)
LEMMA OneEmailNext ==
  TypeOK /\ InHandExists /\ OnlyRecordedMailed /\ OneHandler /\ OneRowPerBooking
    /\ OneEmail /\ [Next]_vars => OneEmail'
  <1> SUFFICES ASSUME TypeOK, InHandExists, OnlyRecordedMailed, OneHandler,
                      OneRowPerBooking, OneEmail, [Next]_vars, ~evicted'
               PROVE  OneEmail'
    BY DEF OneEmail
  <1>1. ~evicted /\ doubtful \subseteq doubtful'
    BY RecordsKept
  <1>2. OnlyRecordedMailed'
    BY UnrecordedNotMailed
  <1>3. ASSUME NEW i \in Rows, Inserted(i)', BookingOf(i)' \notin doubtful'
        PROVE  UndisturbedRow(i)' /\ mailed'[BookingOf(i)'] <= 1
    <2>1. CASE Inserted(i)
      <3>1. BookingOf(i)' = BookingOf(i)
        BY <2>1, RecordsKept
      <3> QED
        BY <1>3, <2>1, <3>1, RowNext
    <2>2. CASE ~Inserted(i)
      <3>1. PICK c \in Replicas : Create(c)
        BY <1>3, <2>2, NewRows
      <3>2. <<c, msg[c]>> \in Rows
        BY <3>1, HandledBooking DEF Create, Goto, Handling
      <3>3. i = <<c, msg[c]>>
        BY <1>3, <2>2, <3>1, <3>2, CreateEffect DEF Inserted
      <3> QED
        BY <1>1, <3>1, <3>3, NewRowUndisturbed
    <2> QED
      BY <2>1, <2>2
  <1>4. ASSUME NEW b \in Bookings, b \notin doubtful' PROVE mailed'[b] <= 1
    <2>1. CASE Recorded(b)'
      <3>1. PICK i \in Rows : Inserted(i)' /\ BookingOf(i)' = b
        BY <2>1 DEF Recorded, Inserted
      <3> QED
        BY <1>3, <1>4, <3>1
    <2>2. CASE ~Recorded(b)'
      BY <1>2, <2>2 DEF OnlyRecordedMailed
    <2> QED
      BY <2>1, <2>2
  <1> QED
    BY <1>3, <1>4 DEF OneEmail

(* A step of the email service, or of a relay that feeds it, preserves the *)
(* invariant.                                                              *)
LEMMA EmailInvNext == EmailInv /\ [Next]_vars => EmailInv'
  BY EmailTypeNext, InHandNext, CoveredNext, SentInHandNext, UnrecordedNotMailed,
     OneHandlerNext, OneRowNext, OneEmailNext DEF EmailInv

(* It holds when the service starts for the first time.                    *)
LEMMA EmailInvInit == Init => EmailInv
  <1> SUFFICES ASSUME Init PROVE EmailInv
    OBVIOUS
  <1> USE EmailAssumption DEF Init
  <1>0. topic \in Seq(Bookings) /\ Len(topic) = 0
    OBVIOUS
  <1>1. TypeOK
    <2>1. /\ status \in [Rows -> Statuses \cup {"none"}] /\ due \subseteq Rows
          /\ retryCount \in [Rows -> 0..MaxRetries]
      BY DEF MaxRetries
    <2>2. /\ todo \in [Loops -> SUBSET Rows]
          /\ retrying \in [Loops -> (Rows \X Statuses) \cup {Nobody}]
      OBVIOUS
    <2>3. at \in [Replicas -> Stages] /\ msg \in [Replicas -> 0..Length]
      BY DEF Stages
    <2>4. mailed \in [Bookings -> 0..Many]
      BY DEF Many
    <2>5. /\ Len(topic) <= Length /\ position \in 0..Length /\ committed \in 0..Length
      BY <1>0
    <2>6. /\ assigned \in Replicas \cup {Nobody} /\ evicted \in BOOLEAN
          /\ skipped \subseteq Positions /\ doubtful \subseteq Bookings
      OBVIOUS
    <2> HIDE DEF Init
    <2> QED
      BY <1>0, <2>1, <2>2, <2>3, <2>4, <2>5, <2>6 DEF TypeOK
  <1>2. InHandExists
    <2>1. \A c \in Replicas, i \in Rows : ~Owns(c, i)
      BY DEF Owns
    <2>3. \A c \in Replicas, i \in Rows : ~Lists(c, i)
      BY DEF Lists
    <2>2. \A c \in Replicas, i \in Rows : ~Resent(c, i)
      <3>1. \A i \in Rows, s \in Statuses : <<i, s>> # Nobody
        BY EmailAssumption
      <3>2. \A c \in Loops : retrying[c] = Nobody
        OBVIOUS
      <3> QED
        BY <3>1, <3>2 DEF Resent
    <2> QED
      BY <1>0, <2>1, <2>2, <2>3 DEF InHandExists, Handling, Inserted
  <1>3. CoveredSoFar
    BY DEF CoveredSoFar, Handling
  <1>4. SentInHand
    BY DEF SentInHand, SentWasMailed, Statuses
  <1>5. OnlyRecordedMailed /\ OneHandler /\ OneRowPerBooking /\ OneEmail
    BY DEF OnlyRecordedMailed, OneHandler, OneRowPerBooking, OneEmail, Handling, Inserted
  <1> QED
    BY <1>1, <1>2, <1>3, <1>4, <1>5 DEF EmailInv

(* The properties follow from the invariant. *)
LEMMA EmailInvImplies ==
  EmailInv => CommittedIsRecorded /\ SentWasMailed /\ OneEmailWithoutFault
  BY DEF EmailInv, CoveredSoFar, Covered, CommittedIsRecorded, SentInHand, OneEmail,
         OneEmailWithoutFault

(* The invariant of the email service holds for any number of replicas,    *)
(* bookings and messages.                                                  *)
THEOREM EmailInvariant == Spec => []EmailInv
  BY EmailInvInit, EmailInvNext, PTL DEF Spec

(* Every variable of the email service keeps its type: the offsets stay in *)
(* the partition and the retry counts below their maximum.                 *)
THEOREM EmailTypeCorrect == Spec => []TypeOK
  <1>1. EmailInv => TypeOK
    BY DEF EmailInv
  <1> QED
    BY <1>1, EmailInvariant, PTL

(* No message is committed that is neither recorded nor reported as        *)
(* failed.                                                                 *)
THEOREM NoMessageForgotten == Spec => []CommittedIsRecorded
  BY EmailInvImplies, EmailInvariant, PTL

(* A booking has one row as long as nobody is evicted in a handler.        *)
THEOREM OneRowEach == Spec => []OneRowPerBooking
  <1>1. EmailInv => OneRowPerBooking
    BY DEF EmailInv
  <1> QED
    BY <1>1, EmailInvariant, PTL

(* What is marked sent has been sent. *)
THEOREM MarkedSentWasMailed == Spec => []SentWasMailed
  BY EmailInvImplies, EmailInvariant, PTL

(* A second email of a booking is explained by a fault or an overlap.      *)
THEOREM SecondEmailExplained == Spec => []OneEmailWithoutFault
  BY EmailInvImplies, EmailInvariant, PTL

=============================================================================
