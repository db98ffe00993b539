---------------------------- MODULE Notification ----------------------------
(***************************************************************************)
(* What the ticket service and the email service promise together: a       *)
(* booking that committed is announced, an announced booking may be taken  *)
(* over by the email service, and one that was taken over is confirmed by  *)
(* an email.  Nothing is announced that was not booked, nothing is         *)
(* recorded that was not announced, no email goes out for a booking        *)
(* without a record, and none of this is ever undone.                      *)
(*                                                                         *)
(* Relays, leases, redeliveries, rebalances, retries and crashes do not    *)
(* show at this level.  Confirmation.tla implements it.                    *)
(***************************************************************************)
CONSTANTS Bookings

VARIABLES
  booked,     \* committed with their outbox row
  announced,  \* in the topic, at least once
  recorded,   \* with a row in email_status
  confirmed   \* with an email that the provider has taken

vars == <<booked, announced, recorded, confirmed>>

Init ==
  /\ booked = {}
  /\ announced = {}
  /\ recorded = {}
  /\ confirmed = {}

Book(b) ==
  /\ b \notin booked
  /\ booked' = booked \cup {b}
  /\ UNCHANGED <<announced, recorded, confirmed>>

Announce(b) ==
  /\ b \in booked \ announced
  /\ announced' = announced \cup {b}
  /\ UNCHANGED <<booked, recorded, confirmed>>

Record(b) ==
  /\ b \in announced \ recorded
  /\ recorded' = recorded \cup {b}
  /\ UNCHANGED <<booked, announced, confirmed>>

Confirm(b) ==
  /\ b \in recorded \ confirmed
  /\ confirmed' = confirmed \cup {b}
  /\ UNCHANGED <<booked, announced, recorded>>

Next ==
  \E b \in Bookings : Book(b) \/ Announce(b) \/ Record(b) \/ Confirm(b)

Spec == Init /\ [][Next]_vars

(* A booking may fail to be recorded: a message whose handler reports an   *)
(* error is passed over.  The other two hops are certain.                  *)
Fairness == \A b \in Bookings : WF_vars(Announce(b)) /\ WF_vars(Confirm(b))

=============================================================================
