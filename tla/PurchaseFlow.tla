---------------------------- MODULE PurchaseFlow ----------------------------
(***************************************************************************)
(* The purchase flow under its distributed lock: every request runs the    *)
(* statements of Booking.tla, and where that module lets AcquireLock       *)
(* answer anything, here it asks the Redis masters as RedLock.tla does,    *)
(* and releases the lease when Purchase returns, after its transaction has *)
(* been committed or rolled back (the order of the two deferred calls).    *)
(*                                                                         *)
(* There is one event on sale, so one key.  A request whose client goes    *)
(* away has a cancelled context: its statements fail, and its Release      *)
(* forgets the mutex without reaching a master.                            *)
(***************************************************************************)
EXTENDS Booking

CONSTANTS
  Processes,  \* replicas of the ticket service
  process,    \* the replica that serves each request
  Masters,    \* the Redis masters
  Faulty,     \* masters that may leave a command unanswered
  Nobody      \* no request

VARIABLES
  phase, granted, refused, setting, deleting, key, lapsed, locks, overran
                                               \* see RedLock.tla

Lock == INSTANCE RedLock

lockVars ==
  <<phase, granted, refused, setting, deleting, key, lapsed, locks, overran>>
flowVars == <<vars, lockVars>>

(* What the theorems about the flow suppose of these parameters. *)
FlowAssumption ==
  Lock!RedLockAssumption /\ \E e \in EventIds : Events = {e}

FlowInit == Init /\ Lock!Init

-----------------------------------------------------------------------------
(***************************************************************************)
(* Acquire.                                                                *)
(***************************************************************************)

Ask(r) ==
  /\ step[r] = "lock"
  /\ Lock!TryLock(r)
  /\ UNCHANGED vars

Granted(r) == Lock!Win(r) /\ UNCHANGED vars

(* Acquire returns; the client may have gone since the lock was won. *)
Acquired(r) ==
  /\ Lock!Store(r)
  /\ \/ AcquireLock(r)
     \/ step[r] = "done" /\ UNCHANGED vars

Refused(r) == Lock!Taken(r) /\ LockTaken(r)

AcquireFails(r) == step[r] = "lock" /\ Lock!GiveUp(r) /\ Fail(r)

-----------------------------------------------------------------------------
(***************************************************************************)
(* The statements of the booking and the return.                           *)
(***************************************************************************)

Executes(r) ==
  /\ \/ RejectQuantity(r) \/ AcceptQuantity(r)
     \/ EventUnusable(r) \/ ReadEvent(r)
     \/ InitCounter(r) \/ NextFencingToken(r)
     \/ Reserve(r) \/ Explain(r)
     \/ CreateTicket(r) \/ InsertOutbox(r)
     \/ Commit(r) \/ CommitUnacknowledged(r)
     \/ Respond(r)
  /\ UNCHANGED lockVars

StatementFails(r) == step[r] # "lock" /\ Fail(r) /\ UNCHANGED lockVars

(* Mutant: the deferred calls run in the order they are written. *)
ReleaseBeforeRollback(r) ==
  /\ step[r] \in {"done", "explain", "ticket", "outbox", "commit"}
  /\ \/ reply[r] # "lost" /\ Lock!Release(r)
     \/ Lock!ReleaseCancelled(r)
  /\ UNCHANGED vars

(* The deferred Release; the client may go away just before it. *)
Releases(r) ==
  /\ step[r] = "done"
  /\ \/ reply[r] # "lost" /\ Lock!Release(r)
     \/ Lock!ReleaseCancelled(r)
  /\ UNCHANGED vars

(* The request's context is cancelled. *)
ClientGone(r) ==
  /\ Lose(r)
  /\ \/ Lock!Cancel(r)
     \/ phase[r] # "asking" /\ UNCHANGED lockVars

(* A replica crashes in the middle of its requests. *)
CrashProcess(p) ==
  /\ Lock!Crash(p)
  /\ LET lost == {r \in Requests : process[r] = p /\ step[r] # "done"} IN
       /\ step' = [r \in Requests |-> IF r \in lost THEN "done" ELSE step[r]]
       /\ writes' = [r \in Requests |-> IF r \in lost THEN {} ELSE writes[r]]
       /\ reply' = [r \in Requests |-> IF r \in lost THEN "lost" ELSE reply[r]]
  /\ UNCHANGED <<orders, token, bookings, fencing, past>>

-----------------------------------------------------------------------------
MasterWorks ==
  /\ \/ \E m \in Masters, r \in Requests :
          \/ Lock!SetNXAnswered(m, r) \/ Lock!SetNXUnanswered(m, r)
          \/ Lock!DeleteIfEqual(m, r)
     \/ \E m \in Masters : Lock!Expire(m)
  /\ UNCHANGED vars

LeaseEnds(r) == Lock!Lapse(r) /\ UNCHANGED vars

DatePasses(e) == EventStarts(e) /\ UNCHANGED lockVars

AllReleased == AllAnswered /\ UNCHANGED lockVars

Proceeds(r) ==
  \/ Ask(r) \/ Granted(r) \/ Acquired(r) \/ Refused(r) \/ AcquireFails(r)
  \/ Executes(r) \/ Releases(r)

FlowNext ==
  \/ \E r \in Requests :
       Proceeds(r) \/ StatementFails(r) \/ ClientGone(r) \/ LeaseEnds(r)
  \/ \E p \in Processes : CrashProcess(p)
  \/ MasterWorks
  \/ \E e \in Events : DatePasses(e)
  \/ AllReleased

FlowSpec == FlowInit /\ [][FlowNext]_flowVars

(* Goroutines keep running, masters execute the commands they get, the     *)
(* time of a lease passes and a key past its time is dropped.              *)
FairFlowSpec ==
  /\ FlowSpec
  /\ \A r \in Requests : WF_flowVars(Proceeds(r)) /\ WF_lockVars(Lock!Lapse(r))
  /\ \A m \in Masters :
       /\ WF_lockVars(Lock!Expire(m))
       /\ \A r \in Requests : WF_lockVars(Lock!SetNXAnswered(m, r))

-----------------------------------------------------------------------------
(***************************************************************************)
(* Properties.                                                             *)
(***************************************************************************)

(* From the lock to the end of the transaction. *)
Inside(r) == step[r] \in {"reserve"} \cup InTransaction

(* Of the requests within the 30 seconds of their lease, one at a time is  *)
(* between its lock and the end of its transaction: the lease of a         *)
(* returning, crashing or abandoned request is not given up before its     *)
(* transaction is over.  Who outlives a lease must not share a replica, or *)
(* its Release deletes another's (purchase_service.go:69-143).             *)
TransactionsUnderLease ==
  Lock!Isolated =>
    \A r, q \in Requests \ overran : Inside(r) /\ Inside(q) => r = q

(* No failure, crash or vanished client locks the event for good: the key  *)
(* is free again and again, if need be because it expires                  *)
(* (purchase_service.go:70-77, redis_lock.go:50-90).                       *)
EventFreed == []<>(\A m \in Masters : key[m] = Nobody)

(* With its leases, deferred releases and crashing replicas the flow still *)
(* implements the atomic sale: ImplementsTicketSale of Booking.tla.  Every *)
(* request comes to its end through the lock, the row locks and the        *)
(* transactions of the others: EveryRequestAnswered of Booking.tla.        *)

(***************************************************************************)
(* The invariant that joins the statements and the lock, for the proofs in *)
(* PurchaseFlowProofs.tla.                                                 *)
(***************************************************************************)

(* From Acquire to the end of its transaction a request holds the lock.    *)
InsideHolds == \A r \in Requests : Inside(r) => phase[r] = "holding"

=============================================================================
