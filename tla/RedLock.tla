------------------------------ MODULE RedLock ------------------------------
(***************************************************************************)
(* The distributed lock of the ticket service: RedisLock.Acquire and       *)
(* Release (services/ticket/internal/lock) of one key, "lock:event:<id>",  *)
(* by concurrent purchase requests on several replicas of the service, over *)
(* the Redis masters of a Redlock deployment.                              *)
(*                                                                         *)
(* The redsync library and the masters are external.  Of redsync the model *)
(* keeps what redis_lock.go relies on: one attempt (WithTries(1)) that     *)
(* asks every master to SET NX a value unique to the attempt, decides at   *)
(* the first majority of grants or refusals (WithFailFast), counts a lease *)
(* that lapsed while asking as a failure, deletes its own value everywhere *)
(* when it fails, and leaves late commands in flight.  A value is unique,  *)
(* so it is identified with the request that made it.                      *)
(*                                                                         *)
(* Time is abstracted to one event per lease: it lapses.  Keys expire on   *)
(* the masters only after the holder's own clock has seen the lease lapse  *)
(* (redsync subtracts the elapsed time and a drift allowance).             *)
(***************************************************************************)
EXTENDS Integers, FiniteSets

CONSTANTS
  Requests,   \* purchase requests, each acquires at most once
  Processes,  \* replicas of the ticket service, one RedisLock each
  process,    \* the replica that serves each request
  Masters,    \* the Redis masters
  Faulty,     \* masters that may leave a command unanswered
  Nobody      \* no request

ASSUME RedLockAssumption ==
  /\ process \in [Requests -> Processes]
  /\ IsFiniteSet(Masters)
  /\ Faulty \subseteq Masters
  /\ Nobody \notin Requests

VARIABLES
  phase,      \* where each request stands
  granted,    \* masters that told a request its SET NX succeeded
  refused,    \* masters that told it the key is taken
  setting,    \* SET NX commands in flight: <<master, value>>
  deleting,   \* delete-if-equal commands in flight: <<master, value>>
  key,        \* the value stored at each master
  lapsed,     \* requests whose lease time has run out
  locks,      \* RedisLock.locks[key] of each process
  overran     \* history: requests whose lease lapsed while they held it

commands == <<setting, deleting>>
votes == <<granted, refused>>
vars == <<phase, votes, commands, key, lapsed, locks, overran>>

Phases ==
  {"idle", "asking", "acquired", "holding",
   "released", "taken", "failed", "crashed"}

TypeOK ==
  /\ phase \in [Requests -> Phases]
  /\ granted \in [Requests -> SUBSET Masters]
  /\ refused \in [Requests -> SUBSET Masters]
  /\ setting \subseteq Masters \X Requests
  /\ deleting \subseteq Masters \X Requests
  /\ key \in [Masters -> Requests \cup {Nobody}]
  /\ lapsed \subseteq Requests
  /\ locks \in [Processes -> Requests \cup {Nobody}]
  /\ overran \subseteq Requests

Init ==
  /\ phase = [r \in Requests |-> "idle"]
  /\ granted = [r \in Requests |-> {}]
  /\ refused = [r \in Requests |-> {}]
  /\ setting = {}
  /\ deleting = {}
  /\ key = [m \in Masters |-> Nobody]
  /\ lapsed = {}
  /\ locks = [p \in Processes |-> Nobody]
  /\ overran = {}

(* redsync's quorum, len(pools)/2 + 1. *)
Majority(S) == 2 * Cardinality(S) > Cardinality(Masters)

(* The lock is r's: TryLockContext has returned nil and Release is to come. *)
Holder(r) == phase[r] \in {"acquired", "holding"}

MoveTo(r, p) == phase' = [phase EXCEPT ![r] = p]

(* Delete-if-equal commands for value v, sent to the masters where v is or *)
(* may yet be stored; at the others they could have no effect.             *)
Deletes(v) == {<<m, v>> : m \in {n \in Masters : key[n] = v \/ <<n, v>> \in setting}}

(* The answers counted for r go with the call that counts them. *)
ForgetVotes(S) ==
  /\ granted' = [r \in Requests |-> IF r \in S THEN {} ELSE granted[r]]
  /\ refused' = [r \in Requests |-> IF r \in S THEN {} ELSE refused[r]]

-----------------------------------------------------------------------------
(***************************************************************************)
(* Acquire.                                                                *)
(***************************************************************************)

(* Mutant: the lock table is filled before the lock is won. *)
TryLockStoresFirst(r) ==
  /\ phase[r] = "idle"
  /\ MoveTo(r, "asking")
  /\ setting' = setting \cup (Masters \X {r})
  /\ locks' = [locks EXCEPT ![process[r]] = r]
  /\ UNCHANGED <<votes, deleting, key, lapsed, overran>>

TryLock(r) ==
  /\ phase[r] = "idle"
  /\ MoveTo(r, "asking")
  /\ setting' = setting \cup (Masters \X {r})
  /\ UNCHANGED <<votes, deleting, key, lapsed, locks, overran>>

(* Mutant: one grant is taken for the lock. *)
WinWithOneGrant(r) ==
  /\ phase[r] = "asking"
  /\ granted[r] # {}
  /\ r \notin lapsed
  /\ MoveTo(r, "acquired")
  /\ UNCHANGED <<votes, commands, key, lapsed, locks, overran>>

(* TryLockContext returns nil; locks[key] is not yet assigned. *)
Win(r) ==
  /\ phase[r] = "asking"
  /\ Majority(granted[r])
  /\ r \notin lapsed
  /\ MoveTo(r, "acquired")
  /\ UNCHANGED <<votes, commands, key, lapsed, locks, overran>>

(* l.locks[key] = mutex, under l.mu; Acquire returns true. *)
Store(r) ==
  /\ phase[r] = "acquired"
  /\ MoveTo(r, "holding")
  /\ locks' = [locks EXCEPT ![process[r]] = r]
  /\ UNCHANGED <<votes, commands, key, lapsed, overran>>

(* A failed attempt deletes its own value everywhere. *)
Withdraw(r, outcome) ==
  /\ phase[r] = "asking"
  /\ MoveTo(r, outcome)
  /\ deleting' = deleting \cup Deletes(r)
  /\ ForgetVotes({r})
  /\ UNCHANGED <<setting, key, lapsed, locks, overran>>

(* ErrTaken: Acquire returns false and no error. *)
Taken(r) ==
  /\ Majority(refused[r])
  /\ Withdraw(r, "taken")

(* Any other error: no majority either way once every healthy master has  *)
(* answered, or a lease too short to use.                                  *)
GiveUp(r) ==
  /\ \/ /\ ~Majority(granted[r])
        /\ ~Majority(refused[r])
        /\ Masters \ Faulty \subseteq granted[r] \cup refused[r]
     \/ Majority(granted[r]) /\ r \in lapsed
  /\ Withdraw(r, "failed")

(* The context of the request is cancelled: the attempt fails, and so does *)
(* its clean-up, which has the same context.                               *)
Cancel(r) ==
  /\ phase[r] = "asking"
  /\ MoveTo(r, "failed")
  /\ ForgetVotes({r})
  /\ UNCHANGED <<commands, key, lapsed, locks, overran>>

-----------------------------------------------------------------------------
(* Mutant: Release leaves the mutex in the table. *)
ReleaseKeepsEntry(r) ==
  LET found == locks[process[r]] IN
    /\ phase[r] = "holding"
    /\ MoveTo(r, "released")
    /\ deleting' = IF found = Nobody THEN deleting
                                     ELSE deleting \cup Deletes(found)
    /\ ForgetVotes({r})
    /\ UNCHANGED <<setting, key, lapsed, locks, overran>>

(***************************************************************************)
(* Release: look the mutex up by key, forget it, unlock whatever it was.   *)
(***************************************************************************)
Release(r) ==
  LET found == locks[process[r]] IN
    /\ phase[r] = "holding"
    /\ MoveTo(r, "released")
    /\ locks' = [locks EXCEPT ![process[r]] = Nobody]
    /\ deleting' = IF found = Nobody THEN deleting
                                     ELSE deleting \cup Deletes(found)
    /\ ForgetVotes({r})
    /\ UNCHANGED <<setting, key, lapsed, overran>>

(* Release with a cancelled context: the mutex is forgotten and no delete  *)
(* is sent.                                                                *)
ReleaseCancelled(r) ==
  /\ phase[r] = "holding"
  /\ MoveTo(r, "released")
  /\ locks' = [locks EXCEPT ![process[r]] = Nobody]
  /\ ForgetVotes({r})
  /\ UNCHANGED <<commands, key, lapsed, overran>>

-----------------------------------------------------------------------------
(***************************************************************************)
(* The masters, time and crashes.                                          *)
(***************************************************************************)

(* A master executes SET NX and r, which is still asking, learns how.      *)
SetNXAnswered(m, r) ==
  /\ <<m, r>> \in setting
  /\ phase[r] = "asking"
  /\ setting' = setting \ {<<m, r>>}
  /\ \/ /\ key[m] = Nobody
        /\ key' = [key EXCEPT ![m] = r]
        /\ granted' = [granted EXCEPT ![r] = @ \cup {m}]
        /\ UNCHANGED refused
     \/ /\ key[m] # Nobody
        /\ refused' = [refused EXCEPT ![r] = @ \cup {m}]
        /\ UNCHANGED <<key, granted>>
  /\ UNCHANGED <<phase, deleting, lapsed, locks, overran>>

(* The command arrives when r no longer waits for it, or the answer of a   *)
(* faulty master is lost.                                                  *)
SetNXUnanswered(m, r) ==
  /\ <<m, r>> \in setting
  /\ phase[r] # "asking" \/ m \in Faulty
  /\ setting' = setting \ {<<m, r>>}
  /\ key' = IF key[m] = Nobody THEN [key EXCEPT ![m] = r] ELSE key
  /\ UNCHANGED <<phase, votes, deleting, lapsed, locks, overran>>

(* The release script: delete the key if it still holds this value. *)
DeleteIfEqual(m, r) ==
  /\ <<m, r>> \in deleting
  /\ deleting' = deleting \ {<<m, r>>}
  /\ key' = IF key[m] = r THEN [key EXCEPT ![m] = Nobody] ELSE key
  /\ UNCHANGED <<phase, votes, setting, lapsed, locks, overran>>

(* Mutant: the key is set without a time to live. *)
LapseOfHolderOnly(r) ==
  /\ Holder(r) \/ phase[r] = "asking"
  /\ r \notin lapsed
  /\ lapsed' = lapsed \cup {r}
  /\ overran' = overran \cup {q \in {r} : Holder(q)}
  /\ UNCHANGED <<phase, votes, commands, key, locks>>

(* The 30 seconds of the lease are over, while there is something left of  *)
(* it: a request that uses it or a key.                                    *)
Lapse(r) ==
  /\ \/ Holder(r) \/ phase[r] = "asking"
     \/ \E m \in Masters : key[m] = r
  /\ r \notin lapsed
  /\ lapsed' = lapsed \cup {r}
  /\ overran' = overran \cup {q \in {r} : Holder(q)}
  /\ UNCHANGED <<phase, votes, commands, key, locks>>

(* The master drops a key past its TTL. *)
Expire(m) ==
  /\ key[m] \in lapsed
  /\ key' = [key EXCEPT ![m] = Nobody]
  /\ UNCHANGED <<phase, votes, commands, lapsed, locks, overran>>

(* A replica crashes and restarts with an empty lock table. *)
Crash(p) ==
  LET victims == {r \in Requests :
                    process[r] = p /\ (Holder(r) \/ phase[r] = "asking")} IN
    /\ victims # {}
    /\ phase' = [r \in Requests |->
                   IF r \in victims THEN "crashed" ELSE phase[r]]
    /\ ForgetVotes(victims)
    /\ locks' = [locks EXCEPT ![p] = Nobody]
    /\ UNCHANGED <<commands, key, lapsed, overran>>

Next ==
  \/ \E r \in Requests : \/ TryLock(r) \/ Win(r) \/ Store(r)
                         \/ Taken(r) \/ GiveUp(r) \/ Cancel(r)
                         \/ Release(r) \/ ReleaseCancelled(r)
                         \/ Lapse(r)
  \/ \E m \in Masters, r \in Requests :
       SetNXAnswered(m, r) \/ SetNXUnanswered(m, r) \/ DeleteIfEqual(m, r)
  \/ \E m \in Masters : Expire(m)
  \/ \E p \in Processes : Crash(p)

Spec == Init /\ [][Next]_vars

-----------------------------------------------------------------------------
(***************************************************************************)
(* Properties.                                                             *)
(***************************************************************************)

Live(r) == Holder(r) /\ r \notin lapsed

(* No request that outlived its lease shares a process with another one. *)
Isolated ==
  \A r \in overran : \A q \in Requests : process[q] = process[r] => q = r

(* Two requests never hold unexpired leases of the same event at the same  *)
(* time, through crashes, late and lost commands and unanswering masters,  *)
(* as long as no request outlives its lease in a process it shares         *)
(* (redis_lock.go:50-90).                                                  *)
MutualExclusion ==
  Isolated => \A r, q \in Requests : Live(r) /\ Live(q) => r = q

(* Nobody deletes the value of a lease in use: under the same condition    *)
(* the mutex found by key in the lock table is the releasing request's own *)
(* (redis_lock.go:71-90).                                                  *)
LiveLeaseKept ==
  Isolated => \A r \in Requests : Live(r) =>
                \A m \in Masters : <<m, r>> \notin deleting

(* A lease in use is in force: a majority of the masters store its value.  *)
LeaseHasMajority ==
  Isolated => \A r \in Requests : Live(r) =>
                Majority({m \in Masters : key[m] = r})

-----------------------------------------------------------------------------
(***************************************************************************)
(* What the documents say and the code does not do.                        *)
(***************************************************************************)

(* "Each lock has a unique owner value, and release targets only that      *)
(* value", distributed-locking.md:25: nobody's live lease is being deleted. *)
ReleaseTargetsOwnLease ==
  \A r \in Requests : Live(r) =>
    \A m \in Masters : <<m, r>> \notin deleting

-----------------------------------------------------------------------------
(***************************************************************************)
(* The inductive invariant behind MutualExclusion.                         *)
(***************************************************************************)

(* r has a lease, or is collecting one, whose time has not run out. *)
Leasing(r) == (phase[r] = "asking" \/ Holder(r)) /\ r \notin lapsed

(* A request that has not started has left no trace. *)
IdleLeavesNoTrace ==
  \A r \in Requests : phase[r] = "idle" =>
    /\ granted[r] = {}
    /\ \A m \in Masters : <<m, r>> \notin deleting

(* The lock table names requests of its process that hold the lock, and a  *)
(* holder past its lease is known to have overrun it.                      *)
TableConsistent ==
  /\ \A p \in Processes : locks[p] # Nobody =>
       phase[locks[p]] = "holding" /\ process[locks[p]] = p
  /\ \A r \in Requests : Holder(r) /\ r \in lapsed => r \in overran

(* Grants are still in place and nobody is about to delete them. *)
LeasesIntact ==
  \A r \in Requests : Leasing(r) =>
    \A m \in Masters :
      /\ m \in granted[r] => key[m] = r
      /\ <<m, r>> \notin deleting

HoldersHaveMajority ==
  \A r \in Requests : Live(r) => Majority(granted[r])

LockInv ==
  /\ TypeOK
  /\ IdleLeavesNoTrace
  /\ TableConsistent
  /\ HoldersHaveMajority
  /\ Isolated => LeasesIntact

=============================================================================
