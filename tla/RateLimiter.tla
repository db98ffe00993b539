---------------------------- MODULE RateLimiter ----------------------------
(***************************************************************************)
(* The sliding window in front of login and registration                   *)
(* (services/shared/pkg/middleware/ratelimit.go): a Redis sorted set per   *)
(* client holds the times of the requests that were let through.  A first  *)
(* pipeline drops what has left the window and counts the rest, a second   *)
(* one adds the request.  Both limits use the same key.                    *)
(*                                                                         *)
(* There is one key here: keys do not touch one another.  The key is       *)
(* r.RemoteAddr, address and port, so its requests come one at a time over *)
(* one connection, except that a client may reconnect from the same port   *)
(* while an earlier request is still being handled.  Time advances in      *)
(* ticks; a request takes at least one.  Redis is external.                *)
(***************************************************************************)
EXTENDS Integers, FiniteSets

CONSTANTS
  Requests,  \* requests that carry the key
  Routes,    \* login, register
  Limit,     \* requests of any route after which a route is refused
  Window,    \* its length, which is also the time to live of the key
  Overlap,   \* bound on the requests that one may find still being handled
  MaxTime    \* bound on the clock

ASSUME RateLimiterAssumption ==
  /\ Limit \in [Routes -> Nat \ {0}]
  /\ Window \in Nat \ {0}
  /\ Overlap \in Nat
  /\ MaxTime \in Nat \ {0}

VARIABLES
  clock,
  route,    \* the route of each request
  stage,    \* where the middleware stands for it
  now,      \* its time.Now(), once it has arrived
  hits,     \* members of the sorted set, each its own score
  expires,  \* when Redis drops the key, Never without a time to live
  counted,  \* history: when its window was counted
  failed,   \* history: let through although a pipeline failed
  mixed     \* history: may be missing in a count, or count others too few

vars == <<clock, route, stage, now, hits, expires, counted, failed, mixed>>

(* Let through without a reliable count.                                   *)
unsure == failed \cup mixed

Times == 1..MaxTime
Never == 0

Stages == {"new", "check", "add", "admitted", "rejected"}

Waiting(r) == stage[r] \in {"check", "add"}
Handled == {r \in Requests : Waiting(r)}

TypeOK ==
  /\ clock \in Times
  /\ route \in [Requests -> Routes]
  /\ stage \in [Requests -> Stages]
  /\ now \in [Requests -> Times \cup {0}]
  /\ hits \subseteq Times
  /\ expires = Never \/ expires \in clock + 1 .. clock + Window
  /\ counted \in [Requests -> Times \cup {0}]
  /\ failed \subseteq Requests
  /\ mixed \subseteq Requests

Init ==
  /\ clock = 1
  /\ route \in [Requests -> Routes]
  /\ stage = [r \in Requests |-> "new"]
  /\ now = [r \in Requests |-> 0]
  /\ hits = {}
  /\ expires = Never
  /\ counted = [r \in Requests |-> 0]
  /\ failed = {}
  /\ mixed = {}

-----------------------------------------------------------------------------
Goto(r, from, to) ==
  /\ stage[r] = from
  /\ stage' = [stage EXCEPT ![r] = to]
  /\ UNCHANGED <<clock, route>>

(* Time passes, and with it the key. *)
Tick ==
  /\ clock < MaxTime
  /\ clock' = clock + 1
  /\ IF expires = clock + 1
     THEN hits' = {} /\ expires' = Never
     ELSE UNCHANGED <<hits, expires>>
  /\ UNCHANGED <<route, stage, now, counted, failed, mixed>>

(* Earlier requests may still be handled, up to Overlap of them.  One that *)
(* finds them is mixed with them, and so are those of them that have not   *)
(* been counted yet.                                                       *)
Arrive(r) ==
  LET others == Handled IN
    /\ Cardinality(others) <= Overlap
    /\ \A q \in Requests : stage[q] \in {"admitted", "rejected"} => now[q] < clock
    /\ Goto(r, "new", "check")
    /\ now' = [now EXCEPT ![r] = clock]
    /\ mixed' = mixed \cup {q \in others : stage[q] = "check"}
                      \cup {q \in {r} : others # {}}
    /\ UNCHANGED <<hits, expires, counted, failed>>

(* Mutant: windowStart is not included. *)
TrimExclusive(r) ==
  LET rest == {t \in hits : t >= now[r] - Window} IN
    /\ hits' = rest
    /\ expires' = IF rest = {} THEN Never ELSE expires

(* ZREMRANGEBYSCORE key 0 windowStart, which includes windowStart; a set   *)
(* without members is a key that does not exist.                           *)
Trim(r) ==
  LET rest == {t \in hits : t > now[r] - Window} IN
    /\ hits' = rest
    /\ expires' = IF rest = {} THEN Never ELSE expires

(* Mutant: one request too many fits. *)
CheckOneMore(r) ==
  /\ Trim(r)
  /\ \/ Cardinality(hits') > Limit[route[r]] /\ Goto(r, "check", "rejected")
     \/ Cardinality(hits') <= Limit[route[r]] /\ Goto(r, "check", "add")
  /\ counted' = [counted EXCEPT ![r] = clock]
  /\ UNCHANGED <<now, failed, mixed>>

(* The first pipeline: trim, then count. *)
Check(r) ==
  /\ Trim(r)
  /\ \/ Cardinality(hits') >= Limit[route[r]] /\ Goto(r, "check", "rejected")
     \/ Cardinality(hits') < Limit[route[r]] /\ Goto(r, "check", "add")
  /\ counted' = [counted EXCEPT ![r] = clock]
  /\ UNCHANGED <<now, failed, mixed>>

(* Its error, with or without an effect, lets the request through.         *)
CheckFails(r) ==
  /\ Goto(r, "check", "admitted")
  /\ Trim(r) \/ UNCHANGED <<hits, expires>>
  /\ failed' = failed \cup {r}
  /\ UNCHANGED <<now, counted, mixed>>

(* Mutant: the time to live is set when the key is new. *)
AddKeepingTTL(r) ==
  /\ Goto(r, "add", "admitted")
  /\ hits' = hits \cup {now[r]}
  /\ expires' = IF expires = Never THEN clock + Window ELSE expires
  /\ UNCHANGED <<now, counted, failed, mixed>>

(* Mutant: the time to live starts when the request arrived. *)
AddExpiringEarly(r) ==
  /\ Goto(r, "add", "admitted")
  /\ hits' = hits \cup {now[r]}
  /\ expires' = now[r] + Window
  /\ UNCHANGED <<now, counted, failed, mixed>>

(* The second pipeline: ZADD and EXPIRE. *)
Add(r) ==
  /\ Goto(r, "add", "admitted")
  /\ hits' = hits \cup {now[r]}
  /\ expires' = clock + Window
  /\ UNCHANGED <<now, counted, failed, mixed>>

(* Its error is ignored, whatever part of it took effect. *)
AddFails(r) ==
  /\ Goto(r, "add", "admitted")
  /\ \/ hits' = hits /\ expires' \in {expires, IF hits = {} THEN Never
                                                           ELSE clock + Window}
     \/ hits' = hits \cup {now[r]} /\ UNCHANGED expires
  /\ failed' = failed \cup {r}
  /\ UNCHANGED <<now, counted, mixed>>

Next ==
  \/ Tick
  \/ \E r \in Requests :
       Arrive(r) \/ Check(r) \/ CheckFails(r) \/ Add(r) \/ AddFails(r)

Spec == Init /\ [][Next]_vars

-----------------------------------------------------------------------------
(***************************************************************************)
(* Properties.                                                             *)
(***************************************************************************)

Admitted == {r \in Requests : stage[r] = "admitted"}

(* What was let through, reliably, in the window of r. *)
WindowOf(r) ==
  {q \in Admitted \ unsure : now[q] > counted[r] - Window /\ now[q] <= now[r]}

(* The window of every request that was let through, up to the moment when *)
(* it was counted, holds no more requests than its route allows, save      *)
(* those that Redis failed to count or that overlapped: neither the        *)
(* trimming, nor the time to live of the key, nor requests of the other    *)
(* route make room in it (ratelimit.go:42-68).                             *)
WindowBounded ==
  \A r \in Admitted \ unsure :
    Cardinality(WindowOf(r) \cup {r}) <= Limit[route[r]]

(* A request is refused only if as many requests as its limit were let     *)
(* through less than a window before it or since: rejected requests do not *)
(* count, and waiting for the time in Retry-After is enough, to the tick   *)
(* (ratelimit.go:46-60).                                                   *)
RejectedOnlyWhenFull ==
  \A r \in Requests : stage[r] = "rejected" =>
    Cardinality({q \in Admitted : now[q] > now[r] - Window}) >= Limit[route[r]]

(* What was let through in it, except on an error of Redis.                *)
CrowdOf(r) ==
  {q \in Admitted \ failed : now[q] > counted[r] - Window /\ now[q] <= now[r]}

(* The count and the addition are two pipelines, so requests that overlap  *)
(* may miss one another: a window holds at most one more than the limit of *)
(* its route for each request that another may find unfinished.  Members   *)
(* of the set are times, and so are those of a window here                 *)
(* (ratelimit.go:46-66).                                                   *)
OverlapBounded ==
  \A r \in Admitted \ failed :
    Cardinality({now[q] : q \in CrowdOf(r) \cup {r}}) <= Limit[route[r]] + Overlap

-----------------------------------------------------------------------------
(***************************************************************************)
(* The invariant that the proofs in RateLimiterProofs.tla rest on.         *)
(***************************************************************************)

(* Requests come from the past, and only finitely many were let through or *)
(* are being handled.                                                      *)
ArrivedBefore ==
  /\ \A r \in Requests : stage[r] # "new" => now[r] \in 1..clock
  /\ IsFiniteSet(Admitted)
  /\ IsFiniteSet(Handled) /\ Cardinality(Handled) <= Overlap + 1

(* Of the requests that did not overlap no two came at the same time, and  *)
(* one that is being handled came after all others.                        *)
Sure(r) == stage[r] # "new" /\ r \notin unsure

SureApart ==
  \A q, r \in Requests :
    q # r /\ Sure(q) /\ Sure(r) =>
      /\ now[q] # now[r]
      /\ Waiting(q) => ~Waiting(r) /\ now[r] < now[q]

(* The set holds nobody but requests that were let through, and each of    *)
(* them, unless Redis failed, for at least a window.                       *)
HitsAreAdmitted == \A t \in hits : \E q \in Admitted : now[q] = t

HitsKept ==
  \A q \in Admitted \ failed :
    /\ now[q] > clock - Window => now[q] \in hits
    /\ expires # Never => expires >= now[q] + Window

(* The window of a request has room for it from the moment it is counted.  *)
RoomFound ==
  \A r \in Requests \ unsure :
    stage[r] \in {"add", "admitted"} =>
      Cardinality(WindowOf(r) \cup {r}) <= Limit[route[r]]

(* Whoever may still come into its window was being handled when it was    *)
(* counted.                                                                *)
ComingTo(r) ==
  {q \in (Admitted \cup Handled) \ failed :
     now[q] > counted[r] - Window /\ now[q] <= now[r]}

CrowdExpected ==
  \A r \in Requests \ failed :
    stage[r] \in {"add", "admitted"} =>
      Cardinality({now[q] : q \in ComingTo(r) \cup {r}}) <= Limit[route[r]] + Overlap

(* Clock, sorted set, time to live and requests agree                      *)
(* (ratelimit.go:37-69).                                                   *)
RateInv ==
  /\ TypeOK
  /\ ArrivedBefore
  /\ SureApart
  /\ HitsAreAdmitted
  /\ HitsKept
  /\ RoomFound
  /\ CrowdExpected
  /\ RejectedOnlyWhenFull

=============================================================================
