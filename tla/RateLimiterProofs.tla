------------------------- MODULE RateLimiterProofs --------------------------
(***************************************************************************)
(* Proofs about the sliding window of RateLimiter.tla, for any number of   *)
(* requests and routes, any limits and any length of the window.           *)
(***************************************************************************)
EXTENDS RateLimiter, FiniteSetTheorems, TLAPS

-----------------------------------------------------------------------------
(***************************************************************************)
(* Counting.                                                               *)
(***************************************************************************)

(* As many requests as the times at which they came.                       *)
LEMMA TimesCovered ==
  ASSUME NEW S, IsFiniteSet(S), NEW T, NEW at, \A t \in T : \E q \in S : at[q] = t
  PROVE  IsFiniteSet(T) /\ Cardinality(T) <= Cardinality(S)
  <1> DEFINE came == {q \in S : at[q] \in T}
             f == [q \in came |-> at[q]]
  <1>1. IsFiniteSet(came) /\ Cardinality(came) <= Cardinality(S)
    BY FS_Subset
  <1>2. f \in Surjection(came, T)
    BY DEF Surjection
  <1>3. IsFiniteSet(T) /\ Cardinality(T) <= Cardinality(came)
    <2> HIDE DEF came, f
    <2> QED
      BY <1>1, <1>2, FS_Surjection
  <1>4. Cardinality(T) \in Nat /\ Cardinality(came) \in Nat /\ Cardinality(S) \in Nat
    BY <1>1, <1>3, FS_CardinalityType
  <1> QED
    BY <1>1, <1>3, <1>4

(* No more requests than times, if they came at different ones.            *)
LEMMA TimesApart ==
  ASSUME NEW T, IsFiniteSet(T), NEW S, NEW at,
         \A q \in S : at[q] \in T,
         \A q, r \in S : at[q] = at[r] => q = r
  PROVE  IsFiniteSet(S) /\ Cardinality(S) <= Cardinality(T)
  <1> DEFINE f == [q \in S |-> at[q]]
  <1>1. f \in Injection(S, T)
    BY DEF Injection, IsInjective
  <1> HIDE DEF f
  <1> QED
    BY <1>1, FS_Injection

-----------------------------------------------------------------------------
(***************************************************************************)
(* Types.                                                                  *)
(***************************************************************************)

(* Redis drops a key later than now and within a window.                   *)
LEMMA RateTypeNext == TypeOK /\ ArrivedBefore /\ [Next]_vars => TypeOK'
  <1> SUFFICES ASSUME TypeOK, ArrivedBefore, [Next]_vars PROVE TypeOK'
    OBVIOUS
  <1> USE RateLimiterAssumption DEF TypeOK, Stages, Times, Never
  <1>1. CASE Tick
    <2>1. clock' \in 1..MaxTime /\ clock' = clock + 1
      BY <1>1 DEF Tick
    <2>2. expires' = 0 \/ expires' \in clock' + 1 .. clock' + Window
      BY <1>1 DEF Tick
    <2> QED
      BY <1>1, <2>1, <2>2 DEF Tick
  <1>2. ASSUME NEW r \in Requests, Arrive(r) PROVE TypeOK'
    BY <1>2 DEF Arrive, Goto, Handled
  <1>3. ASSUME NEW r \in Requests, Check(r) PROVE TypeOK'
    BY <1>3 DEF Check, Goto, Trim
  <1>4. ASSUME NEW r \in Requests, CheckFails(r) PROVE TypeOK'
    BY <1>4 DEF CheckFails, Goto, Trim
  <1>5. ASSUME NEW r \in Requests, Add(r) PROVE TypeOK'
    <2>1. now[r] \in 1..MaxTime
      BY <1>5 DEF Add, Goto, ArrivedBefore
    <2>2. clock + Window \in clock + 1 .. clock + Window
      OBVIOUS
    <2> QED
      BY <1>5, <2>1, <2>2 DEF Add, Goto
  <1>6. ASSUME NEW r \in Requests, AddFails(r) PROVE TypeOK'
    <2>1. now[r] \in 1..MaxTime
      BY <1>6 DEF AddFails, Goto, ArrivedBefore
    <2>2. clock + Window \in clock + 1 .. clock + Window
      OBVIOUS
    <2> QED
      BY <1>6, <2>1, <2>2 DEF AddFails, Goto
  <1>7. CASE UNCHANGED vars
    BY <1>7 DEF vars
  <1> QED
    BY <1>1, <1>2, <1>3, <1>4, <1>5, <1>6, <1>7 DEF Next

(* A step lets at most one request through, which has arrived, and takes   *)
(* nothing back.                                                           *)
LEMMA AdmittedEffect ==
  ASSUME TypeOK, [Next]_vars
  PROVE  /\ Admitted \subseteq Admitted'
         /\ failed \subseteq failed' /\ unsure \subseteq unsure'
         /\ Admitted' = Admitted
            \/ \E r \in Requests : /\ Waiting(r) /\ stage'[r] = "admitted"
                                   /\ Admitted' = Admitted \cup {r}
         /\ \A r \in Requests :
              /\ stage[r] # "new" => stage'[r] # "new" /\ now'[r] = now[r]
              /\ stage[r] \in {"admitted", "rejected"} => stage'[r] = stage[r]
         /\ route' = route
  <1> USE DEF TypeOK, Admitted, Waiting, unsure
  <1>1. CASE Tick \/ UNCHANGED vars
    BY <1>1 DEF Tick, vars
  <1>2. ASSUME NEW r \in Requests, Arrive(r) PROVE UNCHANGED Admitted /\
          \A q \in Requests : q # r => stage'[q] = stage[q] /\ now'[q] = now[q]
    BY <1>2 DEF Arrive, Goto
  <1>3. ASSUME NEW r \in Requests, Check(r) PROVE UNCHANGED <<Admitted, now>> /\
          \A q \in Requests : q # r => stage'[q] = stage[q]
    BY <1>3 DEF Check, Goto
  <1>4. ASSUME NEW r \in Requests, CheckFails(r) \/ Add(r) \/ AddFails(r)
        PROVE  /\ Waiting(r) /\ stage'[r] = "admitted" /\ Admitted' = Admitted \cup {r}
               /\ now' = now /\ \A q \in Requests : q # r => stage'[q] = stage[q]
    BY <1>4 DEF CheckFails, Add, AddFails, Goto
  <1>5. ASSUME NEW r \in Requests,
               Arrive(r) \/ Check(r) \/ CheckFails(r) \/ Add(r) \/ AddFails(r)
        PROVE  /\ failed \subseteq failed' /\ unsure \subseteq unsure' /\ route' = route
               /\ stage[r] \in {"new", "check", "add"}
               /\ stage'[r] # "new"
               /\ stage[r] # "new" => now' = now
    BY <1>5 DEF Arrive, Check, CheckFails, Add, AddFails, Goto
  <1>6. ASSUME NEW r \in Requests,
               Arrive(r) \/ Check(r) \/ CheckFails(r) \/ Add(r) \/ AddFails(r)
        PROVE \A q \in Requests :
              /\ stage[q] # "new" => stage'[q] # "new" /\ now'[q] = now[q]
              /\ stage[q] \in {"admitted", "rejected"} => stage'[q] = stage[q]
    BY <1>2, <1>3, <1>4, <1>5, <1>6
  <1> HIDE DEF TypeOK, Admitted, Waiting, unsure
  <1>7. CASE \E r \in Requests :
               Arrive(r) \/ Check(r) \/ CheckFails(r) \/ Add(r) \/ AddFails(r)
    <2>1. PICK r \in Requests :
            Arrive(r) \/ Check(r) \/ CheckFails(r) \/ Add(r) \/ AddFails(r)
      BY <1>7
    <2>2. CASE Arrive(r) \/ Check(r)
      BY <2>1, <2>2, <1>2, <1>3, <1>5, <1>6
    <2>3. CASE CheckFails(r) \/ Add(r) \/ AddFails(r)
      BY <2>1, <2>3, <1>4, <1>5, <1>6
    <2> QED
      BY <2>1, <2>2, <2>3
  <1> QED
    BY <1>1, <1>7 DEF Next

(* The requests that arrive come now.                                      *)
LEMMA ComesNow ==
  ASSUME TypeOK, [Next]_vars, NEW r \in Requests, stage'[r] # "new", stage[r] = "new"
  PROVE  now'[r] = clock
  <1>1. CASE Tick \/ UNCHANGED vars
    BY <1>1 DEF Tick, vars
  <1>2. ASSUME NEW q \in Requests, Arrive(q) PROVE now'[r] = clock
    BY <1>2 DEF Arrive, Goto, TypeOK
  <1>3. ASSUME NEW q \in Requests, Check(q) \/ CheckFails(q) \/ Add(q) \/ AddFails(q)
        PROVE  FALSE
    BY <1>3 DEF Check, CheckFails, Add, AddFails, Goto, TypeOK
  <1> QED
    BY <1>1, <1>2, <1>3 DEF Next

(* One that arrives finds no more than Overlap others unfinished.          *)
LEMMA HandledEffect ==
  ASSUME TypeOK, [Next]_vars
  PROVE  \/ Handled' \subseteq Handled
         \/ \E r \in Requests : /\ Handled' = Handled \cup {r}
                                /\ Cardinality(Handled) <= Overlap
  <1> USE DEF Handled, Waiting, TypeOK
  <1>1. CASE Tick \/ UNCHANGED vars
    BY <1>1 DEF Tick, vars
  <1>2. ASSUME NEW r \in Requests, Arrive(r)
        PROVE  Handled' = Handled \cup {r} /\ Cardinality(Handled) <= Overlap
    <2>1. Cardinality(Handled) <= Overlap
      BY <1>2 DEF Arrive
    <2>2. stage' = [stage EXCEPT ![r] = "check"]
      BY <1>2 DEF Arrive, Goto
    <2> QED
      BY <2>1, <2>2
  <1>3. ASSUME NEW r \in Requests, Check(r) \/ CheckFails(r) \/ Add(r) \/ AddFails(r)
        PROVE  Handled' \subseteq Handled
    BY <1>3 DEF Check, CheckFails, Add, AddFails, Goto
  <1> QED
    BY <1>1, <1>2, <1>3 DEF Next

(* The clock does not run back, and few requests are handled at a time.    *)
LEMMA ArrivedNext ==
  ASSUME TypeOK, ArrivedBefore, [Next]_vars
  PROVE  ArrivedBefore'
  <1>1. clock \in Nat /\ clock' \in Nat /\ clock \in 1..clock' /\ clock <= clock'
    <2>1. clock' = clock \/ clock' = clock + 1
      BY DEF Next, Tick, Arrive, Check, CheckFails, Add, AddFails, Goto, vars
    <2> QED
      BY <2>1, RateLimiterAssumption DEF TypeOK, Times
  <1>2. ASSUME NEW r \in Requests, stage'[r] # "new" PROVE now'[r] \in 1..clock'
    <2>1. CASE stage[r] = "new"
      BY <1>1, <1>2, <2>1, ComesNow
    <2>2. CASE stage[r] # "new"
      <3>1. now[r] \in 1..clock /\ now'[r] = now[r]
        BY <2>2, AdmittedEffect DEF ArrivedBefore
      <3> QED
        BY <1>1, <3>1
    <2> QED
      BY <2>1, <2>2
  <1>3. IsFiniteSet(Admitted')
    BY AdmittedEffect, FS_AddElement DEF ArrivedBefore
  <1>4. IsFiniteSet(Handled') /\ Cardinality(Handled') <= Overlap + 1
    <2>1. IsFiniteSet(Handled) /\ Cardinality(Handled) <= Overlap + 1
          /\ Cardinality(Handled) \in Nat /\ Overlap \in Nat
      BY FS_CardinalityType, RateLimiterAssumption DEF ArrivedBefore
    <2>2. CASE Handled' \subseteq Handled
      <3>1. /\ IsFiniteSet(Handled') /\ Cardinality(Handled') <= Cardinality(Handled)
            /\ Cardinality(Handled') \in Nat
        BY <2>1, <2>2, FS_Subset, FS_CardinalityType
      <3> QED
        BY <2>1, <3>1
    <2>3. ASSUME NEW r \in Requests, Handled' = Handled \cup {r},
                 Cardinality(Handled) <= Overlap
          PROVE  IsFiniteSet(Handled') /\ Cardinality(Handled') <= Overlap + 1
      <3>1. /\ IsFiniteSet(Handled')
            /\ Cardinality(Handled') \in {Cardinality(Handled), Cardinality(Handled) + 1}
        BY <2>1, <2>3, FS_AddElement
      <3> QED
        BY <2>1, <2>3, <3>1
    <2> QED
      BY <2>2, <2>3, HandledEffect
  <1> QED
    BY <1>2, <1>3, <1>4 DEF ArrivedBefore

(* A request that arrives while no other is being handled comes after all  *)
(* that were answered: they took a tick at least.                          *)
LEMMA SureApartNext ==
  ASSUME TypeOK, ArrivedBefore, SureApart, [Next]_vars
  PROVE  SureApart'
  <1>1. CASE Tick \/ UNCHANGED vars
    BY <1>1 DEF Tick, vars, SureApart, Sure, Waiting, unsure
  <1>2. ASSUME NEW r \in Requests, Arrive(r) PROVE SureApart'
    <2>1. \A q \in Requests : q # r => stage'[q] = stage[q] /\ now'[q] = now[q]
      BY <1>2 DEF Arrive, Goto, TypeOK
    <2>2. stage'[r] = "check" /\ now'[r] = clock /\ unsure \subseteq unsure'
      BY <1>2 DEF Arrive, Goto, TypeOK, unsure
    <2>3. ASSUME NEW q \in Requests, q # r, Sure(r)', stage[q] # "new"
          PROVE  ~Waiting(q) /\ now[q] < clock
      <3>1. ~Waiting(q)
        BY <1>2, <2>3 DEF Arrive, Sure, Handled, unsure
      <3>2. stage[q] \in {"admitted", "rejected"}
        BY <2>3, <3>1 DEF Waiting, TypeOK, Stages
      <3> QED
        BY <1>2, <3>1, <3>2 DEF Arrive
    <2>4. \A q \in Requests : q # r /\ Sure(q)' => Sure(q)
      BY <2>1, <2>2 DEF Sure
    <2>5. ASSUME NEW q \in Requests, q # r, Sure(q)', Sure(r)'
          PROVE  ~Waiting(q)' /\ now'[q] < now'[r] /\ now'[q] # now'[r]
      <3>1. stage[q] # "new"
        BY <2>1, <2>5 DEF Sure
      <3>2. now[q] \in Int /\ clock \in Int
        BY DEF TypeOK, Times
      <3> QED
        BY <2>1, <2>2, <2>3, <2>5, <3>1, <3>2 DEF Waiting
    <2>6. ASSUME NEW p \in Requests, NEW q \in Requests, p # q, p # r, q # r,
                 Sure(p)', Sure(q)'
          PROVE  /\ now'[p] # now'[q]
                 /\ Waiting(p)' => ~Waiting(q)' /\ now'[q] < now'[p]
      BY <2>1, <2>4, <2>6 DEF SureApart, Waiting
    <2> QED
      BY <2>5, <2>6 DEF SureApart
  <1>3. ASSUME NEW r \in Requests, Check(r) \/ CheckFails(r) \/ Add(r) \/ AddFails(r)
        PROVE  SureApart'
    <2>1. now' = now /\ unsure \subseteq unsure'
      BY <1>3 DEF Check, CheckFails, Add, AddFails, unsure
    <2>2. \A q \in Requests : /\ Waiting(q)' => Waiting(q)
                              /\ stage'[q] # "new" => stage[q] # "new"
      BY <1>3 DEF Check, CheckFails, Add, AddFails, Goto, Waiting, TypeOK
    <2>3. ASSUME NEW p \in Requests, NEW q \in Requests, p # q, Sure(p)', Sure(q)'
          PROVE  /\ now'[p] # now'[q]
                 /\ Waiting(p)' => ~Waiting(q)' /\ now'[q] < now'[p]
      <3>1. Sure(p) /\ Sure(q)
        BY <2>1, <2>2, <2>3 DEF Sure
      <3> QED
        BY <2>1, <2>2, <2>3, <3>1 DEF SureApart
    <2> QED
      BY <2>3 DEF SureApart
  <1> QED
    BY <1>1, <1>2, <1>3 DEF Next

-----------------------------------------------------------------------------
(***************************************************************************)
(* The sorted set and its time to live.                                    *)
(***************************************************************************)

(* What trimming leaves.                                                   *)
LEMMA TrimEffect ==
  ASSUME NEW r \in Requests, Trim(r)
  PROVE  /\ hits' \subseteq hits
         /\ \A t \in hits : t > now[r] - Window => t \in hits'
         /\ \A t \in hits' : t > now[r] - Window
         /\ expires' = expires \/ (hits' = {} /\ expires' = Never)
  <1>1. hits' = {t \in hits : t > now[r] - Window}
    BY DEF Trim
  <1>2. expires' = IF hits' = {} THEN Never ELSE expires
    BY DEF Trim
  <1> QED
    BY <1>1, <1>2

(* Nothing is added to the set but the time of a request let through.      *)
LEMMA HitsAreAdmittedNext ==
  ASSUME TypeOK, HitsAreAdmitted, [Next]_vars
  PROVE  HitsAreAdmitted'
  <1>1. \A q \in Admitted : q \in Admitted' /\ now'[q] = now[q]
    BY AdmittedEffect DEF Admitted
  <1>2. CASE hits' \subseteq hits
    BY <1>1, <1>2 DEF HitsAreAdmitted
  <1>3. ASSUME NEW r \in Requests, Add(r) \/ AddFails(r) PROVE HitsAreAdmitted'
    <2>1. hits' \subseteq hits \cup {now'[r]} /\ r \in Admitted'
      BY <1>3 DEF Add, AddFails, Goto, Admitted, TypeOK
    <2> QED
      BY <1>1, <2>1 DEF HitsAreAdmitted
  <1>4. CASE Tick \/ (\E r \in Requests : Arrive(r) \/ Check(r) \/ CheckFails(r))
             \/ UNCHANGED vars
    <2>1. hits' \subseteq hits
      BY <1>4, TrimEffect DEF Tick, Arrive, Check, CheckFails, vars
    <2> QED
      BY <1>2, <2>1
  <1> QED
    BY <1>3, <1>4 DEF Next

(* The set keeps a request for a window: trimming drops what is a window   *)
(* older than a request of the past, and the key lives for a window after  *)
(* the last request was added.                                             *)
LEMMA HitsKeptNext ==
  ASSUME TypeOK, ArrivedBefore, HitsKept, [Next]_vars
  PROVE  HitsKept'
  <1> USE DEF Never
  <1>0. /\ clock \in Nat /\ Window \in Nat \ {0}
        /\ \A r \in Requests : now[r] \in Int
        /\ expires \in Int
    BY RateLimiterAssumption DEF TypeOK, Times
  <1>1. CASE Tick
    <2>1. Admitted' = Admitted /\ failed' = failed /\ now' = now /\ clock' = clock + 1
      BY <1>1 DEF Tick, Admitted
    <2>2. ASSUME NEW q \in Admitted \ failed
          PROVE  /\ now[q] > clock + 1 - Window => now[q] \in hits'
                 /\ expires' # Never => expires' >= now[q] + Window
      <3>1. q \in Requests
        BY DEF Admitted
      <3>2. /\ now[q] > clock - Window => now[q] \in hits
            /\ expires # Never => expires >= now[q] + Window
        BY <2>2 DEF HitsKept
      <3>3. CASE expires = clock + 1
        <4>1. expires' = Never /\ expires # Never
          BY <1>0, <1>1, <3>3 DEF Tick
        <4> QED
          BY <1>0, <3>1, <3>2, <3>3, <4>1
      <3>4. CASE expires # clock + 1
        <4>1. hits' = hits /\ expires' = expires
          BY <1>1, <3>4 DEF Tick
        <4> QED
          BY <1>0, <3>1, <3>2, <4>1
      <3> QED
        BY <3>3, <3>4
    <2>3. ASSUME NEW q \in Admitted' \ failed'
          PROVE  /\ now'[q] > clock' - Window => now'[q] \in hits'
                 /\ expires' # Never => expires' >= now'[q] + Window
      <3>1. q \in Admitted \ failed
        BY <2>1, <2>3
      <3>2. /\ now[q] > clock + 1 - Window => now[q] \in hits'
            /\ expires' # Never => expires' >= now[q] + Window
        BY <2>2, <3>1
      <3>3. now'[q] = now[q] /\ clock' - Window = clock + 1 - Window
        BY <1>0, <2>1
      <3> QED
        BY <3>2, <3>3
    <2> QED
      BY <2>3 DEF HitsKept
  <1>2. ASSUME clock' = clock, UNCHANGED <<hits, expires>>, now' = now \/ 
               (\E r \in Requests : Arrive(r)),
               Admitted' \ failed' \subseteq Admitted \ failed
        PROVE  HitsKept'
    <2>1. \A q \in Admitted : now'[q] = now[q]
      BY AdmittedEffect DEF Admitted
    <2> QED
      BY <1>2, <2>1 DEF HitsKept
  <1>3. ASSUME NEW r \in Requests, Arrive(r) PROVE HitsKept'
    <2>1. clock' = clock /\ UNCHANGED <<hits, expires>> /\ Admitted' \subseteq Admitted
      BY <1>3 DEF Arrive, Goto, Admitted, TypeOK
    <2> QED
      BY <1>2, <1>3, <2>1, AdmittedEffect
  <1>4. ASSUME NEW r \in Requests, Trim(r), stage[r] # "new", UNCHANGED <<clock, now>>,
               Admitted' \ failed' \subseteq Admitted \ failed
        PROVE  HitsKept'
    <2>1. now[r] <= clock
      BY <1>0, <1>4 DEF ArrivedBefore
    <2>2. ASSUME NEW q \in Admitted \ failed
          PROVE  /\ now[q] > clock - Window => now[q] \in hits'
                 /\ expires' # Never => expires' >= now[q] + Window
      <3>1. q \in Requests
        BY DEF Admitted
      <3>2. now[q] > clock - Window => now[q] > now[r] - Window
        BY <1>0, <2>1, <3>1
      <3> QED
        BY <1>4, <2>2, <3>2, TrimEffect DEF HitsKept
    <2> QED
      BY <1>4, <2>2 DEF HitsKept
  <1>5. ASSUME NEW r \in Requests, Check(r) PROVE HitsKept'
    <2>1. Admitted' = Admitted /\ failed' = failed /\ stage[r] # "new"
          /\ UNCHANGED <<clock, now>>
      BY <1>5 DEF Check, Goto, Admitted, TypeOK
    <2> QED
      BY <1>4, <1>5, <2>1 DEF Check
  <1>6. ASSUME NEW r \in Requests, CheckFails(r) PROVE HitsKept'
    <2>1. Admitted' \ failed' \subseteq Admitted \ failed /\ stage[r] # "new"
          /\ UNCHANGED <<clock, now>>
      BY <1>6 DEF CheckFails, Goto, Admitted, TypeOK
    <2> QED
      BY <1>2, <1>4, <1>6, <2>1 DEF CheckFails
  <1>7. ASSUME NEW r \in Requests, Add(r) \/ AddFails(r) PROVE HitsKept'
    <2>1. /\ UNCHANGED <<clock, now>> /\ now[r] <= clock
          /\ hits \subseteq hits' /\ expires' \in {expires, Never, clock + Window}
      BY <1>0, <1>7 DEF Add, AddFails, Goto, ArrivedBefore
    <2>2. ASSUME NEW q \in Admitted' \ failed'
          PROVE  \/ q \in Admitted \ failed
                 \/ q = r /\ now[r] \in hits' /\ expires' = clock + Window
      BY <1>7 DEF Add, AddFails, Goto, Admitted, TypeOK
    <2>3. ASSUME NEW q \in Admitted' \ failed'
          PROVE  /\ now[q] > clock - Window => now[q] \in hits'
                 /\ expires' # Never => expires' >= now[q] + Window
      <3>1. CASE q \in Admitted \ failed
        <4>1. q \in Requests /\ now[q] <= clock
          BY <1>0, <3>1 DEF Admitted, ArrivedBefore
        <4>2. now[q] > clock - Window => now[q] \in hits
          BY <3>1 DEF HitsKept
        <4>3. expires # Never => expires >= now[q] + Window
          BY <3>1 DEF HitsKept
        <4> QED
          BY <1>0, <2>1, <4>1, <4>2, <4>3
      <3>2. CASE q = r /\ now[r] \in hits' /\ expires' = clock + Window
        BY <1>0, <2>1, <3>2
      <3> QED
        BY <2>2, <3>1, <3>2
    <2> QED
      BY <2>1, <2>3 DEF HitsKept
  <1>8. CASE UNCHANGED vars
    BY <1>8 DEF vars, HitsKept, Admitted
  <1> QED
    BY <1>1, <1>3, <1>5, <1>6, <1>7, <1>8 DEF Next

-----------------------------------------------------------------------------
(***************************************************************************)
(* The limits.                                                             *)
(***************************************************************************)

LEMMA HitsFinite == TypeOK => IsFiniteSet(hits)
  <1>1. IsFiniteSet(1..MaxTime)
    BY RateLimiterAssumption, FS_Interval
  <1> QED
    BY <1>1, FS_Subset DEF TypeOK, Times

(* The moment of the count: the requests in the window left each a time of *)
(* its own in the set, which has not lost them.                            *)
LEMMA RoomAtCheck ==
  ASSUME TypeOK, ArrivedBefore, SureApart, HitsKept', 
         NEW r \in Requests, Check(r), r \notin unsure, stage'[r] = "add"
  PROVE  Cardinality(WindowOf(r)' \cup {r}) <= Limit[route[r]]
  <1> DEFINE W == WindowOf(r)'
  <1>1. /\ counted'[r] = clock /\ unsure' = unsure /\ now' = now /\ clock' = clock
        /\ Admitted' = Admitted /\ stage[r] = "check"
        /\ Cardinality(hits') < Limit[route[r]] /\ hits' \subseteq hits
    <2>1. hits' \subseteq hits
      BY TrimEffect DEF Check
    <2> QED
      BY <2>1 DEF Check, Goto, Admitted, TypeOK, unsure
  <1>2. ASSUME NEW q \in W
        PROVE  q \in Requests /\ Sure(q) /\ now[q] \in hits'
    <2>1. q \in Admitted' \ unsure' /\ now'[q] > counted'[r] - Window
      BY DEF WindowOf
    <2>2. now[q] \in hits'
      BY <1>1, <2>1 DEF HitsKept, unsure
    <2> QED
      BY <1>1, <2>1, <2>2 DEF Admitted, Sure
  <1>3. IsFiniteSet(hits') /\ Cardinality(hits') \in Nat
    BY <1>1, HitsFinite, FS_Subset, FS_CardinalityType
  <1>4. \A p, q \in W : now[p] = now[q] => p = q
    BY <1>2 DEF SureApart
  <1>5. IsFiniteSet(W) /\ Cardinality(W) <= Cardinality(hits')
    <2> HIDE DEF W
    <2> QED
      BY <1>2, <1>3, <1>4, TimesApart
  <1>6. Cardinality(W) \in Nat /\ Cardinality(W \cup {r}) \in {Cardinality(W), Cardinality(W) + 1}
    BY <1>5, FS_CardinalityType, FS_AddElement
  <1>7. Limit[route[r]] \in Nat
    BY RateLimiterAssumption DEF TypeOK
  <1> HIDE DEF W
  <1>8. Cardinality(W \cup {r}) <= Limit[route[r]]
    BY <1>1, <1>3, <1>5, <1>6, <1>7
  <1> QED
    BY <1>8 DEF W

(* Later nobody enters the window of a request that was counted: whoever   *)
(* is let through after it came after it.                                  *)
LEMMA WindowKept ==
  ASSUME TypeOK, SureApart, [Next]_vars,
         NEW r \in Requests \ unsure', stage[r] \in {"add", "admitted"}
  PROVE  WindowOf(r)' \cup {r} \subseteq WindowOf(r) \cup {r}
  <1>1. counted'[r] = counted[r]
    BY DEF Next, Tick, Arrive, Check, CheckFails, Add, AddFails, Goto, vars, TypeOK
  <1>2. Sure(r) /\ now'[r] = now[r]
    BY AdmittedEffect DEF Sure
  <1>3. ASSUME NEW q \in WindowOf(r)', q # r PROVE q \in WindowOf(r)
    <2>1. q \in Admitted' \ unsure' /\ q \in Requests
      BY DEF WindowOf, Admitted
    <2>2. now'[q] > counted'[r] - Window /\ now'[q] <= now'[r]
      BY DEF WindowOf
    <2>3. CASE q \in Admitted
      <3>1. now'[q] = now[q]
        BY <2>1, <2>3, AdmittedEffect DEF Admitted
      <3> QED
        BY <1>1, <1>2, <2>1, <2>2, <2>3, <3>1, AdmittedEffect DEF WindowOf
    <2>4. CASE q \notin Admitted
      <3>1. Waiting(q)
        BY <2>1, <2>4, AdmittedEffect
      <3>2. Sure(q) /\ now'[q] = now[q]
        BY <2>1, <3>1, AdmittedEffect DEF Waiting, Sure
      <3>3. now[r] < now[q] /\ now[r] \in Int /\ now[q] \in Int
        BY <1>2, <1>3, <2>1, <3>1, <3>2 DEF SureApart, TypeOK, Times
      <3> QED
        BY <1>2, <2>2, <3>2, <3>3
    <2> QED
      BY <2>3, <2>4
  <1> QED
    BY <1>3

LEMMA RoomFoundNext ==
  ASSUME TypeOK, ArrivedBefore, SureApart, HitsKept', RoomFound, [Next]_vars
  PROVE  RoomFound'
  <1>1. ASSUME NEW r \in Requests \ unsure', stage'[r] \in {"add", "admitted"}
        PROVE  Cardinality(WindowOf(r)' \cup {r}) <= Limit[route[r]]
    <2>1. CASE stage[r] \in {"add", "admitted"}
      <3>1. r \in Requests \ unsure
        BY AdmittedEffect
      <3>2. Cardinality(WindowOf(r) \cup {r}) <= Limit[route[r]]
        BY <2>1, <3>1 DEF RoomFound
      <3>3. WindowOf(r)' \cup {r} \subseteq WindowOf(r) \cup {r}
        BY <2>1, WindowKept
      <3>4. IsFiniteSet(WindowOf(r) \cup {r})
        <4>1. IsFiniteSet(WindowOf(r))
          BY FS_Subset DEF WindowOf, ArrivedBefore
        <4> QED
          BY <4>1, FS_AddElement
      <3>5. /\ Cardinality(WindowOf(r)' \cup {r}) <= Cardinality(WindowOf(r) \cup {r})
            /\ IsFiniteSet(WindowOf(r)' \cup {r})
        BY <3>3, <3>4, FS_Subset
      <3>6. Cardinality(WindowOf(r)' \cup {r}) \in Nat /\ Cardinality(WindowOf(r) \cup {r}) \in Nat
        BY <3>4, <3>5, FS_CardinalityType
      <3>7. Limit[route[r]] \in Nat
        BY RateLimiterAssumption DEF TypeOK
      <3> QED
        BY <3>2, <3>5, <3>6, <3>7
    <2>2. CASE stage[r] \notin {"add", "admitted"}
      <3>1. Check(r)
        BY <1>1, <2>2 DEF Next, Tick, Arrive, Check, CheckFails, Add, AddFails, Goto,
                          vars, TypeOK, unsure
      <3>2. r \notin unsure /\ stage'[r] = "add"
        BY <1>1, <3>1 DEF Check, Goto, TypeOK, unsure
      <3> QED
        BY <3>1, <3>2, RoomAtCheck
    <2> QED
      BY <2>1, <2>2
  <1> QED
    BY <1>1, AdmittedEffect DEF RoomFound

(* The moment of the count: whoever may still come into the window is in   *)
(* the set or is being handled, and there is room left in the set.         *)
LEMMA CrowdAtCheck ==
  ASSUME TypeOK, ArrivedBefore, HitsKept', NEW r \in Requests, Check(r), stage'[r] = "add"
  PROVE  Cardinality({now'[q] : q \in ComingTo(r)' \cup {r}}) <= Limit[route[r]] + Overlap
  <1> DEFINE T == {now'[q] : q \in ComingTo(r)' \cup {r}}
             L == {now[q] : q \in Handled}
  <1>1. /\ counted'[r] = clock /\ failed' = failed /\ now' = now /\ clock' = clock
        /\ Admitted' = Admitted /\ Handled' \subseteq Handled /\ r \in Handled
        /\ Cardinality(hits') < Limit[route[r]] /\ hits' \subseteq hits
    <2>1. hits' \subseteq hits
      BY TrimEffect DEF Check
    <2> QED
      BY <2>1 DEF Check, Goto, Admitted, TypeOK, Handled, Waiting
  <1>2. ASSUME NEW q \in ComingTo(r)' \cup {r} PROVE now'[q] \in hits' \cup L
    <2>1. CASE q \in Handled
      BY <1>1, <2>1
    <2>2. CASE q \notin Handled
      <3>1. q \in Admitted' \ failed' /\ now'[q] > counted'[r] - Window
        BY <1>1, <1>2, <2>2 DEF ComingTo
      <3> QED
        BY <1>1, <3>1 DEF HitsKept
    <2> QED
      BY <2>1, <2>2
  <1>3. IsFiniteSet(hits') /\ Cardinality(hits') \in Nat
    BY <1>1, HitsFinite, FS_Subset, FS_CardinalityType
  <1>4. /\ IsFiniteSet(L) /\ Cardinality(L) <= Cardinality(Handled)
        /\ Cardinality(L) \in Nat /\ Cardinality(Handled) \in Nat
    <2>1. IsFiniteSet(Handled) /\ \A t \in L : \E q \in Handled : now[q] = t
      BY DEF ArrivedBefore
    <2> HIDE DEF L
    <2>2. IsFiniteSet(L) /\ Cardinality(L) <= Cardinality(Handled)
      BY <2>1, TimesCovered
    <2> QED
      BY <2>1, <2>2, FS_CardinalityType
  <1>5. T \subseteq hits' \cup L
    BY <1>2
  <1> HIDE DEF T, L
  <1>6. /\ IsFiniteSet(hits' \cup L)
        /\ Cardinality(hits' \cup L) <= Cardinality(hits') + Cardinality(L)
    <2>1. IsFiniteSet(hits' \cap L) /\ Cardinality(hits' \cap L) \in Nat
      BY <1>3, FS_Intersection, FS_CardinalityType
    <2>2. /\ IsFiniteSet(hits' \cup L)
          /\ Cardinality(hits' \cup L)
               = Cardinality(hits') + Cardinality(L) - Cardinality(hits' \cap L)
      BY <1>3, <1>4, FS_Union
    <2> QED
      BY <1>3, <1>4, <2>1, <2>2
  <1>7. /\ Cardinality(T) <= Cardinality(hits' \cup L)
        /\ Cardinality(T) \in Nat /\ Cardinality(hits' \cup L) \in Nat
    BY <1>5, <1>6, FS_Subset, FS_CardinalityType
  <1>8. Limit[route[r]] \in Nat /\ Overlap \in Nat
    BY RateLimiterAssumption DEF TypeOK
  <1>9. Cardinality(Handled) <= Overlap + 1
    BY DEF ArrivedBefore
  <1>10. Cardinality(T) <= Limit[route[r]] + Overlap
    BY <1>1, <1>3, <1>4, <1>6, <1>7, <1>8, <1>9
  <1> QED
    BY <1>10 DEF T

(* Later no time comes into the window of a request that was counted: who  *)
(* arrives after it comes after it, or at its time.                        *)
LEMMA ComingKept ==
  ASSUME TypeOK, ArrivedBefore, [Next]_vars,
         NEW r \in Requests, stage[r] \in {"add", "admitted"}
  PROVE  {now'[q] : q \in ComingTo(r)' \cup {r}} \subseteq {now[q] : q \in ComingTo(r) \cup {r}}
  <1>1. counted'[r] = counted[r]
    BY DEF Next, Tick, Arrive, Check, CheckFails, Add, AddFails, Goto, vars, TypeOK
  <1>2. now'[r] = now[r] /\ now[r] \in Int /\ clock \in Int /\ now[r] <= clock
    BY AdmittedEffect DEF ArrivedBefore, TypeOK, Times
  <1>3. ASSUME NEW q \in ComingTo(r)' PROVE now'[q] \in {now[p] : p \in ComingTo(r) \cup {r}}
    <2>1. /\ q \in Requests /\ q \notin failed' /\ q \notin failed
          /\ stage'[q] \in {"check", "add", "admitted"}
          /\ now'[q] > counted[r] - Window /\ now'[q] <= now[r]
      BY <1>1, <1>2, AdmittedEffect DEF ComingTo, Admitted, Handled, Waiting
    <2>2. CASE stage[q] = "new"
      <3>1. now'[q] = clock
        BY <2>1, <2>2, ComesNow
      <3>2. now'[q] = now[r]
        BY <1>2, <2>1, <3>1
      <3> QED
        BY <3>2
    <2>3. CASE stage[q] # "new"
      <3>1. now'[q] = now[q] /\ stage[q] # "rejected"
        BY <2>1, <2>3, AdmittedEffect
      <3>2. stage[q] \in {"check", "add", "admitted"}
        BY <2>1, <2>3, <3>1 DEF TypeOK, Stages
      <3>3. q \in ComingTo(r)
        BY <2>1, <3>1, <3>2 DEF ComingTo, Admitted, Handled, Waiting
      <3> QED
        BY <3>1, <3>3
    <2> QED
      BY <2>2, <2>3
  <1> QED
    BY <1>2, <1>3

LEMMA ComingFinite ==
  ASSUME ArrivedBefore, NEW r
  PROVE  IsFiniteSet({now[q] : q \in ComingTo(r) \cup {r}})
  <1>1. IsFiniteSet(ComingTo(r))
    BY FS_Union, FS_Subset DEF ComingTo, ArrivedBefore
  <1>2. IsFiniteSet(ComingTo(r) \cup {r})
    BY <1>1, FS_AddElement
  <1> DEFINE S == ComingTo(r) \cup {r}
             T == {now[q] : q \in S}
  <1>3. \A t \in T : \E q \in S : now[q] = t
    OBVIOUS
  <1>4. IsFiniteSet(T)
    <2> HIDE DEF S, T
    <2>1. IsFiniteSet(S)
      BY <1>2 DEF S
    <2> QED
      BY <1>3, <2>1, TimesCovered
  <1> QED
    BY <1>4

LEMMA CrowdExpectedNext ==
  ASSUME TypeOK, ArrivedBefore, HitsKept', CrowdExpected, [Next]_vars
  PROVE  CrowdExpected'
  <1>1. ASSUME NEW r \in Requests \ failed', stage'[r] \in {"add", "admitted"}
        PROVE  Cardinality({now'[q] : q \in ComingTo(r)' \cup {r}}) <= Limit[route[r]] + Overlap
    <2>1. CASE stage[r] \in {"add", "admitted"}
      <3> DEFINE T == {now[q] : q \in ComingTo(r) \cup {r}}
                 U == {now'[q] : q \in ComingTo(r)' \cup {r}}
      <3>1. r \in Requests \ failed
        BY AdmittedEffect
      <3>2. Cardinality(T) <= Limit[route[r]] + Overlap
        BY <2>1, <3>1 DEF CrowdExpected
      <3>3. U \subseteq T
        BY <2>1, ComingKept
      <3>4. IsFiniteSet(T)
        BY ComingFinite
      <3> HIDE DEF T, U
      <3>5. /\ Cardinality(U) <= Cardinality(T)
            /\ Cardinality(U) \in Nat /\ Cardinality(T) \in Nat
        BY <3>3, <3>4, FS_Subset, FS_CardinalityType
      <3>6. Limit[route[r]] \in Nat /\ Overlap \in Nat
        BY RateLimiterAssumption DEF TypeOK
      <3>7. Cardinality(U) <= Limit[route[r]] + Overlap
        BY <3>2, <3>5, <3>6
      <3> QED
        BY <3>7 DEF U
    <2>2. CASE stage[r] \notin {"add", "admitted"}
      <3>1. Check(r)
        BY <1>1, <2>2 DEF Next, Tick, Arrive, Check, CheckFails, Add, AddFails, Goto,
                          vars, TypeOK
      <3>2. stage'[r] = "add"
        BY <1>1, <3>1 DEF Check, Goto, TypeOK
      <3> QED
        BY <3>1, <3>2, CrowdAtCheck
    <2> QED
      BY <2>1, <2>2
  <1> QED
    BY <1>1, AdmittedEffect DEF CrowdExpected

(* A request is refused because the set is full of requests let through in *)
(* its window, which stay let through.                                     *)
LEMMA RejectedNext ==
  ASSUME TypeOK, ArrivedBefore, ArrivedBefore', HitsAreAdmitted, RejectedOnlyWhenFull,
         [Next]_vars
  PROVE  RejectedOnlyWhenFull'
  <1> DEFINE Full(r) == {q \in Admitted : now[q] > now[r] - Window}
  <1>1. ASSUME NEW r \in Requests, stage'[r] = "rejected"
        PROVE  Cardinality(Full(r)') >= Limit[route[r]]
    <2>1. stage[r] # "new" /\ now'[r] = now[r]
      <3>1. stage[r] # "new"
        BY <1>1 DEF Next, Tick, Arrive, Check, CheckFails, Add, AddFails, Goto, vars, TypeOK
      <3> QED
        BY <3>1, AdmittedEffect
    <2>2. Full(r) \subseteq Full(r)'
      <3>1. \A q \in Admitted : q \in Admitted' /\ now'[q] = now[q]
        BY AdmittedEffect DEF Admitted
      <3> QED
        BY <2>1, <3>1
    <2>3. IsFiniteSet(Full(r)) /\ IsFiniteSet(Full(r)')
      BY FS_Subset DEF ArrivedBefore
    <2>4. Limit[route[r]] \in Nat
      BY RateLimiterAssumption DEF TypeOK
    <2>5. Cardinality(Full(r)) >= Limit[route[r]]
      <3>1. CASE stage[r] = "rejected"
        BY <3>1 DEF RejectedOnlyWhenFull
      <3>2. CASE stage[r] # "rejected"
        <4>1. Check(r)
          BY <1>1, <3>2 DEF Next, Tick, Arrive, Check, CheckFails, Add, AddFails, Goto,
                            vars, TypeOK
        <4>2. Cardinality(hits') >= Limit[route[r]]
          BY <1>1, <4>1 DEF Check, Goto, TypeOK
        <4>3. \A t \in hits' : \E q \in Full(r) : now[q] = t
          BY <4>1, TrimEffect DEF HitsAreAdmitted, Check
        <4>4. IsFiniteSet(hits') /\ Cardinality(hits') <= Cardinality(Full(r))
          <5> HIDE DEF Full
          <5> QED
            BY <2>3, <4>3, TimesCovered
        <4>5. Cardinality(hits') \in Nat /\ Cardinality(Full(r)) \in Nat
          BY <2>3, <4>4, FS_CardinalityType
        <4> HIDE DEF Full
        <4> QED
          BY <2>4, <4>2, <4>4, <4>5
      <3> QED
        BY <3>1, <3>2
    <2> HIDE DEF Full
    <2>6. /\ Cardinality(Full(r)) <= Cardinality(Full(r)')
          /\ Cardinality(Full(r)) \in Nat /\ Cardinality(Full(r)') \in Nat
      BY <2>2, <2>3, FS_Subset, FS_CardinalityType
    <2> QED
      BY <2>4, <2>5, <2>6
  <1> QED
    BY <1>1, AdmittedEffect DEF RejectedOnlyWhenFull

-----------------------------------------------------------------------------
(* Clock, sorted set, time to live and requests agree                      *)
(* (ratelimit.go:37-69).                                                   *)
THEOREM RateInvariant == Spec => []RateInv
  <1>1. Init => RateInv
    <2> SUFFICES ASSUME Init PROVE RateInv
      OBVIOUS
    <2> USE RateLimiterAssumption DEF Init
    <2>1. TypeOK
      BY DEF TypeOK, Stages, Times, Never
    <2>2. Admitted = {} /\ \A r \in Requests : stage[r] = "new"
      BY DEF Admitted
    <2>3. ArrivedBefore
      <3>1. Handled = {}
        BY <2>2 DEF Handled, Waiting
      <3> QED
        BY <2>2, <3>1, FS_EmptySet DEF ArrivedBefore
    <2>4. SureApart /\ HitsAreAdmitted /\ HitsKept /\ RoomFound /\ CrowdExpected
      BY <2>2 DEF SureApart, Sure, HitsAreAdmitted, HitsKept, RoomFound, CrowdExpected
    <2>5. RejectedOnlyWhenFull
      BY <2>2 DEF RejectedOnlyWhenFull
    <2> QED
      BY <2>1, <2>3, <2>4, <2>5 DEF RateInv
  <1>2. RateInv /\ [Next]_vars => RateInv'
    <2> SUFFICES ASSUME RateInv, [Next]_vars PROVE RateInv'
      OBVIOUS
    <2> USE DEF RateInv
    <2>1. TypeOK' /\ ArrivedBefore' /\ SureApart'
      BY RateTypeNext, ArrivedNext, SureApartNext
    <2>2. HitsAreAdmitted' /\ HitsKept'
      BY HitsAreAdmittedNext, HitsKeptNext
    <2>3. RoomFound' /\ CrowdExpected' /\ RejectedOnlyWhenFull'
      BY <2>1, <2>2, RoomFoundNext, CrowdExpectedNext, RejectedNext
    <2> QED
      BY <2>1, <2>2, <2>3
  <1> QED
    BY <1>1, <1>2, PTL DEF Spec

(* No window of a request that was let through holds more than its limit   *)
(* (ratelimit.go:42-68).                                                   *)
THEOREM WindowsBounded == Spec => []WindowBounded
  <1>1. RateInv => WindowBounded
    BY DEF RateInv, RoomFound, WindowBounded, Admitted
  <1> QED
    BY <1>1, RateInvariant, PTL

(* A request is refused only after as many as its limit were let through   *)
(* (ratelimit.go:46-60).                                                   *)
THEOREM RefusedOnlyWhenFull == Spec => []RejectedOnlyWhenFull
  <1>1. RateInv => RejectedOnlyWhenFull
    BY DEF RateInv
  <1> QED
    BY <1>1, RateInvariant, PTL

(* Requests that overlap overfill a window by one for each of those that   *)
(* another may find unfinished, and no more (ratelimit.go:46-66).          *)
THEOREM OverlapsAreBounded == Spec => []OverlapBounded
  <1>1. ASSUME RateInv PROVE OverlapBounded
    <2>1. ASSUME NEW r \in Admitted \ failed
          PROVE  Cardinality({now[q] : q \in CrowdOf(r) \cup {r}}) <= Limit[route[r]] + Overlap
      <3> DEFINE T == {now[q] : q \in ComingTo(r) \cup {r}}
                 U == {now[q] : q \in CrowdOf(r) \cup {r}}
      <3>1. U \subseteq T
        BY DEF CrowdOf, ComingTo
      <3>2. IsFiniteSet(T)
        BY <1>1, ComingFinite DEF RateInv
      <3>3. Cardinality(T) <= Limit[route[r]] + Overlap
        BY <1>1 DEF RateInv, CrowdExpected, Admitted
      <3>4. Limit[route[r]] \in Nat /\ Overlap \in Nat
        BY <1>1, RateLimiterAssumption DEF RateInv, TypeOK, Admitted
      <3> HIDE DEF T, U
      <3>5. /\ Cardinality(U) <= Cardinality(T)
            /\ Cardinality(U) \in Nat /\ Cardinality(T) \in Nat
        BY <3>1, <3>2, FS_Subset, FS_CardinalityType
      <3>6. Cardinality(U) <= Limit[route[r]] + Overlap
        BY <3>3, <3>4, <3>5
      <3> QED
        BY <3>6 DEF U
    <2> QED
      BY <2>1 DEF OverlapBounded
  <1> QED
    BY <1>1, RateInvariant, PTL

=============================================================================
