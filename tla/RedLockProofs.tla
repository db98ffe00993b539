--------------------------- MODULE RedLockProofs ---------------------------
(***************************************************************************)
(* Proofs about the distributed lock, for any number of requests, replicas *)
(* and masters, with any of the masters unreliable.                        *)
(***************************************************************************)
EXTENDS RedLock, FiniteSetTheorems, TLAPS

(* Two majorities of the masters share one. *)
LEMMA MajoritiesMeet ==
  ASSUME NEW S \in SUBSET Masters, NEW T \in SUBSET Masters,
         Majority(S), Majority(T)
  PROVE  S \cap T # {}
  <1>1. /\ IsFiniteSet(S) /\ IsFiniteSet(T)
        /\ Cardinality(S) \in Nat /\ Cardinality(T) \in Nat
        /\ Cardinality(Masters) \in Nat
    BY RedLockAssumption, FS_Subset, FS_CardinalityType
  <1>2. Cardinality(S) + Cardinality(T) > Cardinality(Masters)
    BY <1>1 DEF Majority
  <1> QED
    BY <1>2, RedLockAssumption, FS_MajoritiesIntersect

(* A set of masters that contains a majority is one. *)
LEMMA MajorityGrows ==
  ASSUME NEW S \in SUBSET Masters, NEW T \in SUBSET S, Majority(T)
  PROVE  Majority(S)
  <1>1. IsFiniteSet(S) /\ Cardinality(S) \in Nat /\ Cardinality(Masters) \in Nat
    BY RedLockAssumption, FS_Subset, FS_CardinalityType
  <1>2. Cardinality(T) <= Cardinality(S) /\ Cardinality(T) \in Nat
    BY <1>1, FS_Subset, FS_CardinalityType
  <1> QED
    BY <1>1, <1>2 DEF Majority

(* Two live leases would need the same master to store two values. *)
LEMMA LiveLeasesExclude ==
  ASSUME LockInv, Isolated, NEW r \in Requests, NEW q \in Requests,
         Live(r), Live(q)
  PROVE  r = q
  <1>1. Majority(granted[r]) /\ Majority(granted[q])
    BY DEF LockInv, HoldersHaveMajority
  <1>2. granted[r] \in SUBSET Masters /\ granted[q] \in SUBSET Masters
    BY DEF LockInv, TypeOK
  <1>3. PICK m \in Masters : m \in granted[r] /\ m \in granted[q]
    BY <1>1, <1>2, MajoritiesMeet
  <1>4. key[m] = r /\ key[m] = q
    BY <1>3 DEF LockInv, LeasesIntact, Leasing, Live
  <1> QED
    BY <1>4

(* The properties follow from the inductive invariant. *)
LEMMA LockInvImplies ==
  LockInv => MutualExclusion /\ LiveLeaseKept /\ LeaseHasMajority
  <1> SUFFICES ASSUME LockInv
               PROVE  MutualExclusion /\ LiveLeaseKept /\ LeaseHasMajority
    OBVIOUS
  <1>1. MutualExclusion
    BY LiveLeasesExclude DEF MutualExclusion
  <1>2. LiveLeaseKept
    BY DEF LockInv, LiveLeaseKept, LeasesIntact, Leasing, Live
  <1>3. LeaseHasMajority
    <2> SUFFICES ASSUME Isolated, NEW r \in Requests, Live(r)
                 PROVE  Majority({m \in Masters : key[m] = r})
      BY DEF LeaseHasMajority
    <2> DEFINE stored == {m \in Masters : key[m] = r}
    <2>1. Majority(granted[r]) /\ granted[r] \in SUBSET Masters
      BY DEF LockInv, HoldersHaveMajority, TypeOK
    <2>2. granted[r] \in SUBSET stored
      BY <2>1 DEF LockInv, LeasesIntact, Leasing, Live
    <2>3. stored \in SUBSET Masters
      OBVIOUS
    <2> HIDE DEF stored
    <2>4. Majority(stored)
      BY <2>1, <2>2, <2>3, MajorityGrows
    <2> QED
      BY <2>4 DEF stored
  <1> QED
    BY <1>1, <1>2, <1>3

(* Every delete is for a value at a master. *)
LEMMA DeletesType ==
  ASSUME NEW v \in Requests
  PROVE  /\ Deletes(v) \subseteq Masters \X Requests
         /\ \A m \in Masters, r \in Requests :
              <<m, r>> \in Deletes(v) => r = v
  <1> DEFINE there == {n \in Masters : key[n] = v \/ <<n, v>> \in setting}
  <1>1. Deletes(v) = {<<m, v>> : m \in there}
    BY DEF Deletes
  <1>2. there \subseteq Masters
    OBVIOUS
  <1> HIDE DEF there
  <1>3. Deletes(v) \subseteq Masters \X Requests
    BY <1>1, <1>2
  <1>4. \A m \in Masters, r \in Requests : <<m, r>> \in Deletes(v) => r = v
    BY <1>1
  <1> QED
    BY <1>3, <1>4

(* Every action keeps every variable within its type. *)
LEMMA LockTypeNext == TypeOK /\ [Next]_vars => TypeOK'
  <1> SUFFICES ASSUME TypeOK, [Next]_vars PROVE TypeOK'
    OBVIOUS
  <1> USE RedLockAssumption DEF TypeOK, Phases, MoveTo, ForgetVotes,
                                commands, votes
  <1>1. ASSUME NEW r \in Requests, TryLock(r) PROVE TypeOK'
    BY <1>1 DEF TryLock
  <1>2. ASSUME NEW r \in Requests, Win(r) PROVE TypeOK'
    BY <1>2 DEF Win
  <1>3. ASSUME NEW r \in Requests, Store(r) PROVE TypeOK'
    BY <1>3 DEF Store
  <1>4. ASSUME NEW r \in Requests, Taken(r) PROVE TypeOK'
    BY <1>4, DeletesType DEF Taken, Withdraw
  <1>5. ASSUME NEW r \in Requests, GiveUp(r) PROVE TypeOK'
    BY <1>5, DeletesType DEF GiveUp, Withdraw
  <1>6. ASSUME NEW r \in Requests, Release(r) PROVE TypeOK'
    <2>1. CASE locks[process[r]] = Nobody
      BY <1>6, <2>1 DEF Release
    <2>2. CASE locks[process[r]] # Nobody
      <3>1. locks[process[r]] \in Requests
        BY <2>2
      <3> QED
        BY <1>6, <2>2, <3>1, DeletesType DEF Release
    <2> QED
      BY <2>1, <2>2
  <1>7. ASSUME NEW r \in Requests, Lapse(r) PROVE TypeOK'
    BY <1>7 DEF Lapse
  <1>8. ASSUME NEW m \in Masters, NEW r \in Requests, SetNXAnswered(m, r)
        PROVE  TypeOK'
    BY <1>8 DEF SetNXAnswered
  <1>9. ASSUME NEW m \in Masters, NEW r \in Requests, SetNXUnanswered(m, r)
        PROVE  TypeOK'
    BY <1>9 DEF SetNXUnanswered
  <1>10. ASSUME NEW m \in Masters, NEW r \in Requests, DeleteIfEqual(m, r)
         PROVE  TypeOK'
    BY <1>10 DEF DeleteIfEqual
  <1>11. ASSUME NEW m \in Masters, Expire(m) PROVE TypeOK'
    BY <1>11 DEF Expire
  <1>12. ASSUME NEW p \in Processes, Crash(p) PROVE TypeOK'
    BY <1>12 DEF Crash
  <1>13. ASSUME NEW r \in Requests, Cancel(r) PROVE TypeOK'
    BY <1>13 DEF Cancel
  <1>14. ASSUME NEW r \in Requests, ReleaseCancelled(r) PROVE TypeOK'
    BY <1>14 DEF ReleaseCancelled
  <1>15. CASE UNCHANGED vars
    BY <1>15 DEF vars
  <1> QED
    BY <1>1, <1>2, <1>3, <1>4, <1>5, <1>6, <1>7, <1>8, <1>9, <1>10, <1>11,
       <1>12, <1>13, <1>14, <1>15 DEF Next

(* Nobody holds a lease at the start. *)
LEMMA LockInvInit == Init => LockInv
  <1> SUFFICES ASSUME Init PROVE LockInv
    OBVIOUS
  <1>1. TypeOK
    BY RedLockAssumption DEF Init, TypeOK, Phases
  <1>2. IdleLeavesNoTrace /\ TableConsistent
    BY DEF Init, IdleLeavesNoTrace, TableConsistent, Holder
  <1>3. HoldersHaveMajority /\ LeasesIntact
    BY DEF Init, HoldersHaveMajority, LeasesIntact, Leasing, Live, Holder
  <1> QED
    BY <1>1, <1>2, <1>3 DEF LockInv

(* Every command, answer, lapse and crash keeps the invariant. *)
LEMMA LockInvNext == LockInv /\ [Next]_vars => LockInv'
  <1> SUFFICES ASSUME LockInv, [Next]_vars PROVE LockInv'
    OBVIOUS
  <1>t. TypeOK /\ TypeOK'
    BY LockTypeNext DEF LockInv
  <1>i. /\ IdleLeavesNoTrace
        /\ TableConsistent
        /\ HoldersHaveMajority
        /\ Isolated => LeasesIntact
    BY DEF LockInv
  <1>g. SUFFICES /\ IdleLeavesNoTrace'
                 /\ TableConsistent'
                 /\ HoldersHaveMajority'
                 /\ Isolated' => LeasesIntact'
    BY <1>t DEF LockInv
  <1> DEFINE Goal == /\ IdleLeavesNoTrace'
                     /\ TableConsistent'
                     /\ HoldersHaveMajority'
                     /\ Isolated' => LeasesIntact'
  <1> USE RedLockAssumption
          DEF MoveTo, commands, votes, Holder, Leasing, Live
  <1>1. ASSUME NEW r \in Requests, TryLock(r) PROVE Goal
    <2>1. /\ phase[r] = "idle" /\ granted[r] = {}
          /\ phase' = [phase EXCEPT ![r] = "asking"]
          /\ UNCHANGED <<votes, deleting, key, lapsed, locks, overran>>
          /\ \A m \in Masters : <<m, r>> \notin deleting
      BY <1>i, <1>1 DEF TryLock, IdleLeavesNoTrace
    <2> QED
      BY <1>t, <1>i, <2>1
         DEF TypeOK, IdleLeavesNoTrace, TableConsistent, HoldersHaveMajority,
             Isolated, LeasesIntact
  <1>2. ASSUME NEW r \in Requests, Win(r) PROVE Goal
    BY <1>t, <1>i, <1>2
       DEF Win, TypeOK, IdleLeavesNoTrace, TableConsistent,
           HoldersHaveMajority, Isolated, LeasesIntact
  <1>3. ASSUME NEW r \in Requests, Store(r) PROVE Goal
    <2>1. IdleLeavesNoTrace' /\ HoldersHaveMajority'
          /\ (Isolated' => LeasesIntact')
      BY <1>t, <1>i, <1>3
         DEF Store, TypeOK, IdleLeavesNoTrace, HoldersHaveMajority, Isolated,
             LeasesIntact
    <2>2. TableConsistent'
      BY <1>t, <1>i, <1>3 DEF Store, TypeOK, TableConsistent
    <2> QED
      BY <2>1, <2>2
  <1>4. ASSUME NEW r \in Requests, NEW outcome \in {"taken", "failed"},
               Withdraw(r, outcome)
        PROVE  Goal
    <2>1. /\ phase[r] = "asking"
          /\ phase' = [phase EXCEPT ![r] = outcome]
          /\ deleting' = deleting \cup Deletes(r)
          /\ \A q \in Requests : q # r => granted'[q] = granted[q]
          /\ UNCHANGED <<key, lapsed, locks, overran>>
      BY <1>4 DEF Withdraw, ForgetVotes
    <2>2. \A q \in Requests : q # r =>
            \A m \in Masters : <<m, q>> \in deleting' => <<m, q>> \in deleting
      BY <2>1, DeletesType
    <2>3. phase'[r] = outcome /\ \A q \in Requests : q # r => phase'[q] = phase[q]
      BY <1>t, <2>1 DEF TypeOK
    <2>4. TableConsistent'
      BY <1>t, <1>i, <2>1, <2>3 DEF TypeOK, TableConsistent
    <2> QED
      BY <1>i, <2>1, <2>2, <2>3, <2>4
         DEF IdleLeavesNoTrace, HoldersHaveMajority, Isolated, LeasesIntact
  <1>5. ASSUME NEW r \in Requests, Release(r) PROVE Goal
    <2> DEFINE p == process[r]
               found == locks[p]
    <2>1. /\ phase[r] = "holding"
          /\ phase' = [phase EXCEPT ![r] = "released"]
          /\ locks' = [locks EXCEPT ![p] = Nobody]
          /\ deleting' = IF found = Nobody THEN deleting
                                          ELSE deleting \cup Deletes(found)
          /\ \A q \in Requests : q # r => granted'[q] = granted[q]
          /\ UNCHANGED <<key, lapsed, overran>>
      BY <1>5 DEF Release, ForgetVotes
    <2>2. p \in Processes /\ (found = Nobody \/ found \in Requests)
      BY <1>t DEF TypeOK
    <2>3. found # Nobody => phase[found] = "holding" /\ process[found] = p
      BY <1>i, <2>2 DEF TableConsistent
    <2>4. \A q \in Requests, m \in Masters :
            <<m, q>> \in deleting' => <<m, q>> \in deleting \/ q = found
      BY <2>1, <2>2, DeletesType
    <2>5. phase'[r] = "released"
          /\ \A q \in Requests : q # r => phase'[q] = phase[q]
      BY <1>t, <2>1 DEF TypeOK
    <2>6. TableConsistent'
      <3>1. ASSUME NEW x \in Processes, locks'[x] # Nobody
            PROVE  phase'[locks'[x]] = "holding" /\ process[locks'[x]] = x
        <4>1. x # p /\ locks'[x] = locks[x]
          BY <1>t, <2>1, <2>2, <3>1 DEF TypeOK
        <4>2. /\ locks[x] \in Requests
              /\ phase[locks[x]] = "holding"
              /\ process[locks[x]] = x
          BY <1>t, <1>i, <3>1, <4>1 DEF TypeOK, TableConsistent
        <4>3. locks[x] # r
          BY <4>1, <4>2
        <4> QED
          BY <2>5, <4>1, <4>2, <4>3
      <3> QED
        BY <1>i, <2>1, <2>5, <3>1 DEF TableConsistent
    <2>7. IdleLeavesNoTrace' /\ HoldersHaveMajority'
      <3>1. IdleLeavesNoTrace'
        BY <1>i, <2>1, <2>3, <2>4, <2>5 DEF IdleLeavesNoTrace
      <3>2. HoldersHaveMajority'
        BY <1>i, <2>1, <2>5 DEF HoldersHaveMajority
      <3> QED
        BY <3>1, <3>2
    <2>8. ASSUME Isolated' PROVE LeasesIntact'
      <3>1. Isolated /\ LeasesIntact
        BY <1>i, <2>1, <2>8 DEF Isolated
      <3>2. found # Nobody => found = r
        <4> SUFFICES ASSUME found # Nobody, found # r PROVE FALSE
          OBVIOUS
        <4>1. found \in Requests /\ phase[found] = "holding"
              /\ process[found] = process[r]
          BY <2>2, <2>3
        <4>2. r \notin overran /\ found \notin overran
          BY <3>1, <4>1 DEF Isolated
        <4>3. Live(r) /\ Live(found)
          BY <1>i, <2>1, <4>1, <4>2 DEF TableConsistent
        <4> QED
          BY <3>1, <4>1, <4>3, LiveLeasesExclude
      <3> QED
        BY <2>1, <2>2, <2>4, <2>5, <3>1, <3>2 DEF LeasesIntact
    <2> QED
      BY <2>6, <2>7, <2>8
  <1>6. ASSUME NEW r \in Requests, Lapse(r) PROVE Goal
    <2>1. TableConsistent'
      BY <1>t, <1>i, <1>6 DEF Lapse, TypeOK, TableConsistent
    <2>2. IdleLeavesNoTrace' /\ HoldersHaveMajority'
      BY <1>i, <1>6 DEF Lapse, IdleLeavesNoTrace, HoldersHaveMajority
    <2>3. Isolated' => LeasesIntact'
      BY <1>i, <1>6 DEF Lapse, Isolated, LeasesIntact
    <2> QED
      BY <2>1, <2>2, <2>3
  <1>7. ASSUME NEW m \in Masters, NEW r \in Requests, SetNXAnswered(m, r)
        PROVE  Goal
    <2>1. /\ phase[r] = "asking"
          /\ \/ key[m] = Nobody /\ key' = [key EXCEPT ![m] = r]
                /\ granted' = [granted EXCEPT ![r] = @ \cup {m}]
             \/ UNCHANGED <<key, granted>>
          /\ UNCHANGED <<phase, deleting, lapsed, locks, overran>>
      BY <1>7 DEF SetNXAnswered
    <2>2. IdleLeavesNoTrace' /\ TableConsistent'
      BY <1>t, <1>i, <2>1 DEF TypeOK, IdleLeavesNoTrace, TableConsistent
    <2>3. HoldersHaveMajority'
      BY <1>t, <1>i, <2>1 DEF TypeOK, HoldersHaveMajority
    <2>4. ASSUME Isolated' PROVE LeasesIntact'
      BY <1>t, <1>i, <2>1, <2>4 DEF TypeOK, Isolated, LeasesIntact
    <2> QED
      BY <2>2, <2>3, <2>4
  <1>8. ASSUME NEW m \in Masters, NEW r \in Requests, SetNXUnanswered(m, r)
        PROVE  Goal
    <2>1. /\ key' = IF key[m] = Nobody THEN [key EXCEPT ![m] = r] ELSE key
          /\ UNCHANGED <<phase, votes, deleting, lapsed, locks, overran>>
      BY <1>8 DEF SetNXUnanswered
    <2> QED
      BY <1>t, <1>i, <2>1
         DEF TypeOK, IdleLeavesNoTrace, TableConsistent, HoldersHaveMajority,
             Isolated, LeasesIntact
  <1>9. ASSUME NEW m \in Masters, NEW r \in Requests, DeleteIfEqual(m, r)
        PROVE  Goal
    <2>1. /\ <<m, r>> \in deleting
          /\ deleting' = deleting \ {<<m, r>>}
          /\ key' = IF key[m] = r THEN [key EXCEPT ![m] = Nobody] ELSE key
          /\ UNCHANGED <<phase, votes, lapsed, locks, overran>>
      BY <1>9 DEF DeleteIfEqual
    <2> QED
      BY <1>t, <1>i, <2>1
         DEF TypeOK, IdleLeavesNoTrace, TableConsistent, HoldersHaveMajority,
             Isolated, LeasesIntact
  <1>10. ASSUME NEW m \in Masters, Expire(m) PROVE Goal
    <2>1. /\ key[m] \in lapsed
          /\ key' = [key EXCEPT ![m] = Nobody]
          /\ UNCHANGED <<phase, votes, deleting, lapsed, locks, overran>>
      BY <1>10 DEF Expire
    <2> QED
      BY <1>t, <1>i, <2>1
         DEF TypeOK, IdleLeavesNoTrace, TableConsistent, HoldersHaveMajority,
             Isolated, LeasesIntact
  <1>11. ASSUME NEW p \in Processes, Crash(p) PROVE Goal
    <2> PICK victims \in SUBSET Requests :
          /\ \A r \in Requests :
               r \in victims <=> /\ process[r] = p
                                 /\ Holder(r) \/ phase[r] = "asking"
          /\ phase' = [r \in Requests |->
                         IF r \in victims THEN "crashed" ELSE phase[r]]
          /\ ForgetVotes(victims)
          /\ locks' = [locks EXCEPT ![p] = Nobody]
          /\ UNCHANGED <<deleting, key, lapsed, overran>>
      <3> DEFINE V == {r \in Requests : process[r] = p
                                        /\ (Holder(r) \/ phase[r] = "asking")}
      <3> WITNESS V \in SUBSET Requests
      <3> QED
        BY <1>11 DEF Crash
    <2>1. \A r \in Requests : r \notin victims =>
            phase'[r] = phase[r] /\ granted'[r] = granted[r]
      BY DEF ForgetVotes
    <2>2. \A r \in victims : phase'[r] = "crashed"
      OBVIOUS
    <2>3. TableConsistent'
      <3>1. ASSUME NEW x \in Processes, locks'[x] # Nobody
            PROVE  phase'[locks'[x]] = "holding" /\ process[locks'[x]] = x
        <4>1. x # p /\ locks'[x] = locks[x]
          BY <1>t, <3>1 DEF TypeOK
        <4>2. /\ locks[x] \in Requests
              /\ phase[locks[x]] = "holding"
              /\ process[locks[x]] = x
          BY <1>t, <1>i, <3>1, <4>1 DEF TypeOK, TableConsistent
        <4> QED
          BY <2>1, <4>1, <4>2
      <3> QED
        BY <1>i, <2>1, <2>2, <3>1 DEF TableConsistent
    <2>4. IdleLeavesNoTrace' /\ HoldersHaveMajority'
      BY <1>i, <2>1, <2>2 DEF IdleLeavesNoTrace, HoldersHaveMajority
    <2>5. Isolated' => LeasesIntact'
      BY <1>i, <2>1, <2>2 DEF Isolated, LeasesIntact
    <2> QED
      BY <2>3, <2>4, <2>5
  <1>12. ASSUME NEW r \in Requests, Cancel(r) PROVE Goal
    <2>1. /\ phase[r] = "asking"
          /\ phase' = [phase EXCEPT ![r] = "failed"]
          /\ \A q \in Requests : q # r => granted'[q] = granted[q]
          /\ UNCHANGED <<deleting, key, lapsed, locks, overran>>
      BY <1>12 DEF Cancel, ForgetVotes
    <2>2. phase'[r] = "failed" /\ \A q \in Requests : q # r => phase'[q] = phase[q]
      BY <1>t, <2>1 DEF TypeOK
    <2>3. TableConsistent'
      BY <1>t, <1>i, <2>1, <2>2 DEF TypeOK, TableConsistent
    <2> QED
      BY <1>i, <2>1, <2>2, <2>3
         DEF IdleLeavesNoTrace, HoldersHaveMajority, Isolated, LeasesIntact
  <1>13. ASSUME NEW r \in Requests, ReleaseCancelled(r) PROVE Goal
    <2> DEFINE p == process[r]
    <2>1. /\ phase[r] = "holding"
          /\ phase' = [phase EXCEPT ![r] = "released"]
          /\ locks' = [locks EXCEPT ![p] = Nobody]
          /\ \A q \in Requests : q # r => granted'[q] = granted[q]
          /\ UNCHANGED <<deleting, key, lapsed, overran>>
      BY <1>13 DEF ReleaseCancelled, ForgetVotes
    <2>2. phase'[r] = "released"
          /\ \A q \in Requests : q # r => phase'[q] = phase[q]
      BY <1>t, <2>1 DEF TypeOK
    <2>3. TableConsistent'
      <3>1. ASSUME NEW x \in Processes, locks'[x] # Nobody
            PROVE  phase'[locks'[x]] = "holding" /\ process[locks'[x]] = x
        <4>1. x # p /\ locks'[x] = locks[x]
          BY <1>t, <2>1, <3>1 DEF TypeOK
        <4>2. /\ locks[x] \in Requests
              /\ phase[locks[x]] = "holding"
              /\ process[locks[x]] = x
          BY <1>t, <1>i, <3>1, <4>1 DEF TypeOK, TableConsistent
        <4> QED
          BY <2>2, <4>1, <4>2
      <3> QED
        BY <1>i, <2>1, <2>2, <3>1 DEF TableConsistent
    <2> QED
      BY <1>i, <2>1, <2>2, <2>3
         DEF IdleLeavesNoTrace, HoldersHaveMajority, Isolated, LeasesIntact
  <1>14. CASE UNCHANGED vars
    BY <1>i, <1>14
       DEF vars, IdleLeavesNoTrace, TableConsistent, HoldersHaveMajority,
           Isolated, LeasesIntact
  <1> QED
    BY <1>1, <1>2, <1>3, <1>4, <1>5, <1>6, <1>7, <1>8, <1>9, <1>10, <1>11,
       <1>12, <1>13, <1>14 DEF Next, Taken, GiveUp

(* The invariant of the lock holds for any number of requests and masters. *)
THEOREM LockInvariant == Spec => []LockInv
  BY LockInvInit, LockInvNext, PTL DEF Spec

(* At most one request at a time holds an unexpired lease, while no        *)
(* request outlives its lease in a process it shares.                      *)
THEOREM LockExcludes == Spec => []MutualExclusion
  BY LockInvariant, LockInvImplies, PTL

(* Under the same condition a Release deletes nobody else's live lease.    *)
THEOREM LiveLeasesAreKept == Spec => []LiveLeaseKept
  BY LockInvariant, LockInvImplies, PTL

(* Under the same condition a lease in use is stored at a majority.        *)
THEOREM LeasesAreInForce == Spec => []LeaseHasMajority
  BY LockInvariant, LockInvImplies, PTL

=============================================================================
