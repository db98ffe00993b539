--------------------------- MODULE AccountsProofs ---------------------------
(***************************************************************************)
(* Proofs about accounts and sessions, for any number of registrations,    *)
(* logins and requests.                                                    *)
(***************************************************************************)
EXTENDS Accounts, TLAPS

(* A request that is answered "ok" has passed the middleware, so what it   *)
(* deleted is an account.                                                  *)
LEMMA DeletedAreAccounts ==
  ASSUME TypeOK, Authenticated
  PROVE  Deleted \subseteq Registrations
  BY DEF TypeOK, Authenticated, Deleted

(* What a request that has passed the middleware may rely on. *)
LEMMA HandledAccountExists ==
  ASSUME AccountsInv, NEW c \in Calls, step[c] = "handle"
  PROVE  /\ token[c] \in Logins /\ reply[token[c]] = "session"
         /\ user[c] \in Registrations /\ hash[user[c]] # Nothing
         /\ user[c] = found[token[c]]
  BY DEF AccountsInv, TypeOK, Authenticated, SessionOfFound

(* Every action keeps every variable within its type; for the deletions    *)
(* that a login remembers this needs more than the types.                  *)
LEMMA AccountsTypeNext ==
  TypeOK /\ Authenticated /\ [Next]_vars => TypeOK'
  <1> SUFFICES ASSUME TypeOK, Authenticated, [Next]_vars PROVE TypeOK'
    OBVIOUS
  <1> USE DEF TypeOK, Requests, Steps, Replies, Goto, Answer, asked, calls
  <1>1. ASSUME NEW a \in Registrations, CheckDuplicate(a) \/ Create(a)
        PROVE  TypeOK'
    BY <1>1 DEF CheckDuplicate, Create
  <1>2. ASSUME NEW l \in Logins, FindUser(l) PROVE TypeOK'
    BY <1>2, DeletedAreAccounts DEF FindUser
  <1>3. ASSUME NEW l \in Logins, StoreSession(l) \/ WrongPassword(l) PROVE TypeOK'
    BY <1>3 DEF StoreSession, WrongPassword
  <1>4. ASSUME NEW l \in Logins, SessionEnds(l) PROVE TypeOK'
    BY <1>4 DEF SessionEnds
  <1>5. ASSUME NEW c \in Calls, NEW l \in Logins, Authenticate(c, l) PROVE TypeOK'
    BY <1>5 DEF Authenticate
  <1>6. ASSUME NEW c \in Calls, Refresh(c) \/ Me(c) PROVE TypeOK'
    BY <1>6 DEF Refresh, Me
  <1>7. ASSUME NEW c \in Calls, Logout(c) PROVE TypeOK'
    BY <1>7 DEF Logout
  <1>8. ASSUME NEW c \in Calls, AnonymizeAccount(c) PROVE TypeOK'
    BY <1>8 DEF AnonymizeAccount
  <1>9. ASSUME NEW q \in Requests, Fail(q) \/ Lose(q) PROVE TypeOK'
    BY <1>9 DEF Fail, Lose
  <1>10. CASE UNCHANGED vars
    BY <1>10 DEF vars
  <1> QED
    BY <1>1, <1>2, <1>3, <1>4, <1>5, <1>6, <1>7, <1>8, <1>9, <1>10 DEF Next

(* Requests are answered once, and accounts created with their answer. *)
LEMMA AnsweredOnceNext ==
  AccountsInv /\ [Next]_vars => AnsweredOnce'
  <1> SUFFICES ASSUME AccountsInv, [Next]_vars PROVE AnsweredOnce'
    OBVIOUS
  <1> USE AccountsAssumption DEF AccountsInv, TypeOK, AnsweredOnce, Requests, Goto, Answer,
              asked, calls
  <1>1. ASSUME NEW a \in Registrations, CheckDuplicate(a) PROVE AnsweredOnce'
    BY <1>1 DEF CheckDuplicate
  <1>2. ASSUME NEW a \in Registrations, Create(a) PROVE AnsweredOnce'
    BY <1>2 DEF Create
  <1>3. ASSUME NEW l \in Logins, FindUser(l) PROVE AnsweredOnce'
    BY <1>3 DEF FindUser
  <1>4. ASSUME NEW l \in Logins, StoreSession(l) PROVE AnsweredOnce'
    BY <1>4 DEF StoreSession
  <1>5. ASSUME NEW l \in Logins, WrongPassword(l) PROVE AnsweredOnce'
    BY <1>5 DEF WrongPassword
  <1>6. ASSUME NEW l \in Logins, SessionEnds(l) PROVE AnsweredOnce'
    BY <1>6 DEF SessionEnds
  <1>7. ASSUME NEW c \in Calls, NEW l \in Logins, Authenticate(c, l)
        PROVE  AnsweredOnce'
    BY <1>7 DEF Authenticate
  <1>8. ASSUME NEW c \in Calls, Refresh(c) \/ Me(c) PROVE AnsweredOnce'
    BY <1>8 DEF Refresh, Me
  <1>9. ASSUME NEW c \in Calls, Logout(c) PROVE AnsweredOnce'
    BY <1>9 DEF Logout
  <1>10. ASSUME NEW c \in Calls, AnonymizeAccount(c) PROVE AnsweredOnce'
    BY <1>10, HandledAccountExists DEF AnonymizeAccount
  <1>11. ASSUME NEW q \in Requests, Fail(q) \/ Lose(q) PROVE AnsweredOnce'
    BY <1>11 DEF Fail, Lose, Steps
  <1>12. CASE UNCHANGED vars
    BY <1>12 DEF vars
  <1> QED
    BY <1>1, <1>2, <1>3, <1>4, <1>5, <1>6, <1>7, <1>8, <1>9, <1>10, <1>11,
       <1>12 DEF Next

(* The unique key keeps a second account from an address. *)
LEMMA OneAccountNext ==
  AccountsInv /\ [Next]_vars => OneAccountPerEmail'
  <1> SUFFICES ASSUME AccountsInv, [Next]_vars PROVE OneAccountPerEmail'
    OBVIOUS
  <1> USE AccountsAssumption DEF AccountsInv, TypeOK, OneAccountPerEmail, Requests, Goto, Answer,
              asked, calls
  <1>1. ASSUME NEW a \in Registrations, CheckDuplicate(a)
        PROVE  OneAccountPerEmail'
    BY <1>1 DEF CheckDuplicate
  <1>2. ASSUME NEW a \in Registrations, Create(a) PROVE OneAccountPerEmail'
    BY <1>2 DEF Create, Taken
  <1>3. ASSUME NEW l \in Logins, FindUser(l) PROVE OneAccountPerEmail'
    BY <1>3 DEF FindUser
  <1>4. ASSUME NEW l \in Logins, StoreSession(l) PROVE OneAccountPerEmail'
    BY <1>4 DEF StoreSession
  <1>5. ASSUME NEW l \in Logins, WrongPassword(l) PROVE OneAccountPerEmail'
    BY <1>5 DEF WrongPassword
  <1>6. ASSUME NEW l \in Logins, SessionEnds(l) PROVE OneAccountPerEmail'
    BY <1>6 DEF SessionEnds
  <1>7. ASSUME NEW c \in Calls, NEW l \in Logins, Authenticate(c, l)
        PROVE  OneAccountPerEmail'
    BY <1>7 DEF Authenticate
  <1>8. ASSUME NEW c \in Calls, Refresh(c) \/ Me(c) PROVE OneAccountPerEmail'
    BY <1>8 DEF Refresh, Me
  <1>9. ASSUME NEW c \in Calls, Logout(c) PROVE OneAccountPerEmail'
    BY <1>9 DEF Logout
  <1>10. ASSUME NEW c \in Calls, AnonymizeAccount(c) PROVE OneAccountPerEmail'
    BY <1>10, HandledAccountExists DEF AnonymizeAccount
  <1>11. ASSUME NEW q \in Requests, Fail(q) \/ Lose(q) PROVE OneAccountPerEmail'
    BY <1>11 DEF Fail, Lose, Steps
  <1>12. CASE UNCHANGED vars
    BY <1>12 DEF vars
  <1> QED
    BY <1>1, <1>2, <1>3, <1>4, <1>5, <1>6, <1>7, <1>8, <1>9, <1>10, <1>11,
       <1>12 DEF Next

(* No step undoes a deletion: an account is created once. *)
LEMMA DeletionKeptNext ==
  AccountsInv /\ [Next]_vars => DeletionKept'
  <1> SUFFICES ASSUME AccountsInv, [Next]_vars PROVE DeletionKept'
    OBVIOUS
  <1> USE AccountsAssumption DEF AccountsInv, TypeOK, AnsweredOnce, DeletionKept, Deleted, Requests,
              Goto, Answer, asked, calls
  <1>1. ASSUME NEW a \in Registrations, CheckDuplicate(a) PROVE DeletionKept'
    BY <1>1 DEF CheckDuplicate
  <1>2. ASSUME NEW a \in Registrations, Create(a) PROVE DeletionKept'
    <2>1. Deleted' = Deleted
      BY <1>2 DEF Create
    <2>2. hash[a] = Nothing
      BY <1>2 DEF Create
    <2>3. \A b \in Registrations : b # a => hash'[b] = hash[b]
      BY <1>2 DEF Create
    <2>4. \A b \in Deleted : b # a /\ b \in Registrations
      BY <2>2, DeletedAreAccounts
    <2>5. \A l \in Logins : \A b \in gone[l] : b # a /\ b \in Registrations
      BY <2>2
    <2>6. gone' = gone
      BY <1>2 DEF Create
    <2> HIDE DEF Deleted
    <2> QED
      BY <2>1, <2>3, <2>4, <2>5, <2>6
  <1>3. ASSUME NEW l \in Logins, FindUser(l) PROVE DeletionKept'
    BY <1>3 DEF FindUser
  <1>4. ASSUME NEW l \in Logins, StoreSession(l) PROVE DeletionKept'
    BY <1>4 DEF StoreSession
  <1>5. ASSUME NEW l \in Logins, WrongPassword(l) PROVE DeletionKept'
    BY <1>5 DEF WrongPassword
  <1>6. ASSUME NEW l \in Logins, SessionEnds(l) PROVE DeletionKept'
    BY <1>6 DEF SessionEnds
  <1>7. ASSUME NEW c \in Calls, NEW l \in Logins, Authenticate(c, l)
        PROVE  DeletionKept'
    BY <1>7 DEF Authenticate
  <1>8. ASSUME NEW c \in Calls, Refresh(c) \/ Me(c) PROVE DeletionKept'
    BY <1>8 DEF Refresh, Me
  <1>9. ASSUME NEW c \in Calls, Logout(c) PROVE DeletionKept'
    BY <1>9 DEF Logout
  <1>10. ASSUME NEW c \in Calls, AnonymizeAccount(c) PROVE DeletionKept'
    BY <1>10, HandledAccountExists DEF AnonymizeAccount
  <1>11. ASSUME NEW q \in Requests, Fail(q) \/ Lose(q) PROVE DeletionKept'
    BY <1>11 DEF Fail, Lose, Steps
  <1>12. CASE UNCHANGED vars
    BY <1>12 DEF vars
  <1> QED
    BY <1>1, <1>2, <1>3, <1>4, <1>5, <1>6, <1>7, <1>8, <1>9, <1>10, <1>11,
       <1>12 DEF Next

(* A session stays with the account that its login has read. *)
LEMMA SessionOfFoundNext ==
  AccountsInv /\ [Next]_vars => SessionOfFound'
  <1> SUFFICES ASSUME AccountsInv, [Next]_vars PROVE SessionOfFound'
    OBVIOUS
  <1> USE AccountsAssumption DEF AccountsInv, TypeOK, AnsweredOnce, DeletionKept, SessionOfFound,
              Requests, Goto, Answer, asked, calls
  <1>1. ASSUME NEW a \in Registrations, CheckDuplicate(a) PROVE SessionOfFound'
    BY <1>1 DEF CheckDuplicate
  <1>2. ASSUME NEW a \in Registrations, Create(a) PROVE SessionOfFound'
    BY <1>2 DEF Create
  <1>3. ASSUME NEW l \in Logins, FindUser(l) PROVE SessionOfFound'
    BY <1>3 DEF FindUser, Taken
  <1>4. ASSUME NEW l \in Logins, StoreSession(l) PROVE SessionOfFound'
    BY <1>4 DEF StoreSession
  <1>5. ASSUME NEW l \in Logins, WrongPassword(l) PROVE SessionOfFound'
    BY <1>5 DEF WrongPassword
  <1>6. ASSUME NEW l \in Logins, SessionEnds(l) PROVE SessionOfFound'
    BY <1>6 DEF SessionEnds
  <1>7. ASSUME NEW c \in Calls, NEW l \in Logins, Authenticate(c, l)
        PROVE  SessionOfFound'
    BY <1>7 DEF Authenticate
  <1>8. ASSUME NEW c \in Calls, Refresh(c) \/ Me(c) PROVE SessionOfFound'
    BY <1>8 DEF Refresh, Me
  <1>9. ASSUME NEW c \in Calls, Logout(c) PROVE SessionOfFound'
    BY <1>9 DEF Logout
  <1>10. ASSUME NEW c \in Calls, AnonymizeAccount(c) PROVE SessionOfFound'
    BY <1>10, HandledAccountExists DEF AnonymizeAccount
  <1>11. ASSUME NEW q \in Requests, Fail(q) \/ Lose(q) PROVE SessionOfFound'
    BY <1>11 DEF Fail, Lose, Steps
  <1>12. CASE UNCHANGED vars
    BY <1>12 DEF vars
  <1> QED
    BY <1>1, <1>2, <1>3, <1>4, <1>5, <1>6, <1>7, <1>8, <1>9, <1>10, <1>11,
       <1>12 DEF Next

(* The session of a token that was handed out is never set again. *)
LEMMA AuthenticatedNext ==
  AccountsInv /\ [Next]_vars => Authenticated'
  <1> SUFFICES ASSUME AccountsInv, [Next]_vars PROVE Authenticated'
    OBVIOUS
  <1> USE AccountsAssumption DEF AccountsInv, TypeOK, AnsweredOnce, SessionOfFound, Authenticated,
              Requests, Kinds, Goto, Answer, asked, calls
  <1>1. ASSUME NEW a \in Registrations, CheckDuplicate(a) PROVE Authenticated'
    BY <1>1 DEF CheckDuplicate
  <1>2. ASSUME NEW a \in Registrations, Create(a) PROVE Authenticated'
    BY <1>2 DEF Create
  <1>3. ASSUME NEW l \in Logins, FindUser(l) PROVE Authenticated'
    BY <1>3 DEF FindUser
  <1>4. ASSUME NEW l \in Logins, StoreSession(l) PROVE Authenticated'
    BY <1>4 DEF StoreSession
  <1>5. ASSUME NEW l \in Logins, WrongPassword(l) PROVE Authenticated'
    BY <1>5 DEF WrongPassword
  <1>6. ASSUME NEW l \in Logins, SessionEnds(l) PROVE Authenticated'
    BY <1>6 DEF SessionEnds
  <1>7. ASSUME NEW c \in Calls, NEW l \in Logins, Authenticate(c, l)
        PROVE  Authenticated'
    BY <1>7 DEF Authenticate
  <1>8. ASSUME NEW c \in Calls, Refresh(c) \/ Me(c) PROVE Authenticated'
    BY <1>8 DEF Refresh, Me
  <1>9. ASSUME NEW c \in Calls, Logout(c) PROVE Authenticated'
    BY <1>9 DEF Logout
  <1>10. ASSUME NEW c \in Calls, AnonymizeAccount(c) PROVE Authenticated'
    BY <1>10 DEF AnonymizeAccount
  <1>11. ASSUME NEW q \in Requests, Fail(q) \/ Lose(q) PROVE Authenticated'
    BY <1>11 DEF Fail, Lose, Steps
  <1>12. CASE UNCHANGED vars
    BY <1>12 DEF vars
  <1> QED
    BY <1>1, <1>2, <1>3, <1>4, <1>5, <1>6, <1>7, <1>8, <1>9, <1>10, <1>11,
       <1>12 DEF Next

(* A deletion is of the account that the login of its session has read,    *)
(* which nothing changes after the login is over.                          *)
LEMMA OnlyOwnersDeleteNext ==
  AccountsInv /\ [Next]_vars => OnlyOwnersDelete'
  <1> SUFFICES ASSUME AccountsInv, [Next]_vars PROVE OnlyOwnersDelete'
    OBVIOUS
  <1> DEFINE Deletes(c, a) ==
               kind[c] = "delete" /\ reply[c] = "ok" /\ found[token[c]] = a
  <1> USE AccountsAssumption DEF AccountsInv, TypeOK, AnsweredOnce, Authenticated, Requests,
              Goto, Answer, asked, calls
  <1>1. ASSUME NEW c \in Calls, NEW a \in Registrations, Deletes(c, a)
        PROVE  Deletes(c, a)'
    <2>1. step[c] = "done" /\ token[c] \in Logins /\ step[token[c]] = "done"
      BY <1>1
    <2>2. reply'[c] = reply[c] /\ kind'[c] = kind[c] /\ token'[c] = token[c]
      BY <1>1, <2>1 DEF Next, CheckDuplicate, Create, FindUser, StoreSession, WrongPassword,
         SessionEnds, Authenticate, Refresh, Me, Logout, AnonymizeAccount, Fail, Lose,
         Steps, vars
    <2>3. found'[token[c]] = found[token[c]]
      BY <2>1 DEF Next, CheckDuplicate, Create, FindUser, StoreSession, WrongPassword,
         SessionEnds, Authenticate, Refresh, Me, Logout, AnonymizeAccount, Fail, Lose,
         Steps, vars
    <2> QED
      BY <1>1, <2>2, <2>3
  <1>2. ASSUME NEW a \in Registrations, hash'[a] = "redacted", hash[a] # "redacted"
        PROVE  \E c \in Calls : Deletes(c, a)'
    <2>1. PICK c \in Calls : AnonymizeAccount(c)
      BY <1>2 DEF Next, CheckDuplicate, Create, FindUser, StoreSession, WrongPassword,
         SessionEnds, Authenticate, Refresh, Me, Logout, Fail, Lose, vars
    <2>2. user[c] = a /\ kind[c] = "delete" /\ reply'[c] = "ok" /\ UNCHANGED <<kind, token, found>>
      BY <1>2, <2>1 DEF AnonymizeAccount
    <2>3. found[token[c]] = a
      BY <2>1, <2>2 DEF AnonymizeAccount
    <2> QED
      BY <2>2, <2>3
  <1>3. ASSUME NEW a \in Registrations, hash'[a] = "redacted"
        PROVE  \E c \in Calls : Deletes(c, a)'
    <2>1. CASE hash[a] = "redacted"
      <3>1. PICK c \in Calls : Deletes(c, a)
        BY <2>1 DEF OnlyOwnersDelete
      <3> QED
        BY <1>1, <3>1
    <2> QED
      BY <1>2, <1>3, <2>1
  <1> QED
    BY <1>3 DEF OnlyOwnersDelete

(* The invariant of accounts and sessions holds for any number of          *)
(* requests.                                                               *)
THEOREM AccountsInvariant == Spec => []AccountsInv
  <1>1. Init => AccountsInv
    BY AccountsAssumption
    DEF Init, AccountsInv, TypeOK, AnsweredOnce, OneAccountPerEmail, Deleted,
        DeletionKept, SessionOfFound, Authenticated, OnlyOwnersDelete, Requests, Steps, Replies
  <1>2. AccountsInv /\ [Next]_vars => AccountsInv'
    BY AccountsTypeNext, AnsweredOnceNext, OneAccountNext, DeletionKeptNext,
       SessionOfFoundNext, AuthenticatedNext, OnlyOwnersDeleteNext DEF AccountsInv
  <1> QED
    BY <1>1, <1>2, PTL DEF Spec

(* Concurrent registrations never give two accounts one email address.     *)
THEOREM EmailsStayUnique == Spec => []OneAccountPerEmail
  <1>1. AccountsInv => OneAccountPerEmail
    BY DEF AccountsInv
  <1> QED
    BY <1>1, AccountsInvariant, PTL

(* No request in flight brings a session back that a logout has ended.     *)
THEOREM LogoutIsFinal == Spec => []LoggedOutStaysOut
  <1>1. AccountsInv => LoggedOutStaysOut
    BY DEF AccountsInv, Authenticated, LoggedOutStaysOut
  <1> QED
    BY <1>1, AccountsInvariant, PTL

(* Neither sessions nor logins that outlive an account reach the next one  *)
(* at its address.                                                         *)
THEOREM OwnersDelete == Spec => []OnlyOwnersDelete
  <1>1. AccountsInv => OnlyOwnersDelete
    BY DEF AccountsInv
  <1> QED
    BY <1>1, AccountsInvariant, PTL

=============================================================================
