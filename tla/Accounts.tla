------------------------------ MODULE Accounts ------------------------------
(***************************************************************************)
(* The accounts and sessions of the user service: concurrent               *)
(* registrations, logins and requests behind the authentication middleware *)
(* (services/user, shared/pkg/middleware/auth.go).                         *)
(*                                                                         *)
(* One action per MySQL statement or Redis command.  A session is a Redis  *)
(* key named by a random token, so a session is identified with the login  *)
(* that made it, and an account with the registration that created it.     *)
(* Passwords are right or wrong; personal data matter only through the     *)
(* email hash.  Redis may drop a session at any moment (24 hours pass, the *)
(* server restarts), and any request may be lost with its process.         *)
(***************************************************************************)
EXTENDS Integers, FiniteSets

CONSTANTS
  Emails,          \* email addresses
  Registrations,   \* POST /users/register requests
  Logins,          \* POST /users/login requests
  Calls,           \* requests that present a session token
  Nothing          \* no email, no account, no token

Kinds == {"me", "logout", "delete"}

Requests == Registrations \cup Logins \cup Calls

ASSUME AccountsAssumption ==
  /\ Registrations \cap Logins = {}
  /\ Calls \cap (Registrations \cup Logins) = {}
  /\ Nothing \notin Emails \cup Requests \cup {"redacted"}
  /\ "redacted" \notin Emails

VARIABLES
  email,      \* the address in a registration or login
  step,       \* the statement each request executes next
  reply,      \* how each request ended, "none" until it has
  hash,       \* users.email_hash of each account: an address or "redacted"
  found,      \* the account that a login has read
  session,    \* Redis: the account of each session
  token,      \* the token a call presents
  kind,       \* the route it goes to
  user,       \* the account the middleware has put into its context
  gone        \* history: accounts deleted before each login began

asked == <<email, found, gone>>
calls == <<token, kind, user>>
vars == <<asked, calls, step, reply, hash, session>>

Steps == {"start", "insert", "verify", "refresh", "handle", "done"}

Replies ==
  {"none", "lost", "created", "duplicate", "internal", "session", "invalid",
   "unauthorized", "ok"}

TypeOK ==
  /\ email \in [Registrations \cup Logins -> Emails]
  /\ step \in [Requests -> Steps]
  /\ reply \in [Requests -> Replies]
  /\ hash \in [Registrations -> Emails \cup {"redacted", Nothing}]
  /\ found \in [Logins -> Registrations \cup {Nothing}]
  /\ session \in [Logins -> Registrations \cup {Nothing}]
  /\ token \in [Calls -> Logins \cup {Nothing}]
  /\ kind \in [Calls -> Kinds]
  /\ user \in [Calls -> Registrations \cup {Nothing}]
  /\ gone \in [Logins -> SUBSET Registrations]

Init ==
  /\ email \in [Registrations \cup Logins -> Emails]
  /\ step = [q \in Requests |-> "start"]
  /\ reply = [q \in Requests |-> "none"]
  /\ hash = [a \in Registrations |-> Nothing]
  /\ found = [l \in Logins |-> Nothing]
  /\ session = [l \in Logins |-> Nothing]
  /\ token = [c \in Calls |-> Nothing]
  /\ kind \in [Calls -> Kinds]
  /\ user = [c \in Calls |-> Nothing]
  /\ gone = [l \in Logins |-> {}]

-----------------------------------------------------------------------------
(***************************************************************************)
(* Helpers.                                                                *)
(***************************************************************************)

Goto(q, from, to) ==
  /\ step[q] = from
  /\ step' = [step EXCEPT ![q] = to]
  /\ UNCHANGED reply

Answer(q, from, kindOfReply) ==
  /\ step[q] = from
  /\ step' = [step EXCEPT ![q] = "done"]
  /\ reply' = [reply EXCEPT ![q] = kindOfReply]

Taken(e) == \E a \in Registrations : hash[a] = e

-----------------------------------------------------------------------------
(***************************************************************************)
(* Register.                                                               *)
(***************************************************************************)

(* FindByEmailHash; the password is hashed before the INSERT, which takes  *)
(* its time.                                                               *)
CheckDuplicate(a) ==
  /\ \/ ~Taken(email[a]) /\ Goto(a, "start", "insert")
     \/ Taken(email[a]) /\ Answer(a, "start", "duplicate")
  /\ UNCHANGED <<asked, calls, hash, session>>

(* Mutant: no unique key on users.email_hash. *)
CreateUnchecked(a) ==
  /\ Answer(a, "insert", "created")
  /\ hash' = [hash EXCEPT ![a] = email[a]]
  /\ UNCHANGED <<asked, calls, session>>

(* users.email_hash is UNIQUE: the INSERT that comes second is an error    *)
(* like any other.                                                         *)
Create(a) ==
  /\ \/ /\ ~Taken(email[a])
        /\ Answer(a, "insert", "created")
        /\ hash' = [hash EXCEPT ![a] = email[a]]
     \/ /\ Taken(email[a])
        /\ Answer(a, "insert", "internal")
        /\ UNCHANGED hash
  /\ UNCHANGED <<asked, calls, session>>

-----------------------------------------------------------------------------
(***************************************************************************)
(* Login.                                                                  *)
(***************************************************************************)

(* Accounts whose deletion has been answered. *)
Deleted == {user[c] : c \in {d \in Calls : kind[d] = "delete" /\ reply[d] = "ok"}}

(* FindByEmailHash. *)
FindUser(l) ==
  /\ \/ /\ Taken(email[l])
        /\ Goto(l, "start", "verify")
        /\ \E a \in Registrations :
             hash[a] = email[l] /\ found' = [found EXCEPT ![l] = a]
     \/ /\ ~Taken(email[l])
        /\ Answer(l, "start", "invalid")
        /\ UNCHANGED found
  /\ gone' = [gone EXCEPT ![l] = Deleted]
  /\ UNCHANGED <<calls, email, hash, session>>

(* Mutant: the session is of the account that has the address by now. *)
StoreSessionOfAddress(l) ==
  /\ Answer(l, "verify", "session")
  /\ \E a \in Registrations :
       hash[a] = email[l] /\ session' = [session EXCEPT ![l] = a]
  /\ UNCHANGED <<asked, calls, hash>>

(* CompareHashAndPassword against the row read before, and SET. *)
StoreSession(l) ==
  /\ Answer(l, "verify", "session")
  /\ session' = [session EXCEPT ![l] = found[l]]
  /\ UNCHANGED <<asked, calls, hash>>

WrongPassword(l) ==
  /\ Answer(l, "verify", "invalid")
  /\ UNCHANGED <<asked, calls, hash, session>>

-----------------------------------------------------------------------------
(***************************************************************************)
(* The authentication middleware and the routes behind it.                 *)
(***************************************************************************)

(* Mutant: a key that is not there (redis.Nil) is no error. *)
AuthenticateUnchecked(c, l) ==
  /\ reply[l] = "session"
  /\ token' = [token EXCEPT ![c] = l]
  /\ user' = [user EXCEPT ![c] = session[l]]
  /\ Goto(c, "start", "refresh")
  /\ UNCHANGED <<asked, kind, hash, session>>

(* GET session:<token>, for a token that a login has handed out. *)
Authenticate(c, l) ==
  /\ reply[l] = "session"
  /\ token' = [token EXCEPT ![c] = l]
  /\ user' = [user EXCEPT ![c] = session[l]]
  /\ \/ session[l] # Nothing /\ Goto(c, "start", "refresh")
     \/ session[l] = Nothing /\ Answer(c, "start", "unauthorized")
  /\ UNCHANGED <<asked, kind, hash, session>>

(* Mutant: the refresh is a SET with a new time to live. *)
RefreshWithSet(c) ==
  /\ Goto(c, "refresh", "handle")
  /\ session' = [session EXCEPT ![token[c]] = user[c]]
  /\ UNCHANGED <<asked, calls, hash>>

(* EXPIRE session:<token>: nothing happens to a key that is not there. *)
Refresh(c) ==
  /\ Goto(c, "refresh", "handle")
  /\ UNCHANGED <<asked, calls, hash, session>>

Me(c) ==
  /\ kind[c] = "me"
  /\ Answer(c, "handle", "ok")
  /\ UNCHANGED <<asked, calls, hash, session>>

Logout(c) ==
  /\ kind[c] = "logout"
  /\ Answer(c, "handle", "ok")
  /\ session' = [session EXCEPT ![token[c]] = Nothing]
  /\ UNCHANGED <<asked, calls, hash>>

(* A random hash takes the place of the email hash. *)
AnonymizeAccount(c) ==
  /\ kind[c] = "delete"
  /\ Answer(c, "handle", "ok")
  /\ hash' = [hash EXCEPT ![user[c]] = "redacted"]
  /\ UNCHANGED <<asked, calls, session>>

-----------------------------------------------------------------------------
(***************************************************************************)
(* Failures.                                                               *)
(***************************************************************************)

(* A statement or a command fails: 500, or 401 from a login and from the   *)
(* middleware.                                                             *)
Fail(q) ==
  /\ \E s \in Steps \ {"done", "refresh"} : Answer(q, s, "internal")
  /\ UNCHANGED <<asked, calls, hash, session>>

(* The process of q crashes, before or after the statement it was about to *)
(* execute: the other actions cover the latter up to the answer.           *)
Lose(q) ==
  /\ \E s \in Steps \ {"done"} : Answer(q, s, "lost")
  /\ UNCHANGED <<asked, calls, hash, session>>

SessionEnds(l) ==
  /\ session[l] # Nothing
  /\ session' = [session EXCEPT ![l] = Nothing]
  /\ UNCHANGED <<asked, calls, step, reply, hash>>

Next ==
  \/ \E a \in Registrations : CheckDuplicate(a) \/ Create(a)
  \/ \E l \in Logins : \/ FindUser(l) \/ StoreSession(l) \/ WrongPassword(l)
                       \/ SessionEnds(l)
  \/ \E c \in Calls, l \in Logins : Authenticate(c, l)
  \/ \E c \in Calls : \/ Refresh(c) \/ Me(c) \/ Logout(c)
                      \/ AnonymizeAccount(c)
  \/ \E q \in Requests : Fail(q) \/ Lose(q)

Spec == Init /\ [][Next]_vars

-----------------------------------------------------------------------------
(***************************************************************************)
(* Properties.                                                             *)
(***************************************************************************)

(* Two accounts never share an email address, however registrations and    *)
(* deletions interleave (auth_service.go:55-90).                           *)
OneAccountPerEmail ==
  \A a, b \in Registrations :
    a # b /\ hash[a] = hash[b] => hash[a] \in {"redacted", Nothing}

(* A logout is final: once it is answered no request in flight brings the  *)
(* session back, not even one that passed the GET of the middleware before *)
(* and refreshes the session after (auth.go:34-45, auth_service.go:138).   *)
LoggedOutStaysOut ==
  \A c \in Calls :
    kind[c] = "logout" /\ reply[c] = "ok" => session[token[c]] = Nothing

(* An account is deleted only by a request with the token of a login that  *)
(* was given the password of that very account.  Sessions outlive their    *)
(* account and logins in flight may still get one, while the address of    *)
(* the account is free for the next owner: none of them reaches the        *)
(* account of that owner (auth_service.go:106-136, mysql_repo.go:67-82,    *)
(* handler.go:100-119).                                                    *)
OnlyOwnersDelete ==
  \A a \in Registrations : hash[a] = "redacted" =>
    \E c \in Calls :
      kind[c] = "delete" /\ reply[c] = "ok" /\ found[token[c]] = a

-----------------------------------------------------------------------------
(***************************************************************************)
(* The invariant that the proofs in AccountsProofs.tla rest on.            *)
(***************************************************************************)

(* Requests are answered once; a registration creates its account when it  *)
(* is answered, and not before.                                            *)
AnsweredOnce ==
  /\ \A q \in Requests : reply[q] # "none" <=> step[q] = "done"
  /\ \A a \in Registrations : hash[a] # Nothing => step[a] = "done"

(* A deletion that was answered holds for good. *)
DeletionKept ==
  /\ \A a \in Deleted : hash[a] = "redacted"
  /\ \A l \in Logins : \A a \in gone[l] : hash[a] = "redacted"

(* A session is of the account its login has read, which was not deleted   *)
(* when the login began.                                                   *)
SessionOfFound ==
  \A l \in Logins :
    /\ step[l] = "start" => found[l] = Nothing
    /\ step[l] = "verify" => found[l] # Nothing
    /\ found[l] # Nothing => hash[found[l]] # Nothing /\ found[l] \notin gone[l]
    /\ session[l] # Nothing => session[l] = found[l] /\ reply[l] = "session"

(* A request behind the middleware has the token of a login that is over   *)
(* and the account of its session; a logout has ended it.                  *)
Authenticated ==
  \A c \in Calls :
    step[c] \in {"refresh", "handle"} \/ reply[c] = "ok" =>
      /\ token[c] # Nothing /\ reply[token[c]] = "session"
      /\ user[c] # Nothing /\ user[c] = found[token[c]]
      /\ kind[c] = "logout" /\ reply[c] = "ok" => session[token[c]] = Nothing

(* Every session, request in flight and deletion refers to the right       *)
(* account, and no address has two (auth_service.go:55-136,                *)
(* auth.go:34-53).                                                         *)
AccountsInv ==
  /\ TypeOK
  /\ AnsweredOnce
  /\ OneAccountPerEmail
  /\ DeletionKept
  /\ SessionOfFound
  /\ Authenticated
  /\ OnlyOwnersDelete

=============================================================================
