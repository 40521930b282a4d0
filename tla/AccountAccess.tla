--------------------------- MODULE AccountAccess ---------------------------
(***************************************************************************)
(* Who may act for an account: its row, its gates, and its credentials     *)
(* (api/auth, api/operations/control/accounts.py).                         *)
(*                                                                         *)
(* An action is one transaction.  Every transaction that reads or changes  *)
(* a credential first locks the account's row; the one that keeps the lock *)
(* across an await is a login, whose password is verified in a thread      *)
(* (loggingIn).  A redemption looks its link up before it has the lock     *)
(* (redeeming), and a request was authenticated before its handler runs    *)
(* (inFlight): these two are views that others may have made old.          *)
(*                                                                         *)
(* Sessions and links are their digests: ids drawn at random, never issued *)
(* twice.  A password is the number of passwords the account had before    *)
(* it, and a session remembers which one opened it, and which privilege.   *)
(* An expired session or link is one that is gone, since every lookup      *)
(* refuses it.                                                             *)
(***************************************************************************)
EXTENDS Naturals, FiniteSets

CONSTANTS
  User,          \* account ids, one for each address that may register
  Exempt,        \* accounts without UserRow.verification_required
  SessionId,     \* session tokens that may be issued
  LinkId,        \* account tokens that may be mailed
  MaxPasswords   \* bound on the password replacements of an account

VARIABLES
  account,      \* account[u]: "unregistered", "present" or "erased"
  suspended,    \* accounts with UserRow.suspended_at
  quarantined,  \* accounts with UserRow.restore_quarantined_at
  verified,     \* accounts with UserRow.email_verified_at
  admin,        \* accounts with UserRow.is_admin
  password,     \* password[u]: which of its passwords the account has
  request,      \* request[u]: its deletion receipt: "none", "waiting", "due", "done"
  sessions,     \* session rows
  links,        \* account token rows
  spent,        \* session and link ids issued so far
  loggingIn,    \* logins that hold their account's row lock, with what they read
  redeeming,    \* links found by a redemption that waits for the account
  inFlight      \* requests authenticated and not yet handled

gateVars == <<account, suspended, quarantined, request>>
profileVars == <<verified, admin, password>>
credentialVars == <<sessions, links, spent>>
viewVars == <<loggingIn, redeeming, inFlight>>
accessVars == <<gateVars, profileVars, credentialVars, viewVars>>

Purpose == {"reset", "verify"}
SessionRow == [id : SessionId, user : User, password : Nat, admin : BOOLEAN]
LinkRow == [id : LinkId, user : User, purpose : Purpose]
Login == [user : User, password : Nat, admin : BOOLEAN, allowed : BOOLEAN]
Request == [id : SessionId, user : User, canLaunch : BOOLEAN]

AccessTypeOK ==
  /\ account \in [User -> {"unregistered", "present", "erased"}]
  /\ suspended \subseteq User
  /\ quarantined \subseteq User
  /\ verified \subseteq User
  /\ admin \subseteq User
  /\ password \in [User -> Nat]
  /\ request \in [User -> {"none", "waiting", "due", "done"}]
  /\ sessions \subseteq SessionRow
  /\ links \subseteq LinkRow
  /\ spent \subseteq SessionId \cup LinkId
  /\ loggingIn \subseteq Login
  /\ redeeming \subseteq LinkRow
  /\ inFlight \subseteq Request

AccessInit ==
  /\ account = [u \in User |-> "unregistered"]
  /\ suspended = {} /\ quarantined = {} /\ verified = {} /\ admin = {}
  /\ password = [u \in User |-> 0]
  /\ request = [u \in User |-> "none"]
  /\ sessions = {} /\ links = {} /\ spent = {}
  /\ loggingIn = {} /\ redeeming = {} /\ inFlight = {}

-----------------------------------------------------------------------------
Present == {u \in User : account[u] = "present"}

\* UserRow.access_allowed
Access == Present \ (suspended \cup quarantined)

\* Mutant: nobody waits for a login, which reads the account without FOR UPDATE.
Lockable_ByLogins(u) == account[u] = "present"

\* lock_account: SELECT ... FOR UPDATE returns the row
Lockable(u) == account[u] = "present" /\ \A n \in loggingIn : n.user # u

SessionsOf(u) == {x \in sessions : x.user = u}
LinksOf(u) == {k \in links : k.user = u}

\* AuthStore.current_user, for the session a request presents
Accepted(q) == \E x \in sessions : x.id = q.id /\ x.user = q.user /\ x.user \in Access

InvalidateCredentials(u) ==
  /\ sessions' = sessions \ SessionsOf(u)
  /\ links' = links \ LinksOf(u)

\* A token drawn at random: which of those never drawn before makes no difference.
Fresh(ids) == CHOOSE i \in ids : i \notin spent

\* issue_session: the token the browser presented is revoked in the same transaction
IssueSession(u, old, pw, adm) ==
  /\ SessionId \ spent # {}
  /\ sessions' = {x \in sessions : x.id # old}
                   \cup {[id |-> Fresh(SessionId), user |-> u,
                          password |-> pw, admin |-> adm]}
  /\ spent' = spent \cup {Fresh(SessionId)}

ReplacePassword(u) ==
  /\ password[u] < MaxPasswords
  /\ password' = [password EXCEPT ![u] = @ + 1]
  /\ InvalidateCredentials(u)

-----------------------------------------------------------------------------
(* Accounts and sessions *)

Register(u, old) ==
  /\ account[u] = "unregistered"
  /\ account' = [account EXCEPT ![u] = "present"]
  /\ IssueSession(u, old, password[u], FALSE)
  /\ UNCHANGED <<suspended, quarantined, request, profileVars, links, viewVars>>

\* find_user(lock=True): the row is locked and read, and the password goes to a thread
LoginStart(u) ==
  /\ Lockable(u)
  /\ loggingIn' = loggingIn \cup {[user |-> u, password |-> password[u],
                                   admin |-> u \in admin, allowed |-> u \in Access]}
  /\ UNCHANGED <<gateVars, profileVars, credentialVars, redeeming, inFlight>>

LoginEnd(n, old) ==
  /\ n \in loggingIn
  /\ loggingIn' = loggingIn \ {n}
  /\ n.allowed
  /\ IssueSession(n.user, old, n.password, n.admin)
  /\ UNCHANGED <<gateVars, profileVars, links, redeeming, inFlight>>

LoginFails(n) ==
  /\ n \in loggingIn
  /\ loggingIn' = loggingIn \ {n}
  /\ UNCHANGED <<gateVars, profileVars, credentialVars, redeeming, inFlight>>

\* A session is logged out, or expires.
EndSession(x) ==
  /\ x \in sessions
  /\ sessions' = sessions \ {x}
  /\ UNCHANGED <<gateVars, profileVars, links, spent, viewVars>>

Authenticate(x) ==
  /\ x \in sessions
  /\ x.user \in Access
  /\ inFlight' = inFlight \cup {[id |-> x.id, user |-> x.user,
                                 canLaunch |-> x.user \in verified \cup Exempt]}
  /\ UNCHANGED <<gateVars, profileVars, credentialVars, loggingIn, redeeming>>

\* The handler of a request ends; what it wrote is the rest of the action.
Handled(q) ==
  /\ q \in inFlight
  /\ inFlight' = inFlight \ {q}
  /\ UNCHANGED <<loggingIn, redeeming>>

RequestFails(q) == Handled(q) /\ UNCHANGED <<gateVars, profileVars, credentialVars>>

\* AccountCredentialStore.reauthenticate, the password being right
Reauthenticated(q) == Lockable(q.user) /\ Accepted(q)

ChangePassword(q) ==
  /\ Handled(q)
  /\ Reauthenticated(q)
  /\ ReplacePassword(q.user)
  /\ UNCHANGED <<gateVars, verified, admin, spent>>

RevokeSessions(q, keep) ==
  /\ Handled(q)
  /\ Reauthenticated(q)
  /\ sessions' = sessions \ {x \in SessionsOf(q.user) : keep => x.id # q.id}
  /\ UNCHANGED <<gateVars, profileVars, links, spent>>

-----------------------------------------------------------------------------
(* Links mailed to the address of an account *)

IssueLink(u, purpose) ==
  /\ Lockable(u)
  /\ u \in Access
  /\ purpose = "verify" => u \notin verified
  /\ LinkId \ spent # {}
  /\ spent' = spent \cup {Fresh(LinkId)}
  /\ links' = {k \in links : <<k.user, k.purpose>> # <<u, purpose>>}
                \cup {[id |-> Fresh(LinkId), user |-> u, purpose |-> purpose]}
  /\ UNCHANGED <<gateVars, profileVars, sessions, viewVars>>

LinkExpires(k) ==
  /\ k \in links
  /\ links' = links \ {k}
  /\ UNCHANGED <<gateVars, profileVars, sessions, spent, viewVars>>

RedeemLookup(k) ==
  /\ k \in links
  /\ redeeming' = redeeming \cup {k}
  /\ UNCHANGED <<gateVars, profileVars, credentialVars, loggingIn, inFlight>>

\* Mutant: what the lookup found before the account was locked is still believed.
Redeem_Unchecked(k) ==
  /\ k \in redeeming
  /\ Lockable(k.user)
  /\ redeeming' = redeeming \ {k}
  /\ verified' = IF k.purpose = "verify" THEN verified \cup {k.user} ELSE verified
  /\ ReplacePassword(k.user)
  /\ UNCHANGED <<gateVars, admin, spent, loggingIn, inFlight>>

\* lock_redeemable_user checks the gates and the link again; either purpose sets a password
Redeem(k) ==
  /\ k \in redeeming
  /\ Lockable(k.user)
  /\ k.user \in Access
  /\ k \in links
  /\ redeeming' = redeeming \ {k}
  /\ verified' = IF k.purpose = "verify" THEN verified \cup {k.user} ELSE verified
  /\ ReplacePassword(k.user)
  /\ UNCHANGED <<gateVars, admin, spent, loggingIn, inFlight>>

RedeemFails(k) ==
  /\ k \in redeeming
  /\ redeeming' = redeeming \ {k}
  /\ UNCHANGED <<gateVars, profileVars, credentialVars, loggingIn, inFlight>>

-----------------------------------------------------------------------------
(* Operators.  Suspend is a part of two transactions and leaves the runs to *)
(* them; the others are whole.                                             *)

SuspendAccount(u) ==
  /\ Lockable(u)
  /\ suspended' = suspended \cup {u}
  /\ InvalidateCredentials(u)

\* Mutant: a resumption does not ask for a deletion receipt.
Resume_Unfenced(u) ==
  /\ Lockable(u)
  /\ u \notin quarantined
  /\ suspended' = suspended \ {u}
  /\ UNCHANGED <<account, quarantined, request, profileVars, credentialVars, viewVars>>

Resume(u) ==
  /\ Lockable(u)
  /\ request[u] = "none"
  /\ u \notin quarantined
  /\ suspended' = suspended \ {u}
  /\ UNCHANGED <<account, quarantined, request, profileVars, credentialVars, viewVars>>

SetAdmin(u, enabled) ==
  /\ Lockable(u)
  /\ enabled => request[u] = "none" /\ u \in Access \cap verified
  /\ (u \in admin) # enabled
  /\ admin' = IF enabled THEN admin \cup {u} ELSE admin \ {u}
  /\ sessions' = sessions \ SessionsOf(u)
  /\ UNCHANGED <<gateVars, verified, password, links, spent, viewVars>>

-----------------------------------------------------------------------------
AccountAction(u) ==
  \/ \E old \in SessionId : Register(u, old)
  \/ LoginStart(u)
  \/ \E purpose \in Purpose : IssueLink(u, purpose)
  \/ Resume(u)
  \/ \E enabled \in BOOLEAN : SetAdmin(u, enabled)

CredentialAction ==
  \/ \E n \in loggingIn : LoginFails(n) \/ \E old \in SessionId : LoginEnd(n, old)
  \/ \E x \in sessions : EndSession(x) \/ Authenticate(x)
  \/ \E k \in links : LinkExpires(k) \/ RedeemLookup(k)
  \/ \E k \in redeeming : Redeem(k) \/ RedeemFails(k)
  \/ \E q \in inFlight : RequestFails(q) \/ ChangePassword(q)
                         \/ \E keep \in BOOLEAN : RevokeSessions(q, keep)

AccessNext == CredentialAction \/ \E u \in User : AccountAction(u)

-----------------------------------------------------------------------------
\* A session never outlives the password or the privilege it was opened with, nor
\* the access of its account; no link outlives that access either.  Logins,
\* redemptions and requests that began earlier race changes, grants, suspension,
\* quarantine and deletion (auth/routes.py, auth/recovery/store, auth/access.py).
CredentialsAreCurrent ==
  /\ \A x \in sessions : /\ x.user \in Access
                         /\ x.password = password[x.user]
                         /\ x.admin = (x.user \in admin)
  /\ \A k \in links : k.user \in Access

\* A mailed link replaces a password at most once: whoever finds it and then waits
\* for the account finds it gone after another redemption (lock_redeemable_user).
\* What a link does takes its session, and a password is replaced by a link that
\* still stands or by a session that still stands.
PasswordsChangeByProof ==
  [][\A u \in User : password'[u] # password[u] =>
       /\ u \in Access
       /\ \/ \E k \in LinksOf(u) : k \in redeeming /\ k \notin redeeming'
          \/ \E x \in SessionsOf(u), q \in inFlight \ inFlight' : q.id = x.id]_accessVars

=============================================================================
