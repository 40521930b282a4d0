-------------------------- MODULE WebBackendProofs --------------------------
(***************************************************************************)
(* Two parts of the web backend that share no state: the accounts, for any *)
(* number of accounts, sessions, links, bots and runs and any size of the  *)
(* batches, and the event stream of a run, for any viewers and events.     *)
(***************************************************************************)
EXTENDS AccountLifecycle, RunEventStream, FiniteSetTheorems, TLAPS

-----------------------------------------------------------------------------
(* Accounts: types *)

\* A token drawn at random is one of those that may be drawn.
LEMMA FreshIsDrawn ==
  ASSUME NEW ids, ids \ spent # {}
  PROVE  Fresh(ids) \in ids /\ Fresh(ids) \notin spent
BY DEF Fresh

\* Positions in an order of runs or receipts are numbers: there are finitely many.
LEMMA CountsAreNumbers ==
  /\ \A S \in SUBSET Run : Cardinality(S) \in Nat
  /\ \A S \in SUBSET User : Cardinality(S) \in Nat
BY LifecycleAssumption, FS_Subset, FS_CardinalityType

LEMMA AccessTypePreserved ==
  ASSUME AccessTypeOK, AccessNext
  PROVE  AccessTypeOK'
<1> USE FreshIsDrawn DEF AccessTypeOK, gateVars, profileVars, credentialVars, viewVars
<1>1. ASSUME NEW u \in User, AccountAction(u)
      PROVE  AccessTypeOK'
  <2>1. ASSUME NEW old \in SessionId, Register(u, old)
        PROVE  AccessTypeOK'
    <3> DEFINE row == [id |-> Fresh(SessionId), user |-> u,
                       password |-> password[u], admin |-> FALSE]
    <3>1. Fresh(SessionId) \in SessionId /\ row \in SessionRow
      BY <2>1 DEF Register, IssueSession, SessionRow
    <3>2. account' \in [User -> {"unregistered", "present", "erased"}]
      BY <2>1 DEF Register
    <3>3. /\ sessions' = {x \in sessions : x.id # old} \cup {row}
          /\ spent' = spent \cup {Fresh(SessionId)}
      BY <2>1 DEF Register, IssueSession
    <3> HIDE DEF row
    <3>4. sessions' \subseteq SessionRow /\ spent' \subseteq SessionId \cup LinkId
      BY <3>1, <3>3
    <3> QED BY <2>1, <3>2, <3>4 DEF Register
  <2>2. CASE LoginStart(u)
    <3>1. (u \in admin) \in BOOLEAN /\ (u \in Access) \in BOOLEAN
      OBVIOUS
    <3>2. PICK a \in BOOLEAN, b \in BOOLEAN :
            loggingIn' = loggingIn \cup {[user |-> u, password |-> password[u],
                                          admin |-> a, allowed |-> b]}
      BY <2>2, <3>1, Zenon DEF LoginStart
    <3>3. [user |-> u, password |-> password[u], admin |-> a, allowed |-> b] \in Login
      BY DEF Login
    <3> QED BY <2>2, <3>2, <3>3 DEF LoginStart
  <2>3. ASSUME NEW purpose \in Purpose, IssueLink(u, purpose)
        PROVE  AccessTypeOK'
    BY <2>3 DEF IssueLink, LinkRow
  <2>4. CASE Resume(u)
    BY <2>4 DEF Resume
  <2>5. ASSUME NEW enabled \in BOOLEAN, SetAdmin(u, enabled)
        PROVE  AccessTypeOK'
    BY <2>5 DEF SetAdmin
  <2> QED BY <1>1, <2>1, <2>2, <2>3, <2>4, <2>5 DEF AccountAction
<1>2. ASSUME NEW n \in loggingIn
      PROVE  /\ LoginFails(n) => AccessTypeOK'
             /\ \A old \in SessionId : LoginEnd(n, old) => AccessTypeOK'
  <2>1. n \in Login
    OBVIOUS
  <2> QED BY <2>1 DEF LoginFails, LoginEnd, IssueSession, SessionRow, Login
<1>3. ASSUME NEW x \in sessions
      PROVE  EndSession(x) \/ Authenticate(x) => AccessTypeOK'
  <2>1. CASE Authenticate(x)
    <3>1. (x.user \in verified \cup Exempt) \in BOOLEAN
      OBVIOUS
    <3>2. PICK c \in BOOLEAN :
            inFlight' = inFlight \cup {[id |-> x.id, user |-> x.user, canLaunch |-> c]}
      BY <2>1, <3>1, Zenon DEF Authenticate
    <3>3. [id |-> x.id, user |-> x.user, canLaunch |-> c] \in Request
      BY x \in SessionRow DEF Request, SessionRow
    <3> QED BY <2>1, <3>2, <3>3 DEF Authenticate
  <2> QED BY <2>1 DEF EndSession
<1>4. ASSUME NEW k \in links
      PROVE  LinkExpires(k) \/ RedeemLookup(k) => AccessTypeOK'
  BY DEF LinkExpires, RedeemLookup
<1>5. ASSUME NEW k \in redeeming
      PROVE  Redeem(k) \/ RedeemFails(k) => AccessTypeOK'
  <2>1. k \in LinkRow
    OBVIOUS
  <2> QED BY <2>1 DEF Redeem, RedeemFails, ReplacePassword, InvalidateCredentials, LinkRow
<1>6. ASSUME NEW q \in inFlight
      PROVE  /\ RequestFails(q) \/ ChangePassword(q) => AccessTypeOK'
             /\ \A keep \in BOOLEAN : RevokeSessions(q, keep) => AccessTypeOK'
  <2>1. q \in Request
    OBVIOUS
  <2> QED BY <2>1 DEF RequestFails, ChangePassword, RevokeSessions, Handled,
                      ReplacePassword, InvalidateCredentials, Request
<1> QED BY <1>1, <1>2, <1>3, <1>4, <1>5, <1>6 DEF AccessNext, CredentialAction

RunTypeOK ==
  /\ phase \in [Run -> {"unborn", "waiting", "executing", "concluded", "erased"}]
  /\ createdAt \in [Run -> Nat]
  /\ endedAt \in [Run -> Nat]
  /\ aged \subseteq Run
  /\ hidden \subseteq Run
  /\ purged \in [Run -> 0..Events]

LEMMA ConclusionsTyped ==
  ASSUME RunTypeOK, NEW S \in SUBSET Run, ConcludeRuns(S)
  PROVE  RunTypeOK'
<1>1. Cardinality(InPhase("concluded") \cup InPhase("erased")) \in Nat
  BY CountsAreNumbers DEF InPhase
<1> QED BY <1>1 DEF RunTypeOK, ConcludeRuns

LEMMA PurgesTyped ==
  ASSUME RunTypeOK, NEW S \in SUBSET Run, PurgeRuns(S)
  PROVE  RunTypeOK'
<1>1. Events \in Nat /\ EventBatch \in Nat \ {0}
  BY LifecycleAssumption
<1>2. purged' \in [Run -> 0..Events]
  BY <1>1 DEF RunTypeOK, PurgeRuns
<1> QED BY <1>2 DEF RunTypeOK, PurgeRuns

LEMMA RequestTypes ==
  ASSUME LifecycleTypeOK, NEW q \in inFlight, RequestAction(q)
  PROVE  LifecycleTypeOK'
<1> USE DEF LifecycleTypeOK, AccessTypeOK, Handled,
            gateVars, profileVars, credentialVars, runVars
<1>1. q.user \in User
  BY DEF Request
<1>2. ASSUME NEW b \in Bot, CreateBot(q, b) \/ SoftDelete(q, b)
      PROVE  LifecycleTypeOK'
  BY <1>2 DEF CreateBot, SoftDelete
<1>3. ASSUME NEW r \in Run, Launch(q, r)
      PROVE  LifecycleTypeOK'
  <2>1. Cardinality(Run \ InPhase("unborn")) \in Nat
    BY CountsAreNumbers
  <2> QED BY <1>3, <2>1 DEF Launch
<1>4. CASE RequestDeletion(q)
  <2>1. RunTypeOK /\ ConcludeRuns(Unfinished \cap OwnedBy(q.user))
    BY <1>4 DEF RunTypeOK, RequestDeletion
  <2>2. RunTypeOK'
    BY <2>1, ConclusionsTyped DEF OwnedBy
  <2>3. ReceiptsSoFar \in Nat
    BY CountsAreNumbers DEF ReceiptsSoFar
  <2>4. /\ suspended' \subseteq User /\ sessions' \subseteq sessions /\ links' \subseteq links
        /\ request' \in [User -> {"none", "waiting", "due", "done"}]
        /\ requestedAt' \in [User -> Nat]
    BY <1>1, <1>4, <2>3 DEF RequestDeletion, SuspendAccount, InvalidateCredentials
  <2> QED BY <1>4, <2>2, <2>4 DEF RunTypeOK, RequestDeletion
<1> QED BY <1>2, <1>3, <1>4 DEF RequestAction

LEMMA MaintenanceTypes ==
  ASSUME LifecycleTypeOK, Maintenance
  PROVE  LifecycleTypeOK'
<1> USE DEF LifecycleTypeOK, AccessTypeOK,
            gateVars, profileVars, credentialVars, viewVars, accessVars, runVars
<1>1. ASSUME NEW S \in SUBSET Rows, PurgeAccounts(S)
      PROVE  LifecycleTypeOK'
  <2>1. RunTypeOK'
    BY <1>1, PurgesTyped DEF PurgeAccounts, RunTypeOK, InPhase
  <2>2. /\ account' \in [User -> {"unregistered", "present", "erased"}]
        /\ request' \in [User -> {"none", "waiting", "due", "done"}]
        /\ bot' \in [Bot -> {"unsaved", "saved", "deleted", "erased"}]
        /\ sessions' \subseteq sessions /\ links' \subseteq links
    BY <1>1 DEF PurgeAccounts
  <2> QED BY <1>1, <2>1, <2>2 DEF PurgeAccounts, RunTypeOK
<1>2. CASE RetainHistory
  <2>1. ExpiredBatch \in SUBSET Run
    BY DEF ExpiredBatch, ExpiredHistory, InPhase
  <2>2. RunTypeOK'
    BY <1>2, <2>1, PurgesTyped DEF RetainHistory, RunTypeOK
  <2> QED BY <1>2, <2>2 DEF RetainHistory, RunTypeOK
<1>3. ASSUME NEW u \in User, Quiesce(u) \/ ForgetReceipt(u)
      PROVE  LifecycleTypeOK'
  BY <1>3 DEF Quiesce, ForgetReceipt
<1> QED BY <1>1, <1>2, <1>3 DEF Maintenance

LEMMA TypePreserved ==
  ASSUME LifecycleTypeOK, [LifecycleNext]_lifecycleVars
  PROVE  LifecycleTypeOK'
<1> USE DEF gateVars, profileVars, credentialVars, viewVars, accessVars, runVars, ownedVars
<1>1. CASE AccessNext /\ UNCHANGED ownedVars
  BY <1>1, AccessTypePreserved DEF LifecycleTypeOK
<1>2. ASSUME NEW q \in inFlight, RequestAction(q)
      PROVE  LifecycleTypeOK'
  BY <1>2, RequestTypes
<1>3. ASSUME NEW r \in Run, Claim(r) \/ Conclude(r) \/ AgeRun(r)
      PROVE  LifecycleTypeOK'
  <2>1. CASE Conclude(r)
    <3>1. RunTypeOK'
      BY <2>1, ConclusionsTyped DEF LifecycleTypeOK, RunTypeOK, Conclude
    <3> QED BY <2>1, <3>1 DEF LifecycleTypeOK, AccessTypeOK, RunTypeOK, Conclude
  <2> QED BY <1>3, <2>1 DEF LifecycleTypeOK, AccessTypeOK, Claim, AgeRun
<1>4. ASSUME NEW u \in User, SuspendOwner(u) \/ Approve(u)
      PROVE  LifecycleTypeOK'
  <2>1. CASE SuspendOwner(u)
    <3>1. RunTypeOK'
      BY <2>1, ConclusionsTyped DEF LifecycleTypeOK, RunTypeOK, SuspendOwner, OwnedBy
    <3> QED BY <2>1, <3>1 DEF LifecycleTypeOK, AccessTypeOK, RunTypeOK, SuspendOwner,
                              SuspendAccount, InvalidateCredentials
  <2> QED BY <1>4, <2>1 DEF LifecycleTypeOK, AccessTypeOK, Approve
<1>5. CASE StopEverything \/ Quarantine
  <2>1. RunTypeOK'
    BY <1>5, ConclusionsTyped
       DEF LifecycleTypeOK, RunTypeOK, StopEverything, Quarantine, Unfinished, InPhase
  <2>2. quarantined \cup Present \subseteq User
    BY DEF LifecycleTypeOK, AccessTypeOK, Present
  <2> QED BY <1>5, <2>1, <2>2
          DEF LifecycleTypeOK, AccessTypeOK, RunTypeOK, StopEverything, Quarantine
<1>6. CASE ResumeAdmissions
  BY <1>6 DEF LifecycleTypeOK, AccessTypeOK, ResumeAdmissions
<1>7. CASE Maintenance
  BY <1>7, MaintenanceTypes
<1>8. CASE UNCHANGED lifecycleVars
  BY <1>8 DEF lifecycleVars, LifecycleTypeOK, AccessTypeOK
<1> QED BY <1>1, <1>2, <1>3, <1>4, <1>5, <1>6, <1>7, <1>8 DEF LifecycleNext

-----------------------------------------------------------------------------
(* Accounts: credentials and gates *)

\* A login that holds the lock of an account knows it as it is.
LoginsAreCurrent ==
  \A n \in loggingIn :
    /\ account[n.user] = "present"
    /\ n.password = password[n.user]
    /\ n.admin = (n.user \in admin)
    /\ n.allowed = (n.user \in Access)

NewcomersAreClean ==
  \A u \in User : account[u] = "unregistered" =>
    u \notin suspended \cup quarantined \cup admin /\ request[u] = "none"

ReceiptsFence ==
  \A u \in User :
    /\ request[u] \in {"waiting", "due"} => account[u] = "present" /\ u \in suspended
    /\ request[u] = "done" => account[u] = "erased"

AccessInv ==
  AccessTypeOK /\ CredentialsAreCurrent /\ LoginsAreCurrent /\ NewcomersAreClean /\ ReceiptsFence

LEMMA AccountActionsKeepAccess ==
  ASSUME AccessInv, AccessTypeOK', NEW u \in User, AccountAction(u)
  PROVE  AccessInv'
<1> USE DEF AccessInv, AccessTypeOK, CredentialsAreCurrent, LoginsAreCurrent,
            NewcomersAreClean, ReceiptsFence, Access, Present,
            gateVars, profileVars, credentialVars, viewVars
<1>1. ASSUME NEW old \in SessionId, Register(u, old)
      PROVE  AccessInv'
  <2>1. CredentialsAreCurrent'
    BY <1>1 DEF Register, IssueSession, SessionRow, LinkRow
  <2> QED BY <1>1, <2>1 DEF Register, Login
<1>2. CASE LoginStart(u)
  BY <1>2 DEF LoginStart, Lockable, Login
<1>3. ASSUME NEW purpose \in Purpose, IssueLink(u, purpose)
      PROVE  AccessInv'
  BY <1>3 DEF IssueLink
<1>4. CASE Resume(u)
  BY <1>4 DEF Resume, Lockable, SessionRow, LinkRow, Login
<1>5. ASSUME NEW enabled \in BOOLEAN, SetAdmin(u, enabled)
      PROVE  AccessInv'
  BY <1>5 DEF SetAdmin, Lockable, SessionsOf, SessionRow, Login
<1> QED BY <1>1, <1>2, <1>3, <1>4, <1>5 DEF AccountAction

LEMMA CredentialActionsKeepAccess ==
  ASSUME AccessInv, AccessTypeOK', CredentialAction
  PROVE  AccessInv'
<1> USE DEF AccessInv, AccessTypeOK, CredentialsAreCurrent, LoginsAreCurrent,
            NewcomersAreClean, ReceiptsFence, Access, Present,
            gateVars, profileVars, credentialVars, viewVars
<1>1. ASSUME NEW n \in loggingIn
      PROVE  /\ LoginFails(n) => AccessInv'
             /\ \A old \in SessionId : LoginEnd(n, old) => AccessInv'
  BY DEF LoginFails, LoginEnd, IssueSession, Login, SessionRow
<1>2. ASSUME NEW x \in sessions
      PROVE  EndSession(x) \/ Authenticate(x) => AccessInv'
  BY DEF EndSession, Authenticate
<1>3. ASSUME NEW k \in links
      PROVE  LinkExpires(k) \/ RedeemLookup(k) => AccessInv'
  BY DEF LinkExpires, RedeemLookup
<1>4. ASSUME NEW k \in redeeming
      PROVE  Redeem(k) \/ RedeemFails(k) => AccessInv'
  BY DEF Redeem, RedeemFails, ReplacePassword, InvalidateCredentials, Lockable,
         SessionsOf, LinksOf, SessionRow, LinkRow, Login
<1>5. ASSUME NEW q \in inFlight
      PROVE  /\ RequestFails(q) \/ ChangePassword(q) => AccessInv'
             /\ \A keep \in BOOLEAN : RevokeSessions(q, keep) => AccessInv'
  BY DEF RequestFails, ChangePassword, RevokeSessions, Handled, Reauthenticated, Lockable,
         ReplacePassword, InvalidateCredentials, SessionsOf, LinksOf,
         SessionRow, LinkRow, Login, Request
<1> QED BY <1>1, <1>2, <1>3, <1>4, <1>5 DEF CredentialAction

\* Suspension, quarantine and purge take the credentials along.
LEMMA GatesKeepAccess ==
  ASSUME AccessInv, AccessTypeOK'
  PROVE  /\ \A u \in User : SuspendOwner(u) \/ Approve(u) => AccessInv'
         /\ \A q \in inFlight : RequestDeletion(q) => AccessInv'
         /\ Quarantine => AccessInv'
<1> USE DEF AccessInv, AccessTypeOK, CredentialsAreCurrent, LoginsAreCurrent,
            NewcomersAreClean, ReceiptsFence, Access, Present,
            gateVars, profileVars, credentialVars, viewVars
<1>1. ASSUME NEW u \in User, SuspendOwner(u)
      PROVE  AccessInv'
  BY <1>1 DEF SuspendOwner, SuspendAccount, InvalidateCredentials, Lockable,
              SessionsOf, LinksOf, SessionRow, LinkRow, Login
<1>2. ASSUME NEW u \in User, Approve(u)
      PROVE  AccessInv'
  BY <1>2 DEF Approve, Lockable, SessionRow, LinkRow, Login
<1>3. ASSUME NEW q \in inFlight, RequestDeletion(q)
      PROVE  AccessInv'
  <2>1. q.user \in User /\ account[q.user] = "present"
    BY <1>3 DEF RequestDeletion, Reauthenticated, Lockable, Request
  <2> QED BY <1>3, <2>1 DEF RequestDeletion, Handled, SuspendAccount,
                InvalidateCredentials, Lockable, SessionsOf, LinksOf, SessionRow, LinkRow, Login
<1>4. CASE Quarantine
  BY <1>4 DEF Quarantine
<1> QED BY <1>1, <1>2, <1>3, <1>4

LEMMA MaintenanceKeepsAccess ==
  ASSUME AccessInv, AccessTypeOK', Maintenance
  PROVE  AccessInv'
<1> USE DEF AccessInv, AccessTypeOK, CredentialsAreCurrent, LoginsAreCurrent,
            NewcomersAreClean, ReceiptsFence, Access, Present, accessVars,
            gateVars, profileVars, credentialVars, viewVars
<1>1. ASSUME NEW S \in SUBSET Rows, PurgeAccounts(S)
      PROVE  AccessInv'
  <2> DEFINE finished == {u \in DueBatch : Emptied(u, S)}
  <2>1. /\ account' = [u \in User |-> IF u \in finished THEN "erased" ELSE account[u]]
        /\ request' = [u \in User |-> IF u \in finished THEN "done" ELSE request[u]]
        /\ sessions' = {x \in sessions : x.user \notin finished}
        /\ links' = {k \in links : k.user \notin finished}
        /\ UNCHANGED <<suspended, quarantined, profileVars, viewVars>>
    BY <1>1 DEF PurgeAccounts
  <2>2. \A u \in finished : u \in User /\ request[u] = "due" /\ Lockable(u)
    BY <1>1 DEF PurgeAccounts, DueBatch, Due
  <2> HIDE DEF finished
  <2> QED BY <2>1, <2>2 DEF Lockable, SessionRow, LinkRow, Login
<1>2. CASE RetainHistory
  BY <1>2 DEF RetainHistory
<1>3. ASSUME NEW u \in User, Quiesce(u) \/ ForgetReceipt(u)
      PROVE  AccessInv'
  BY <1>3 DEF Quiesce, ForgetReceipt
<1> QED BY <1>1, <1>2, <1>3 DEF Maintenance

LEMMA AccessPreserved ==
  ASSUME AccessInv, AccessTypeOK', [LifecycleNext]_lifecycleVars
  PROVE  AccessInv'
<1>1. ASSUME UNCHANGED accessVars
      PROVE  AccessInv'
  BY <1>1 DEF AccessInv, AccessTypeOK, CredentialsAreCurrent, LoginsAreCurrent,
              NewcomersAreClean, ReceiptsFence, Access, Present, accessVars,
              gateVars, profileVars, credentialVars, viewVars
<1>2. ASSUME NEW q \in inFlight, RequestAction(q)
      PROVE  AccessInv'
  <2>1. CASE RequestDeletion(q)
    BY <2>1, GatesKeepAccess
  <2>2. ASSUME ~RequestDeletion(q)
        PROVE  UNCHANGED <<gateVars, profileVars, credentialVars, loggingIn, redeeming>>
               /\ inFlight' \subseteq inFlight
    BY <1>2, <2>2 DEF RequestAction, CreateBot, SoftDelete, Launch, Handled
  <2> QED BY <2>1, <2>2
          DEF AccessInv, AccessTypeOK, CredentialsAreCurrent, LoginsAreCurrent,
              NewcomersAreClean, ReceiptsFence, Access, Present,
              gateVars, profileVars, credentialVars
<1>3. ASSUME NEW r \in Run, Claim(r) \/ Conclude(r) \/ AgeRun(r)
      PROVE  AccessInv'
  BY <1>1, <1>3 DEF Claim, Conclude, AgeRun
<1> QED BY <1>1, <1>2, <1>3, AccountActionsKeepAccess, CredentialActionsKeepAccess,
           GatesKeepAccess, MaintenanceKeepsAccess
        DEF LifecycleNext, AccessNext, StopEverything, ResumeAdmissions, lifecycleVars

-----------------------------------------------------------------------------
(* Accounts: rows and work *)

\* The runs and bots that stand, on accounts that stand
Grounded ==
  /\ \A r \in Rows : bot[BotOf[r]] \in {"saved", "deleted"}
  /\ \A b \in Bot : bot[b] \in {"saved", "deleted"} => BotOwner[b] \in Present
  /\ \A r \in Unfinished : bot[BotOf[r]] = "saved" /\ Owner(r) \in Access

HiddenBeforePurged == \A r \in Run : purged[r] # 0 => r \in hidden

OwnedInv == LifecycleTypeOK /\ Grounded /\ HiddenBeforePurged

LEMMA OwnersTyped ==
  /\ \A b \in Bot : BotOwner[b] \in User
  /\ \A r \in Run : BotOf[r] \in Bot /\ Owner(r) \in User
BY LifecycleAssumption DEF Owner

\* No account is closed by what goes on between accounts and credentials alone.
LEMMA AccessGrows ==
  ASSUME AccessTypeOK, AccessNext
  PROVE  Access \subseteq Access' /\ Present \subseteq Present'
<1> USE DEF AccessTypeOK, Access, Present, gateVars
<1>1. ASSUME NEW u \in User, AccountAction(u)
      PROVE  Access \subseteq Access' /\ Present \subseteq Present'
  BY <1>1 DEF AccountAction, Register, LoginStart, IssueLink, Resume, SetAdmin
<1>2. CASE CredentialAction
  <2>1. UNCHANGED gateVars
    BY <1>2 DEF CredentialAction, LoginFails, LoginEnd, EndSession, Authenticate,
                LinkExpires, RedeemLookup, Redeem, RedeemFails, RequestFails,
                ChangePassword, RevokeSessions
  <2> QED BY <2>1
<1> QED BY <1>1, <1>2 DEF AccessNext

\* Runs that end make nothing dangle, provided that those left keep their owners.
LEMMA ConclusionsGrounded ==
  ASSUME OwnedInv, NEW S \in SUBSET Unfinished, ConcludeRuns(S), UNCHANGED <<bot, account>>,
         \A r \in Unfinished \ S : Owner(r) \in Access'
  PROVE  Grounded' /\ HiddenBeforePurged'
BY DEF OwnedInv, LifecycleTypeOK, Grounded, HiddenBeforePurged, ConcludeRuns,
       Rows, Unfinished, InPhase, Present, Owner

LEMMA PurgesHide ==
  ASSUME OwnedInv, NEW S \in SUBSET InPhase("concluded"), PurgeRuns(S)
  PROVE  /\ HiddenBeforePurged'
         /\ Unfinished' = Unfinished /\ Rows' \subseteq Rows
         /\ \A r \in Rows' \cap S : ~(purged[r] + EventBatch >= Events)
BY DEF OwnedInv, LifecycleTypeOK, HiddenBeforePurged, PurgeRuns, Rows, Unfinished, InPhase

LEMMA RequestsKeepRows ==
  ASSUME OwnedInv, NEW q \in inFlight, RequestAction(q)
  PROVE  Grounded' /\ HiddenBeforePurged'
<1> USE OwnersTyped DEF OwnedInv, LifecycleTypeOK, AccessTypeOK, Grounded,
        HiddenBeforePurged, Rows, Unfinished, InPhase, Present, Access, Owner,
        gateVars, runVars
<1>1. ASSUME NEW b \in Bot, CreateBot(q, b) \/ SoftDelete(q, b)
      PROVE  Grounded' /\ HiddenBeforePurged'
  <2>1. CASE CreateBot(q, b)
    BY <2>1 DEF CreateBot
  <2>2. CASE SoftDelete(q, b)
    BY <2>2 DEF SoftDelete
  <2> QED BY <1>1, <2>1, <2>2
<1>2. ASSUME NEW r \in Run, Launch(q, r)
      PROVE  Grounded' /\ HiddenBeforePurged'
  BY <1>2 DEF Launch
<1>3. CASE RequestDeletion(q)
  <2>1. q.user \in User
    BY DEF Request
  <2>2. \A r \in Unfinished \ OwnedBy(q.user) : Owner(r) \in Access'
    BY <1>3, <2>1 DEF RequestDeletion, SuspendAccount, OwnedBy
  <2>3. ConcludeRuns(Unfinished \cap OwnedBy(q.user)) /\ UNCHANGED <<bot, account>>
    BY <1>3 DEF RequestDeletion
  <2> QED BY ONLY <2>2, <2>3, ConclusionsGrounded, OwnedInv
<1> QED BY <1>1, <1>2, <1>3 DEF RequestAction

LEMMA MaintenanceKeepsRows ==
  ASSUME OwnedInv, AccessInv, Maintenance
  PROVE  Grounded' /\ HiddenBeforePurged'
<1>1. ASSUME NEW S \in SUBSET Rows, PurgeAccounts(S)
      PROVE  Grounded' /\ HiddenBeforePurged'
  <2> DEFINE finished == {u \in DueBatch : Emptied(u, S)}
  <2>1. /\ account' = [u \in User |-> IF u \in finished THEN "erased" ELSE account[u]]
        /\ bot' = [b \in Bot |-> IF BotOwner[b] \in finished /\ bot[b] # "unsaved"
                                 THEN "erased" ELSE bot[b]]
        /\ UNCHANGED <<suspended, quarantined>>
    BY <1>1 DEF PurgeAccounts
  <2>2. PurgeRuns(S \cap InPhase("concluded"))
    BY <1>1 DEF PurgeAccounts
  <2>3. /\ HiddenBeforePurged' /\ Unfinished' = Unfinished /\ Rows' \subseteq Rows
        /\ \A r \in Rows' \cap (S \cap InPhase("concluded")) : ~(purged[r] + EventBatch >= Events)
    BY <2>2, PurgesHide
  <2>4. \A r \in Rows' : Owner(r) \notin finished
    BY <2>3 DEF Emptied, OwnedBy, Rows, Unfinished, InPhase
  <2>5. Unfinished \subseteq Rows' /\ Rows \subseteq Run
    BY <2>3 DEF Rows, Unfinished, InPhase
  <2> HIDE DEF finished
  <2>6. \A r \in Rows' : bot'[BotOf[r]] = bot[BotOf[r]]
    BY <2>1, <2>3, <2>4, <2>5, OwnersTyped DEF OwnedInv, LifecycleTypeOK, Owner
  <2>7. \A b \in Bot : bot'[b] \in {"saved", "deleted"} => BotOwner[b] \in Present'
    BY <2>1, OwnersTyped DEF OwnedInv, LifecycleTypeOK, AccessTypeOK, Grounded, Present
  <2>8. \A r \in Unfinished : Owner(r) \in Access'
    BY <2>1, <2>4, <2>5, OwnersTyped
       DEF OwnedInv, LifecycleTypeOK, AccessTypeOK, Grounded, Access, Present
  <2> QED BY <2>3, <2>5, <2>6, <2>7, <2>8 DEF OwnedInv, Grounded
<1>2. CASE RetainHistory
  <2>1. ExpiredBatch \subseteq InPhase("concluded")
    BY DEF ExpiredBatch, ExpiredHistory
  <2>2. PurgeRuns(ExpiredBatch) /\ UNCHANGED <<bot, account, suspended, quarantined>>
    BY <1>2 DEF RetainHistory, accessVars, gateVars
  <2>3. HiddenBeforePurged' /\ Unfinished' = Unfinished /\ Rows' \subseteq Rows
    BY <2>1, <2>2, PurgesHide
  <2> QED BY <2>2, <2>3 DEF OwnedInv, Grounded, Access, Present
<1>3. ASSUME NEW u \in User, Quiesce(u) \/ ForgetReceipt(u)
      PROVE  Grounded' /\ HiddenBeforePurged'
  BY <1>3 DEF Quiesce, ForgetReceipt, OwnedInv, Grounded, HiddenBeforePurged, Rows,
              Unfinished, InPhase, Access, Present, runVars
<1> QED BY <1>1, <1>2, <1>3 DEF Maintenance

LEMMA RowsPreserved ==
  ASSUME OwnedInv, AccessInv, [LifecycleNext]_lifecycleVars
  PROVE  Grounded' /\ HiddenBeforePurged'
<1>1. CASE AccessNext /\ UNCHANGED ownedVars
  <2>1. Access \subseteq Access' /\ Present \subseteq Present'
    BY <1>1, AccessGrows DEF OwnedInv, LifecycleTypeOK
  <2>2. /\ UNCHANGED <<bot, phase, hidden, purged>>
        /\ Rows' = Rows /\ Unfinished' = Unfinished
    BY <1>1 DEF ownedVars, runVars, Rows, Unfinished, InPhase
  <2> QED BY <2>1, <2>2 DEF OwnedInv, Grounded, HiddenBeforePurged
<1>2. ASSUME NEW q \in inFlight, RequestAction(q)
      PROVE  Grounded' /\ HiddenBeforePurged'
  BY <1>2, RequestsKeepRows
<1>3. ASSUME NEW r \in Run, Claim(r) \/ Conclude(r) \/ AgeRun(r)
      PROVE  Grounded' /\ HiddenBeforePurged'
  BY <1>3 DEF Claim, Conclude, ConcludeRuns, AgeRun, OwnedInv, LifecycleTypeOK, Grounded,
              HiddenBeforePurged, Rows, Unfinished, InPhase, Access, Present, accessVars, gateVars
<1>4. ASSUME NEW u \in User, SuspendOwner(u) \/ Approve(u)
      PROVE  Grounded' /\ HiddenBeforePurged'
  <2>1. CASE SuspendOwner(u)
    <3>1. \A r \in Unfinished \ OwnedBy(u) : Owner(r) \in Access'
      BY <2>1, OwnersTyped
         DEF SuspendOwner, SuspendAccount, OwnedBy, OwnedInv, Grounded, Unfinished,
             InPhase, Access, Present
    <3>2. ConcludeRuns(Unfinished \cap OwnedBy(u)) /\ UNCHANGED <<bot, account>>
      BY <2>1 DEF SuspendOwner
    <3> QED BY ONLY <3>1, <3>2, ConclusionsGrounded, OwnedInv
  <2>2. CASE Approve(u)
    BY <2>2 DEF Approve, OwnedInv, Grounded, HiddenBeforePurged, Rows, Unfinished,
                InPhase, Access, Present, runVars
  <2> QED BY <1>4, <2>1, <2>2
<1>5. CASE StopEverything \/ Quarantine
  <2>1. ConcludeRuns(Unfinished) /\ UNCHANGED <<bot, account>>
    BY <1>5 DEF StopEverything, Quarantine, accessVars, gateVars
  <2> QED BY <2>1, ConclusionsGrounded
<1>6. CASE ResumeAdmissions \/ UNCHANGED lifecycleVars
  BY <1>6 DEF ResumeAdmissions, lifecycleVars, accessVars, gateVars, ownedVars, runVars,
              OwnedInv, Grounded, HiddenBeforePurged, Rows, Unfinished, InPhase,
              Access, Present
<1>7. CASE Maintenance
  BY <1>7, MaintenanceKeepsRows
<1> QED BY <1>1, <1>2, <1>3, <1>4, <1>5, <1>6, <1>7 DEF LifecycleNext

-----------------------------------------------------------------------------
(* Accounts: what always holds *)

AccountsInv == AccessInv /\ OwnedInv

LEMMA AccountsInvInit == LifecycleInit => AccountsInv
<1> SUFFICES ASSUME LifecycleInit PROVE AccountsInv
  OBVIOUS
<1>1. LifecycleTypeOK
  <2>1. AccessTypeOK
    BY DEF LifecycleInit, AccessInit, AccessTypeOK
  <2>2. 0 \in 0..Events
    BY LifecycleAssumption
  <2> QED BY <2>1, <2>2 DEF LifecycleInit, LifecycleTypeOK
<1>2. AccessInv
  BY <1>1 DEF LifecycleInit, AccessInit, LifecycleTypeOK, AccessInv, CredentialsAreCurrent,
              LoginsAreCurrent, NewcomersAreClean, ReceiptsFence
<1>3. Grounded /\ HiddenBeforePurged
  BY LifecycleAssumption
     DEF LifecycleInit, Grounded, HiddenBeforePurged, Rows, Unfinished, InPhase
<1> QED BY <1>1, <1>2, <1>3 DEF AccountsInv, OwnedInv

LEMMA AccountsInvNext == AccountsInv /\ [LifecycleNext]_lifecycleVars => AccountsInv'
<1> SUFFICES ASSUME AccountsInv, [LifecycleNext]_lifecycleVars PROVE AccountsInv'
  OBVIOUS
<1>1. LifecycleTypeOK'
  BY TypePreserved DEF AccountsInv, OwnedInv
<1>2. AccessInv'
  BY <1>1, AccessPreserved DEF AccountsInv, LifecycleTypeOK
<1>3. Grounded' /\ HiddenBeforePurged'
  BY RowsPreserved DEF AccountsInv
<1> QED BY <1>1, <1>2, <1>3 DEF AccountsInv, OwnedInv

LEMMA AccountsInvHolds == LifecycleSpec => []AccountsInv
BY AccountsInvInit, AccountsInvNext, PTL DEF LifecycleSpec

\* No session outlives the password, the privilege or the access of its account, and
\* no link that access, however many logins, redemptions and requests are under way.
THEOREM CredentialsStayCurrent == LifecycleSpec => []CredentialsAreCurrent
<1>1. AccountsInv => CredentialsAreCurrent
  BY DEF AccountsInv, AccessInv
<1> QED BY <1>1, AccountsInvHolds, PTL

\* Runs, bots and credentials stand only on accounts that stand, work only on accounts
\* with access, and an account whose deletion was requested never has access again.
THEOREM NothingIsLeftBehind == LifecycleSpec => []NothingOutlivesAccess
<1>1. AccountsInv => NothingOutlivesAccess
  <2> SUFFICES ASSUME AccountsInv PROVE NothingOutlivesAccess
    OBVIOUS
  <2>1. LifecycleTypeOK
    BY DEF AccountsInv, OwnedInv
  <2>2. \A x \in sessions \cup links : x.user \in Access
    BY DEF AccountsInv, AccessInv, CredentialsAreCurrent
  <2>3. NothingDangles
    BY <2>2 DEF AccountsInv, OwnedInv, Grounded, NothingDangles, Access
  <2>4. \A u \in User : request[u] # "none" => u \notin Access
    BY <2>1 DEF AccountsInv, AccessInv, ReceiptsFence, LifecycleTypeOK, AccessTypeOK, Access, Present
  <2>5. DeletionIsFinal
    BY <2>2, <2>3, <2>4 DEF DeletionIsFinal, NothingDangles, SessionsOf, LinksOf, OwnedBy
  <2> QED BY <2>1, <2>3, <2>5 DEF NothingOutlivesAccess
<1> QED BY <1>1, AccountsInvHolds, PTL

\* A run is hidden by the batch that takes the first of its events, so what is shown
\* is whole, for any size of the batches and any retention.
THEOREM ShownHistoryIsWhole == LifecycleSpec => []VisibleHistoryIsWhole
<1>1. AccountsInv => VisibleHistoryIsWhole
  BY DEF AccountsInv, OwnedInv, HiddenBeforePurged, VisibleHistoryIsWhole, Shown
<1> QED BY <1>1, AccountsInvHolds, PTL

\* A password is replaced by a link that still stands, once, or by a request whose
\* session still stands, on an account that has access.
THEOREM PasswordsNeedProof == LifecycleSpec => PasswordsChangeByProof
<1> DEFINE ByProof ==
      \A u \in User : password'[u] # password[u] =>
        /\ u \in Access
        /\ \/ \E k \in LinksOf(u) : k \in redeeming /\ k \notin redeeming'
           \/ \E x \in SessionsOf(u), q \in inFlight \ inFlight' : q.id = x.id
<1>1. LifecycleTypeOK /\ [LifecycleNext]_lifecycleVars => [ByProof]_accessVars
  <2> SUFFICES ASSUME LifecycleTypeOK, [LifecycleNext]_lifecycleVars, password' # password
               PROVE  ByProof
    BY DEF accessVars, profileVars
  <2>1. \/ \E k \in redeeming : Redeem(k)
        \/ \E q \in inFlight : ChangePassword(q)
    <3> USE DEF lifecycleVars, accessVars, profileVars
    <3>1. CASE AccessNext
      BY <3>1 DEF AccessNext, AccountAction, CredentialAction, Register, LoginStart,
                  IssueLink, Resume, SetAdmin, LoginFails, LoginEnd, EndSession,
                  Authenticate, LinkExpires, RedeemLookup, RedeemFails, RequestFails,
                  RevokeSessions
    <3>2. CASE Maintenance
      BY <3>2 DEF Maintenance, PurgeAccounts, RetainHistory, Quiesce, ForgetReceipt
    <3>3. CASE \E q \in inFlight : RequestAction(q)
      BY <3>3 DEF RequestAction, CreateBot, SoftDelete, Launch, RequestDeletion
    <3> QED BY <3>1, <3>2, <3>3 DEF LifecycleNext, Claim, Conclude, AgeRun, SuspendOwner,
                Approve, StopEverything, ResumeAdmissions, Quarantine
  <2>2. ASSUME NEW k \in redeeming, Redeem(k)
        PROVE  ByProof
    BY <2>2 DEF Redeem, ReplacePassword, LinksOf, LifecycleTypeOK, AccessTypeOK
  <2>3. ASSUME NEW q \in inFlight, ChangePassword(q)
        PROVE  ByProof
    BY <2>3 DEF ChangePassword, Handled, Reauthenticated, Accepted, ReplacePassword,
                SessionsOf, LifecycleTypeOK, AccessTypeOK
  <2> QED BY <2>1, <2>2, <2>3
<1>2. AccountsInv => LifecycleTypeOK
  BY DEF AccountsInv, OwnedInv
<1> QED BY <1>1, <1>2, AccountsInvHolds, PTL DEF LifecycleSpec, PasswordsChangeByProof

(* A step of a viewer the others hear nothing of. *)
Unheard == UNCHANGED <<attached, desired, terminal, final, outdated>>

-----------------------------------------------------------------------------
(* The event stream: viewers of the hub, and the end of the run *)

(* A viewer that waits for frames is attached; one that was there at the     *)
(* terminal event is attached to a run known to have ended, or has left.     *)
HubInv ==
  /\ pc \in [Viewer -> Points]
  /\ desired <=> attached # {}
  /\ \A v \in final : (v \in attached /\ terminal) \/ pc[v] = "gone"
  /\ outdated = {}

LEMMA HubInitially == Init => HubInv
BY DEF Init, HubInv, Points

(* A step that moves only a viewer that has not left. *)
LEMMA HubMove ==
  ASSUME HubInv, NEW v \in Viewer, NEW to \in Points, pc[v] # "gone",
         pc' = [pc EXCEPT ![v] = to], Unheard
  PROVE  HubInv'
BY DEF HubInv, Unheard

LEMMA HubStep ==
  ASSUME HubInv, [Next]_vars
  PROVE  HubInv'
<1> USE DEF HubInv, Points
<1>1. ASSUME UNCHANGED <<pc, attached, desired, terminal, final, outdated>> PROVE HubInv'
  BY <1>1
<1>2. CASE Writers
  BY <1>2, <1>1 DEF Writers, InsertEvent, Commit, Rollback, PublishWake, hubVars,
     viewerVars, historyVars
<1>3. CASE Lane \/ LaneIdles \/ LaneFails \/ OfferLive
  BY <1>3, <1>1 DEF Lane, WriteCommand, RedisApplies, ReadReply, LaneIdles, LaneFails,
     OfferLive, hubVars, viewerVars, historyVars
<1>4. ASSUME NEW v \in Viewer, NEW c \in 0..MaxEvents, Connect(v, c) PROVE HubInv'
  BY <1>4, HubMove DEF Connect, Goto, Unheard, hubVars
<1>5. ASSUME NEW v \in Viewer, ReadPage(v) PROVE HubInv'
  BY <1>5, HubMove DEF ReadPage, Goto, Replayed, Unheard, hubVars, historyVars
<1>6. ASSUME NEW v \in Viewer, SendDurable(v) PROVE HubInv'
  <2>1. CASE AnnounceTerminal /\ final' = final \union attached /\ Goto(v, "leaving")
    <3>1. /\ pc[v] # "gone" /\ pc' = [pc EXCEPT ![v] = "leaving"]
          /\ UNCHANGED <<attached, desired, outdated>>
      BY <1>6, <2>1 DEF SendDurable, Goto
    <3>2. attached # {} => terminal'
      BY <2>1 DEF AnnounceTerminal
    <3>3. QED
      BY <2>1, <3>1, <3>2
  <2>2. CASE UNCHANGED <<terminal, wake, live, final>>
    BY <1>6, <2>2, HubMove DEF SendDurable, Goto, Replayed, Unheard
  <2>3. QED
    BY <1>6, <2>1, <2>2 DEF SendDurable
<1>7. ASSUME NEW v \in Viewer, WithholdTerminal(v) PROVE HubInv'
  <2>1. /\ pc[v] # "gone" /\ pc' = [pc EXCEPT ![v] = "leaving"]
        /\ UNCHANGED <<attached, desired, final, outdated>>
    BY <1>7 DEF WithholdTerminal, Goto, historyVars
  <2>2. attached # {} => terminal'
    BY <1>7 DEF WithholdTerminal, AnnounceTerminal
  <2>3. QED
    BY <2>1, <2>2
<1>8. ASSUME NEW v \in Viewer, Attach(v) PROVE HubInv'
  BY <1>8 DEF Attach, Goto, historyVars
<1>9. ASSUME NEW v \in Viewer, LaneReady(v) \/ JoinLive(v) \/ Reconcile(v) PROVE HubInv'
  BY <1>9, HubMove DEF LaneReady, JoinLive, Reconcile, Move, Goto, Unheard, hubVars,
     historyVars
<1>10. ASSUME NEW v \in Viewer, TakeMail(v) PROVE HubInv'
  BY <1>10, HubMove DEF TakeMail, Goto, Unheard, hubVars, historyVars
<1>11. ASSUME NEW v \in Viewer, ShowLive(v) PROVE HubInv'
  <2>1. v \in final => terminal
    BY <1>11 DEF ShowLive, Show
  <2>2. outdated' = {}
    BY <1>11, <2>1 DEF ShowLive, Show
  <2>3. QED
    BY <1>11, <2>2, HubMove DEF ShowLive, Show, Goto, Unheard, hubVars
<1>12. ASSUME NEW v \in Viewer, Leave(v) PROVE HubInv'
  BY <1>12 DEF Leave, Goto, Forget, historyVars
<1>13. CASE UNCHANGED vars
  BY <1>13, <1>1 DEF vars, hubVars, viewerVars, historyVars
<1>14. QED
  BY <1>2, <1>3, <1>4, <1>5, <1>6, <1>7, <1>8, <1>9, <1>10, <1>11, <1>12, <1>13
  DEF Next, Serve

(* No viewer is shown a live frame after a viewer beside it was sent the     *)
(* terminal event: every viewer of the run is told before any of them is     *)
(* shown another frame (http/sse/__init__.py 44-54, hub.py 125-135).         *)
THEOREM TerminalEventIsFinal == Spec => []TerminalIsFinal
<1>1. HubInv => TerminalIsFinal
  BY DEF HubInv, TerminalIsFinal
<1>2. QED
  BY <1>1, HubInitially, HubStep, PTL DEF Spec

(* The hub asks for the run's channel exactly while the run has viewers      *)
(* (http/sse/hub.py attach, detach).                                         *)
THEOREM ChannelHeldForViewers == Spec => []ChannelFollowsViewers
<1>1. HubInv => ChannelFollowsViewers
  BY DEF HubInv, ChannelFollowsViewers
<1>2. QED
  BY <1>1, HubInitially, HubStep, PTL DEF Spec

-----------------------------------------------------------------------------
(* The event stream: what is sent, and the committed rows *)

EventRows == [id : Nat \ {0}, terminal : BOOLEAN]

StreamTypeOK ==
  /\ nextId \in Nat \ {0} /\ open \subseteq EventRows /\ committed \subseteq EventRows
  /\ pc \in [Viewer -> Points]
  /\ start \in [Viewer -> Nat] /\ cursor \in [Viewer -> Nat]
  /\ page \in [Viewer -> Seq(EventRows)] /\ sent \in [Viewer -> Seq(Nat)]

(* Ids are taken in order, and a row whose transaction is open is newer than *)
(* every committed one: the writer holds the row lock of the run.            *)
CommitsInOrder ==
  /\ \A e \in committed \cup open : e.id < nextId
  /\ \A e \in open : \A f \in committed : f.id < e.id
  /\ \A e, f \in open : e = f
  /\ \A e, f \in committed : e.id = f.id => e = f

(* A cursor is the id of a committed row or 0, so no row commits behind it. *)
CursorIsCommitted ==
  \A v \in Viewer :
    /\ start[v] <= cursor[v]
    /\ cursor[v] = 0 \/ \E f \in committed : f.id = cursor[v]

(* The rows of a page follow the cursor without a gap. *)
PageFollowsCursor(v) ==
  /\ \A i \in DOMAIN page[v] : page[v][i] \in committed /\ cursor[v] < page[v][i].id
  /\ \A i, j \in DOMAIN page[v] : i < j => page[v][i].id < page[v][j].id
  /\ \A e \in committed : \A i \in DOMAIN page[v] :
       cursor[v] < e.id /\ e.id < page[v][i].id => \E j \in DOMAIN page[v] : page[v][j] = e

PagesInOrder ==
  \A v \in Viewer :
    /\ PageFollowsCursor(v)
    /\ pc[v] = "send" => page[v] # <<>>
    /\ pc[v] = "away" => page[v] = <<>> /\ sent[v] = <<>>

SentUpToCursor(v) ==
  /\ \A i, j \in DOMAIN sent[v] : i < j => sent[v][i] < sent[v][j]
  /\ {sent[v][i] : i \in DOMAIN sent[v]}
       = {id \in IdsOf(committed) : start[v] < id /\ id <= cursor[v]}

LogInv ==
  /\ StreamTypeOK /\ CommitsInOrder /\ CursorIsCommitted /\ PagesInOrder /\ SentIsTheLog

replayVars == <<nextId, open, committed, pc, start, cursor, page, sent>>

LEMMA LogInitially == Init => LogInv
<1>1. Init => StreamTypeOK
  BY DEF Init, StreamTypeOK, Points
<1>2. Init => SentIsTheLog
  BY DEF Init, SentIsTheLog, IdsOf
<1>3. Init => CommitsInOrder /\ CursorIsCommitted /\ PagesInOrder
  BY DEF Init, CommitsInOrder, CursorIsCommitted, PagesInOrder, PageFollowsCursor
<1>4. QED
  BY <1>1, <1>2, <1>3 DEF LogInv

LEMMA SentUnchanged ==
  ASSUME SentIsTheLog, UNCHANGED <<committed, start, cursor, sent>>
  PROVE  SentIsTheLog'
BY DEF SentIsTheLog

LEMMA LogUnchanged ==
  ASSUME LogInv, UNCHANGED replayVars
  PROVE  LogInv'
<1>1. StreamTypeOK' /\ CommitsInOrder' /\ CursorIsCommitted' /\ SentIsTheLog'
  BY SentUnchanged
  DEF LogInv, replayVars, StreamTypeOK, CommitsInOrder, CursorIsCommitted
<1>2. PagesInOrder'
  BY DEF LogInv, replayVars, PagesInOrder, PageFollowsCursor
<1>3. QED
  BY <1>1, <1>2 DEF LogInv

(* A viewer that takes no row, while the log stays as it is. *)
LEMMA LogMove ==
  ASSUME LogInv, NEW v \in Viewer, NEW to \in Points \ {"send", "away"},
         pc' = [pc EXCEPT ![v] = to],
         UNCHANGED <<nextId, open, committed, start, cursor, page, sent>>
  PROVE  LogInv'
<1>1. StreamTypeOK' /\ CommitsInOrder' /\ CursorIsCommitted' /\ SentIsTheLog'
  BY SentUnchanged DEF LogInv, StreamTypeOK, CommitsInOrder, CursorIsCommitted
<1>2. PagesInOrder'
  BY DEF LogInv, StreamTypeOK, PagesInOrder, PageFollowsCursor
<1>3. QED
  BY <1>1, <1>2 DEF LogInv

(* A transaction begins or is rolled back: nobody sees it. *)
LEMMA LogOpen ==
  ASSUME LogInv, nextId' \in Nat, nextId <= nextId', open' \subseteq EventRows,
         \A e \in open' : e \in open \/ (e.id = nextId /\ nextId' = nextId + 1),
         \A e, f \in open' : e = f,
         UNCHANGED <<committed, pc, start, cursor, page, sent>>
  PROVE  LogInv'
<1>1. StreamTypeOK' /\ CursorIsCommitted' /\ SentIsTheLog'
  BY SentUnchanged DEF LogInv, StreamTypeOK, CursorIsCommitted
<1>2. PagesInOrder'
  BY DEF LogInv, PagesInOrder, PageFollowsCursor
<1>3. CommitsInOrder'
  BY DEF LogInv, CommitsInOrder, StreamTypeOK, EventRows
<1>4. QED
  BY <1>1, <1>2, <1>3 DEF LogInv

(* A commit adds the newest row: it is beyond every cursor and every page. *)
LEMMA LogCommit ==
  ASSUME LogInv, NEW e \in open, Commit(e)
  PROVE  LogInv'
<1> USE DEF LogInv
<1>1. /\ committed' = committed \cup {e} /\ open' = open \ {e} /\ nextId' = nextId
      /\ UNCHANGED <<pc, start, cursor, page, sent>>
  BY DEF Commit, viewerVars, historyVars
<1>2. e \in EventRows /\ \A f \in committed : f.id < e.id
  BY DEF StreamTypeOK, CommitsInOrder
<1>3. StreamTypeOK'
  BY <1>1, <1>2 DEF StreamTypeOK
<1>4. CommitsInOrder'
  BY <1>1, <1>2 DEF CommitsInOrder, StreamTypeOK, EventRows
<1>5. CursorIsCommitted'
  BY <1>1 DEF CursorIsCommitted
<1>6. ASSUME NEW v \in Viewer PROVE cursor[v] < e.id
  BY <1>2 DEF CursorIsCommitted, StreamTypeOK, EventRows
<1>7. PagesInOrder'
  <2>1. ASSUME NEW v \in Viewer, NEW i \in DOMAIN page[v] PROVE ~(e.id < page[v][i].id)
    BY <1>2, <2>1 DEF PagesInOrder, PageFollowsCursor, StreamTypeOK, EventRows
  <2>2. QED
    BY <1>1, <2>1 DEF PagesInOrder, PageFollowsCursor
<1>8. SentIsTheLog'
  <2> SUFFICES ASSUME NEW v \in Viewer
               PROVE  {id \in IdsOf(committed') : start[v] < id /\ id <= cursor[v]}
                        = {id \in IdsOf(committed) : start[v] < id /\ id <= cursor[v]}
    BY <1>1 DEF SentIsTheLog
  <2>1. IdsOf(committed') = IdsOf(committed) \cup {e.id}
    BY <1>1 DEF IdsOf
  <2>2. ~(e.id <= cursor[v])
    BY <1>2, <1>6 DEF StreamTypeOK, EventRows
  <2>3. QED
    BY <2>1, <2>2
<1>9. QED
  BY <1>3, <1>4, <1>5, <1>7, <1>8

(* A stream begins with nothing sent and no page. *)
LEMMA LogConnect ==
  ASSUME LogInv, NEW v \in Viewer, NEW c \in 0..MaxEvents, Connect(v, c)
  PROVE  LogInv'
<1> USE DEF LogInv
<1>1. /\ pc[v] = "away" /\ c \in Nat
      /\ c = 0 \/ \E f \in committed : f.id = c
      /\ start' = [start EXCEPT ![v] = c] /\ cursor' = [cursor EXCEPT ![v] = c]
      /\ pc' = [pc EXCEPT ![v] = "read"]
      /\ UNCHANGED <<nextId, open, committed, page, sent>>
  BY DEF Connect, Goto, IdsOf, dbVars
<1>2. page[v] = <<>> /\ sent[v] = <<>>
  BY <1>1 DEF PagesInOrder
<1>3. StreamTypeOK' /\ CommitsInOrder'
  BY <1>1 DEF StreamTypeOK, CommitsInOrder, Points
<1>4. CursorIsCommitted'
  <2>1. start'[v] = c /\ cursor'[v] = c /\ c <= c
    BY <1>1 DEF StreamTypeOK
  <2>2. \A w \in Viewer \ {v} : start'[w] = start[w] /\ cursor'[w] = cursor[w]
    BY <1>1 DEF StreamTypeOK
  <2>3. QED
    BY <1>1, <2>1, <2>2 DEF CursorIsCommitted
<1>5. PagesInOrder'
  <2>1. page'[v] = <<>> /\ pc'[v] = "read"
    BY <1>1, <1>2 DEF StreamTypeOK
  <2>2. \A w \in Viewer \ {v} : UNCHANGED <<pc[w], page[w], sent[w], cursor[w]>>
    BY <1>1 DEF StreamTypeOK
  <2>3. PageFollowsCursor(v)'
    BY <2>1 DEF PageFollowsCursor
  <2>4. ASSUME NEW w \in Viewer, w # v PROVE PageFollowsCursor(w)'
    BY <1>1, <2>2, <2>4 DEF PagesInOrder, PageFollowsCursor
  <2>5. QED
    BY <1>1, <1>2, <2>1, <2>2, <2>3, <2>4 DEF PagesInOrder
<1>6. SentIsTheLog'
  <2>1. {id \in IdsOf(committed) : c < id /\ id <= c} = {}
    BY <1>1 DEF IdsOf, StreamTypeOK, EventRows
  <2>2. start'[v] = c /\ cursor'[v] = c /\ sent'[v] = <<>> /\ committed' = committed
    BY <1>1, <1>2 DEF StreamTypeOK
  <2>3. \A w \in Viewer \ {v} : start'[w] = start[w] /\ cursor'[w] = cursor[w]
    BY <1>1 DEF StreamTypeOK
  <2>4. {<<>>[i] : i \in DOMAIN <<>>} = {}
    OBVIOUS
  <2>5. QED
    BY <1>1, <2>1, <2>2, <2>3, <2>4 DEF SentIsTheLog
<1>7. QED
  BY <1>3, <1>4, <1>5, <1>6

(* A page is read: the rows that follow the cursor, as they are now. *)
LEMMA LogReadPage ==
  ASSUME LogInv, NEW v \in Viewer, ReadPage(v)
  PROVE  LogInv'
<1> USE DEF LogInv
<1>1. PICK next \in BoundedSeq(After(cursor[v]), PageLimit) :
        /\ IsPage(next, After(cursor[v]))
        /\ page' = [page EXCEPT ![v] = next]
        /\ Goto(v, IF next = <<>> THEN Replayed(v) ELSE "send")
  BY DEF ReadPage
<1>2. UNCHANGED <<nextId, open, committed, start, cursor, sent>> /\ pc[v] = "read"
  BY DEF ReadPage, dbVars, historyVars
<1>3. PICK n \in Nat : next \in [1..n -> After(cursor[v])]
  BY StreamAssumption DEF BoundedSeq, SeqOf
<1>4. next \in Seq(After(cursor[v])) /\ DOMAIN next = 1..n /\ Len(next) = n
  BY <1>3
<1>5. next \in Seq(EventRows)
  BY <1>3 DEF After, StreamTypeOK
<1>6. StreamTypeOK' /\ CommitsInOrder' /\ CursorIsCommitted' /\ SentIsTheLog'
  BY <1>1, <1>2, <1>5, SentUnchanged
  DEF StreamTypeOK, CommitsInOrder, CursorIsCommitted, Goto, Replayed, Points
<1>7. PageFollowsCursor(v)'
  <2>1. page'[v] = next /\ cursor'[v] = cursor[v] /\ committed' = committed
    BY <1>1, <1>2 DEF StreamTypeOK
  <2>2. \A i \in DOMAIN next : next[i] \in committed /\ cursor[v] < next[i].id
    BY <1>3 DEF After
  <2>3. ASSUME NEW e \in committed, NEW i \in DOMAIN next,
               cursor[v] < e.id, e.id < next[i].id
        PROVE  \E j \in DOMAIN next : next[j] = e
    <3> SUFFICES ASSUME \A j \in DOMAIN next : next[j] # e PROVE FALSE
      OBVIOUS
    <3>1. e \in After(cursor[v])
      BY <2>3 DEF After
    <3>2. Len(next) = PageLimit /\ next[PageLimit].id < e.id
      BY <1>1, <3>1 DEF IsPage
    <3>3. i = n \/ next[i].id < next[n].id
      BY <1>1, <1>4 DEF IsPage
    <3>4. next[i].id \in Nat /\ next[n].id \in Nat /\ e.id \in Nat
      BY <1>3, <1>4, <2>2, <3>2, StreamAssumption DEF StreamTypeOK, EventRows
    <3>5. QED
      BY <1>4, <2>3, <3>2, <3>3, <3>4
  <2>4. QED
    BY <1>1, <2>1, <2>2, <2>3 DEF PageFollowsCursor, IsPage
<1>8. PagesInOrder'
  <2>1. ASSUME NEW w \in Viewer, w # v
        PROVE  UNCHANGED <<pc[w], page[w], sent[w], cursor[w]>>
    BY <1>1, <1>2, <2>1 DEF Goto, StreamTypeOK
  <2>2. pc'[v] = "send" => page'[v] # <<>>
    BY <1>1 DEF Goto, Replayed, StreamTypeOK
  <2>3. pc'[v] # "away"
    BY <1>1 DEF Goto, Replayed, StreamTypeOK
  <2>4. QED
    BY <1>2, <1>7, <2>1, <2>2, <2>3 DEF PagesInOrder, PageFollowsCursor
<1>9. QED
  BY <1>6, <1>8

(* The row that is sent is the first one after the cursor, the rest of the   *)
(* page follows it.                                                          *)
LEMMA LogSendDurable ==
  ASSUME LogInv, NEW v \in Viewer, SendDurable(v)
  PROVE  LogInv'
<1> USE DEF LogInv
<1> DEFINE e == page[v][1]
           rest == Tail(page[v])
<1>1. page[v] \in Seq(EventRows) /\ page[v] # <<>> /\ sent[v] \in Seq(Nat) /\ pc[v] = "send"
  BY DEF StreamTypeOK, PagesInOrder, SendDurable
<1>2. /\ 1 \in DOMAIN page[v] /\ Head(page[v]) = e /\ e \in EventRows
      /\ rest \in Seq(EventRows) /\ Len(page[v]) \in Nat /\ Len(rest) = Len(page[v]) - 1
      /\ DOMAIN page[v] = 1..Len(page[v]) /\ DOMAIN rest = 1..Len(rest)
      /\ \A i \in DOMAIN rest : i + 1 \in DOMAIN page[v] /\ rest[i] = page[v][i + 1]
  BY <1>1
<1>3. /\ cursor' = [cursor EXCEPT ![v] = e.id]
      /\ sent' = [sent EXCEPT ![v] = Append(sent[v], e.id)]
      /\ page' = [page EXCEPT ![v] = rest]
      /\ UNCHANGED <<nextId, open, committed, start>>
  BY <1>2 DEF SendDurable, dbVars
<1>4. /\ pc' \in [Viewer -> Points]
      /\ \A w \in Viewer \ {v} : pc'[w] = pc[w]
      /\ pc'[v] # "away"
      /\ pc'[v] = "send" => rest # <<>>
  BY DEF SendDurable, Goto, Replayed, StreamTypeOK, Points
<1>5. e.id \in Nat /\ e \in committed /\ cursor[v] < e.id /\ cursor[v] \in Nat
  BY <1>2 DEF PagesInOrder, PageFollowsCursor, EventRows, StreamTypeOK
<1>6. /\ cursor'[v] = e.id /\ sent'[v] = Append(sent[v], e.id) /\ page'[v] = rest
      /\ \A w \in Viewer \ {v} : UNCHANGED <<pc[w], cursor[w], sent[w], page[w]>>
  BY <1>3, <1>4 DEF StreamTypeOK
<1>7. StreamTypeOK' /\ CommitsInOrder'
  <2>1. Append(sent[v], e.id) \in Seq(Nat)
    BY <1>1, <1>5
  <2>2. QED
    BY <1>2, <1>3, <1>4, <1>5, <2>1 DEF StreamTypeOK, CommitsInOrder
<1>8. CursorIsCommitted'
  <2>1. start[v] <= e.id
    BY <1>5 DEF CursorIsCommitted, StreamTypeOK
  <2>2. \E f \in committed : f.id = e.id
    BY <1>5
  <2>3. QED
    BY <1>3, <1>6, <2>1, <2>2 DEF CursorIsCommitted
<1>9. \A i \in DOMAIN rest : e.id < rest[i].id /\ rest[i] \in committed
  BY <1>2 DEF PagesInOrder, PageFollowsCursor
<1>10. PageFollowsCursor(v)'
  <2>1. \A i, j \in DOMAIN rest : i < j => rest[i].id < rest[j].id
    BY <1>2 DEF PagesInOrder, PageFollowsCursor
  <2>2. ASSUME NEW f \in committed, NEW i \in DOMAIN rest, e.id < f.id, f.id < rest[i].id
        PROVE  \E j \in DOMAIN rest : rest[j] = f
    <3>1. f.id \in Nat
      BY DEF StreamTypeOK, EventRows
    <3>2. cursor[v] < f.id /\ f.id < page[v][i + 1].id
      BY <1>2, <1>5, <2>2, <3>1
    <3>3. PICK k \in DOMAIN page[v] : page[v][k] = f
      BY <1>2, <3>2 DEF PagesInOrder, PageFollowsCursor
    <3>4. k # 1
      BY <1>5, <2>2, <3>1, <3>3
    <3>5. k - 1 \in DOMAIN rest /\ rest[k - 1] = page[v][k]
      BY <1>2, <3>4
    <3>6. QED
      BY <3>3, <3>5
  <2> HIDE DEF e, rest
  <2>3. page'[v] = rest /\ cursor'[v] = e.id /\ committed' = committed
    BY <1>3, <1>6
  <2>4. QED
    BY <1>9, <2>1, <2>2, <2>3 DEF PageFollowsCursor
<1>11. PagesInOrder'
  <2>1. ASSUME NEW w \in Viewer, w # v PROVE PageFollowsCursor(w)'
    BY <1>3, <1>6, <2>1 DEF PagesInOrder, PageFollowsCursor
  <2>2. QED
    BY <1>4, <1>6, <1>10, <2>1 DEF PagesInOrder
<1>12. SentUpToCursor(v)'
  <2> DEFINE s == sent[v]
             n == Len(s)
  <2>1. /\ n \in Nat /\ DOMAIN s = 1..n /\ DOMAIN Append(s, e.id) = 1..(n + 1)
        /\ \A i \in 1..n : Append(s, e.id)[i] = s[i]
        /\ Append(s, e.id)[n + 1] = e.id
    BY <1>1, <1>5
  <2>2. /\ \A i, j \in DOMAIN s : i < j => s[i] < s[j]
        /\ {s[i] : i \in DOMAIN s} = {id \in IdsOf(committed) : start[v] < id /\ id <= cursor[v]}
    BY DEF SentIsTheLog
  <2>3. \A i \in 1..n : s[i] <= cursor[v] /\ s[i] \in Nat
    BY <1>1, <2>1, <2>2
  <2>4. \A i, j \in DOMAIN Append(s, e.id) : i < j => Append(s, e.id)[i] < Append(s, e.id)[j]
    <3> SUFFICES ASSUME NEW i \in 1..(n + 1), NEW j \in 1..(n + 1), i < j
                 PROVE  Append(s, e.id)[i] < Append(s, e.id)[j]
      BY <2>1
    <3>1. CASE j = n + 1
      BY <1>5, <2>1, <2>3, <3>1
    <3>2. CASE j # n + 1
      <4>1. i \in 1..n /\ j \in 1..n
        BY <2>1, <3>2
      <4>2. s[i] < s[j]
        BY <2>1, <2>2, <4>1
      <4>3. QED
        BY <2>1, <4>1, <4>2
    <3>3. QED
      BY <3>1, <3>2
  <2>5. {Append(s, e.id)[i] : i \in 1..(n + 1)} = {s[i] : i \in 1..n} \cup {e.id}
    <3>1. 1..(n + 1) = (1..n) \cup {n + 1}
      BY <2>1
    <3>2. QED
      BY <2>1, <3>1
  <2>6. {id \in IdsOf(committed) : start[v] < id /\ id <= e.id}
          = {id \in IdsOf(committed) : start[v] < id /\ id <= cursor[v]} \cup {e.id}
    <3>1. e.id \in IdsOf(committed) /\ start[v] < e.id
      BY <1>5 DEF IdsOf, CursorIsCommitted, StreamTypeOK
    <3>2. ASSUME NEW id \in IdsOf(committed), cursor[v] < id, id < e.id PROVE FALSE
      <4>1. PICK f \in committed : f.id = id
        BY DEF IdsOf
      <4>2. PICK k \in DOMAIN page[v] : page[v][k] = f
        BY <1>2, <3>2, <4>1 DEF PagesInOrder, PageFollowsCursor
      <4>3. k = 1 \/ e.id < f.id
        BY <1>2, <4>2 DEF PagesInOrder, PageFollowsCursor
      <4>4. f.id \in Nat
        BY DEF StreamTypeOK, EventRows
      <4>5. QED
        BY <1>5, <3>2, <4>1, <4>2, <4>3, <4>4
    <3>3. \A id \in IdsOf(committed) : id \in Nat
      BY DEF IdsOf, StreamTypeOK, EventRows
    <3>4. QED
      BY <1>5, <3>1, <3>2, <3>3
  <2>7. {Append(s, e.id)[i] : i \in DOMAIN Append(s, e.id)}
          = {id \in IdsOf(committed) : start[v] < id /\ id <= e.id}
    BY <2>1, <2>2, <2>5, <2>6
  <2>8. QED
    BY <1>3, <1>6, <2>4, <2>7 DEF SentUpToCursor
<1>13. SentIsTheLog'
  <2>1. ASSUME NEW w \in Viewer, w # v PROVE SentUpToCursor(w)'
    BY <1>3, <1>6, <2>1 DEF SentIsTheLog, SentUpToCursor
  <2>2. QED
    BY <1>12, <2>1 DEF SentIsTheLog, SentUpToCursor
<1>14. QED
  BY <1>7, <1>8, <1>11, <1>13

(* A stream ends: its page is dropped. *)
LEMMA LogLeave ==
  ASSUME LogInv, NEW v \in Viewer, Leave(v)
  PROVE  LogInv'
<1> USE DEF LogInv
<1>1. /\ pc' = [pc EXCEPT ![v] = "gone"] /\ page' = [page EXCEPT ![v] = <<>>]
      /\ UNCHANGED <<nextId, open, committed, start, cursor, sent>>
  BY DEF Leave, Goto, dbVars, historyVars
<1>2. StreamTypeOK' /\ CommitsInOrder' /\ CursorIsCommitted' /\ SentIsTheLog'
  BY <1>1, SentUnchanged DEF StreamTypeOK, CommitsInOrder, CursorIsCommitted, Points
<1>3. /\ page'[v] = <<>> /\ pc'[v] = "gone"
      /\ \A w \in Viewer \ {v} : UNCHANGED <<pc[w], page[w], sent[w], cursor[w]>>
  BY <1>1 DEF StreamTypeOK
<1>4. PageFollowsCursor(v)'
  BY <1>3 DEF PageFollowsCursor
<1>5. ASSUME NEW w \in Viewer, w # v PROVE PageFollowsCursor(w)'
  BY <1>1, <1>3, <1>5 DEF PagesInOrder, PageFollowsCursor
<1>6. PagesInOrder'
  BY <1>1, <1>3, <1>4, <1>5 DEF PagesInOrder
<1>7. QED
  BY <1>2, <1>6

LEMMA LogStep ==
  ASSUME LogInv, [Next]_vars
  PROVE  LogInv'
<1>1. ASSUME NEW isTerminal \in BOOLEAN, InsertEvent(isTerminal) PROVE LogInv'
  <2>1. nextId \in Nat \ {0}
    BY DEF LogInv, StreamTypeOK
  <2>2. QED
    BY <1>1, <2>1, LogOpen DEF InsertEvent, EventRows, viewerVars, historyVars
<1>2. ASSUME NEW e \in open, Commit(e) PROVE LogInv'
  BY <1>2, LogCommit
<1>3. ASSUME NEW e \in open, Rollback(e) PROVE LogInv'
  <2>1. nextId \in Nat /\ open \subseteq EventRows /\ \A f, g \in open : f = g
    BY DEF LogInv, StreamTypeOK, CommitsInOrder
  <2>2. QED
    BY <1>3, <2>1, LogOpen DEF Rollback, viewerVars, historyVars
<1>4. CASE \/ \E id \in unpublished : PublishWake(id)
           \/ Lane \/ LaneIdles \/ LaneFails \/ OfferLive \/ UNCHANGED vars
  BY <1>4, LogUnchanged DEF PublishWake, Lane, WriteCommand, RedisApplies, ReadReply,
     LaneIdles, LaneFails, OfferLive, vars, dbVars, viewerVars, historyVars, replayVars
<1>5. ASSUME NEW v \in Viewer, NEW c \in 0..MaxEvents, Connect(v, c) PROVE LogInv'
  BY <1>5, LogConnect
<1>6. ASSUME NEW v \in Viewer, ReadPage(v) PROVE LogInv'
  BY <1>6, LogReadPage
<1>7. ASSUME NEW v \in Viewer, SendDurable(v) PROVE LogInv'
  BY <1>7, LogSendDurable
<1>8. ASSUME NEW v \in Viewer, Leave(v) PROVE LogInv'
  BY <1>8, LogLeave
<1>9. ASSUME NEW v \in Viewer,
             \/ WithholdTerminal(v) \/ Attach(v) \/ LaneReady(v) \/ JoinLive(v)
             \/ TakeMail(v) \/ Reconcile(v) \/ ShowLive(v)
      PROVE  LogInv'
  <2>1. UNCHANGED <<nextId, open, committed, start, cursor, page, sent>>
    BY <1>9 DEF WithholdTerminal, Attach, LaneReady, JoinLive, TakeMail, Reconcile, Move,
       ShowLive, Show, dbVars, historyVars
  <2>2. \E to \in Points \ {"send", "away"} : pc' = [pc EXCEPT ![v] = to]
    BY <1>9 DEF WithholdTerminal, Attach, LaneReady, JoinLive, TakeMail, Reconcile, Move,
       ShowLive, Show, Goto, Points
  <2>3. QED
    BY <2>1, <2>2, LogMove
<1>10. QED
  BY <1>1, <1>2, <1>3, <1>4, <1>5, <1>6, <1>7, <1>8, <1>9 DEF Next, Writers, Serve

(* A stream sends exactly the committed rows between the cursor its viewer   *)
(* came with and the cursor it has reached, in the order of their ids, with  *)
(* any number of viewers, rows and failures and any page size, because the   *)
(* row lock of the run makes its ids commit in order (runs/lease.py 22-32,   *)
(* events/store.py 112-131).                                                 *)
THEOREM StreamSendsTheLog == Spec => []SentIsTheLog
<1>1. LogInv => SentIsTheLog
  BY DEF LogInv
<1>2. QED
  BY <1>1, LogInitially, LogStep, PTL DEF Spec

-----------------------------------------------------------------------------
(* The event stream: what the lane has asked for, and the replies still to come *)

Words == {"subscribe", "unsubscribe", "wake"}

Replies(q) == {i \in DOMAIN q : q[i] # "wake"}

(* What q leaves a lane with that starts from s. *)
Leaves(q, s, result) ==
  \/ Replies(q) = {} /\ (result <=> s)
  \/ \E i \in Replies(q) : /\ \A j \in Replies(q) : j <= i
                           /\ (result <=> q[i] = "subscribe")

LaneInv ==
  /\ wire \in Seq(Words) /\ commands \in Seq(Words)
  /\ requested \in BOOLEAN /\ subscribed \in BOOLEAN /\ desired \in BOOLEAN
  /\ atRedis \in BOOLEAN
  /\ LaneInStep

LEMMA LaneInStepIsLeaves == LaneInStep <=> Leaves(wire \o commands, subscribed, requested)
BY DEF LaneInStep, Leaves, Replies

(* A command written last decides. *)
LEMMA CommandDecides ==
  ASSUME NEW q \in Seq(Words), NEW s, NEW command \in Words, command # "wake"
  PROVE  Leaves(Append(q, command), s, command = "subscribe")
<1>1. /\ Len(q) \in Nat /\ DOMAIN Append(q, command) = 1..(Len(q) + 1)
      /\ Append(q, command)[Len(q) + 1] = command
  OBVIOUS
<1>2. Len(q) + 1 \in Replies(Append(q, command))
  BY <1>1 DEF Replies
<1>3. \A j \in Replies(Append(q, command)) : j <= Len(q) + 1
  BY <1>1 DEF Replies
<1>4. QED
  BY <1>1, <1>2, <1>3 DEF Leaves

(* A wake among the replies changes nothing. *)
LEMMA WakeDecidesNothing ==
  ASSUME NEW p \in Seq(Words), NEW q \in Seq(Words), NEW s, NEW result,
         Leaves(p \o q, s, result)
  PROVE  Leaves(Append(p, "wake") \o q, s, result)
<1> DEFINE n == Len(p)
           old == p \o q
           new == Append(p, "wake") \o q
           Moved(i) == IF i <= n THEN i ELSE i + 1
<1>1. /\ n \in Nat /\ Len(q) \in Nat
      /\ DOMAIN old = 1..(n + Len(q)) /\ DOMAIN new = 1..(n + Len(q) + 1)
  OBVIOUS
<1>2. /\ \A i \in 1..n : new[i] = old[i]
      /\ new[n + 1] = "wake"
      /\ \A i \in (n + 1)..(n + Len(q)) : new[i + 1] = old[i]
  OBVIOUS
<1> HIDE DEF n, old, new
<1>3. \A i \in DOMAIN old : Moved(i) \in DOMAIN new /\ new[Moved(i)] = old[i]
  BY <1>1, <1>2
<1>4. \A i \in DOMAIN new : i = n + 1 \/ \E k \in DOMAIN old : i = Moved(k)
  <2> SUFFICES ASSUME NEW i \in DOMAIN new, i # n + 1
               PROVE  \E k \in DOMAIN old : i = Moved(k)
    OBVIOUS
  <2>1. CASE i <= n
    BY <1>1, <2>1
  <2>2. CASE i > n + 1
    <3>1. i - 1 \in DOMAIN old /\ i = Moved(i - 1)
      BY <1>1, <2>2
    <3>2. QED
      BY <3>1
  <2>3. QED
    BY <1>1, <2>1, <2>2
<1>5. \A i \in Replies(old) : Moved(i) \in Replies(new)
  BY <1>3 DEF Replies
<1>6. \A i \in Replies(new) : \E k \in Replies(old) : i = Moved(k)
  BY <1>2, <1>3, <1>4 DEF Replies
<1>7. CASE Replies(old) = {} /\ (result <=> s)
  BY <1>6, <1>7 DEF Leaves, new
<1>8. CASE \E i \in Replies(old) : /\ \A j \in Replies(old) : j <= i
                                  /\ (result <=> old[i] = "subscribe")
  <2>1. PICK i \in Replies(old) : /\ \A j \in Replies(old) : j <= i
                                  /\ (result <=> old[i] = "subscribe")
    BY <1>8
  <2>2. Moved(i) \in Replies(new) /\ new[Moved(i)] = old[i]
    BY <1>3, <1>5 DEF Replies
  <2>3. ASSUME NEW j \in Replies(new) PROVE j <= Moved(i)
    <3>1. PICK k \in Replies(old) : j = Moved(k)
      BY <1>6
    <3>2. k \in Nat /\ i \in Nat /\ k <= i
      BY <1>1, <2>1 DEF Replies
    <3>3. QED
      BY <1>1, <3>1, <3>2
  <2> HIDE DEF Moved
  <2>4. QED
    BY <2>1, <2>2, <2>3 DEF Leaves, new
<1>9. QED
  BY <1>7, <1>8 DEF Leaves, old

(* The first reply is read. *)
LEMMA ReplyRead ==
  ASSUME NEW q \in Seq(Words), q # <<>>, NEW s, NEW result, Leaves(q, s, result)
  PROVE  Leaves(Tail(q), IF Head(q) = "wake" THEN s ELSE Head(q) = "subscribe", result)
<1> DEFINE rest == Tail(q)
           from == IF Head(q) = "wake" THEN s ELSE Head(q) = "subscribe"
<1>1. /\ Len(q) \in Nat \ {0} /\ DOMAIN q = 1..Len(q) /\ Head(q) = q[1]
      /\ DOMAIN rest = 1..(Len(q) - 1)
      /\ \A i \in DOMAIN rest : rest[i] = q[i + 1]
  OBVIOUS
<1> HIDE DEF rest
<1>2. \A i \in Replies(rest) : i + 1 \in Replies(q)
  BY <1>1 DEF Replies
<1>3. \A i \in Replies(q) : i = 1 \/ i - 1 \in Replies(rest)
  BY <1>1 DEF Replies
<1>4. CASE Replies(q) = {} /\ (result <=> s)
  <2>1. Replies(rest) = {}
    BY <1>2, <1>4
  <2>2. Head(q) = "wake"
    BY <1>1, <1>4 DEF Replies
  <2>3. QED
    BY <1>4, <2>1, <2>2 DEF Leaves, rest
<1>5. CASE \E i \in Replies(q) : /\ \A j \in Replies(q) : j <= i
                                /\ (result <=> q[i] = "subscribe")
  <2>1. PICK i \in Replies(q) : /\ \A j \in Replies(q) : j <= i
                                /\ (result <=> q[i] = "subscribe")
    BY <1>5
  <2>2. CASE i = 1
    <3>1. Replies(rest) = {}
      <4> SUFFICES ASSUME NEW j \in Replies(rest) PROVE FALSE
        OBVIOUS
      <4>1. j + 1 <= 1 /\ j \in Nat \ {0}
        BY <1>1, <1>2, <2>1, <2>2 DEF Replies
      <4>2. QED
        BY <4>1
    <3>2. Head(q) # "wake"
      BY <1>1, <2>1, <2>2 DEF Replies
    <3>3. QED
      BY <1>1, <2>1, <2>2, <3>1, <3>2 DEF Leaves, rest
  <2>3. CASE i # 1
    <3>1. i - 1 \in Replies(rest) /\ rest[i - 1] = q[i]
      BY <1>1, <1>3, <2>1, <2>3 DEF Replies
    <3>2. ASSUME NEW j \in Replies(rest) PROVE j <= i - 1
      <4>1. j + 1 <= i /\ j \in Nat /\ i \in Nat
        BY <1>1, <1>2, <2>1 DEF Replies
      <4>2. QED
        BY <4>1
    <3>3. QED
      BY <2>1, <3>1, <3>2 DEF Leaves, rest
  <2>4. QED
    BY <2>2, <2>3
<1>6. QED
  BY <1>4, <1>5 DEF Leaves

LEMMA LaneInitially == Init => LaneInv
<1> SUFFICES ASSUME Init PROVE LaneInv
  OBVIOUS
<1>1. /\ wire = <<>> /\ commands = <<>> /\ requested = FALSE /\ subscribed = FALSE
      /\ desired = FALSE /\ atRedis = FALSE
  BY DEF Init
<1>2. wire \o commands = <<>> /\ Replies(<<>>) = {}
  BY <1>1 DEF Replies
<1>3. LaneInStep
  BY <1>1, <1>2, LaneInStepIsLeaves DEF Leaves
<1>4. <<>> \in Seq(Words)
  OBVIOUS
<1>5. QED
  BY <1>1, <1>3, <1>4 DEF LaneInv

LEMMA LaneUnchanged ==
  ASSUME LaneInv, UNCHANGED <<desired, laneVars>>
  PROVE  LaneInv'
BY DEF LaneInv, LaneInStep, laneVars

LEMMA LaneStep ==
  ASSUME LaneInv, [Next]_vars
  PROVE  LaneInv'
<1> USE DEF LaneInv
<1>1. ASSUME NEW id \in unpublished, PublishWake(id) PROVE LaneInv'
  <2>1. UNCHANGED <<requested, subscribed, commands, atRedis, desired>>
    BY <1>1 DEF PublishWake, hubVars
  <2>2. CASE UNCHANGED wire
    BY <2>1, <2>2, LaneUnchanged DEF laneVars
  <2>3. CASE wire' = Append(wire, "wake")
    <3>1. Leaves(Append(wire, "wake") \o commands, subscribed, requested)
      BY LaneInStepIsLeaves, WakeDecidesNothing
    <3>2. LaneInStep'
      BY <2>1, <2>3, <3>1 DEF LaneInStep, Leaves, Replies
    <3>3. wire' \in Seq(Words)
      <4>1. "wake" \in Words
        BY DEF Words
      <4>2. QED
        BY <2>3, <4>1
    <3>4. QED
      BY <2>1, <3>2, <3>3
  <2>4. QED
    BY <1>1, <2>2, <2>3 DEF PublishWake
<1>2. CASE WriteCommand
  <2> DEFINE command == IF desired THEN "subscribe" ELSE "unsubscribe"
  <2>1. /\ commands' = Append(commands, command) /\ requested' = desired
        /\ UNCHANGED <<wire, subscribed, atRedis, desired>>
    BY <1>2 DEF WriteCommand, hubVars
  <2>2. command \in Words /\ command # "wake" /\ (command = "subscribe" <=> desired)
    BY DEF Words
  <2> HIDE DEF command
  <2>3. wire \o commands \in Seq(Words)
    OBVIOUS
  <2>4. wire' \o commands' = Append(wire \o commands, command)
    BY <2>1, <2>2
  <2>5. Leaves(wire' \o commands', subscribed', command = "subscribe")
    BY <2>2, <2>3, <2>4, CommandDecides
  <2>6. LaneInStep'
    BY <2>1, <2>2, <2>5 DEF LaneInStep, Leaves, Replies
  <2>7. wire' \in Seq(Words) /\ commands' \in Seq(Words)
    BY <2>1, <2>2
  <2>8. QED
    BY <2>1, <2>6, <2>7
<1>3. CASE RedisApplies
  <2>1. /\ commands # <<>> /\ commands' = Tail(commands)
        /\ wire' = Append(wire, Head(commands)) /\ atRedis' \in BOOLEAN
        /\ UNCHANGED <<requested, subscribed, desired>>
    BY <1>3 DEF RedisApplies, hubVars
  <2>2. wire' \o commands' = wire \o commands
    BY <2>1
  <2>3. LaneInStep'
    <3>1. Leaves(wire' \o commands', subscribed', requested')
      BY <2>1, <2>2, LaneInStepIsLeaves
    <3>2. QED
      BY <3>1 DEF LaneInStep, Leaves, Replies
  <2>4. wire' \in Seq(Words) /\ commands' \in Seq(Words)
    BY <2>1
  <2>5. QED
    BY <2>1, <2>3, <2>4
<1>4. CASE ReadReply
  <2>1. /\ wire # <<>> /\ wire' = Tail(wire)
        /\ UNCHANGED <<requested, commands, atRedis, desired>>
        /\ subscribed' = IF Head(wire) = "wake" THEN subscribed
                         ELSE Head(wire) = "subscribe"
    BY <1>4 DEF ReadReply, hubVars
  <2>2. /\ wire \o commands \in Seq(Words) /\ wire \o commands # <<>>
        /\ Head(wire \o commands) = Head(wire)
        /\ Tail(wire \o commands) = wire' \o commands'
    BY <2>1
  <2>3. Leaves(wire' \o commands', subscribed', requested)
    BY <2>1, <2>2, LaneInStepIsLeaves, ReplyRead
  <2>4. LaneInStep'
    BY <2>1, <2>3 DEF LaneInStep, Leaves, Replies
  <2>5. wire' \in Seq(Words)
    BY <2>1
  <2>6. subscribed' \in BOOLEAN
    BY <2>1
  <2>7. QED
    BY <2>1, <2>4, <2>5, <2>6
<1>5. CASE LaneIdles \/ LaneFails
  <2>1. /\ commands' = <<>> /\ wire' = <<>> /\ requested' = FALSE /\ subscribed' = FALSE
        /\ atRedis' = FALSE /\ desired' = desired
    BY <1>5 DEF LaneIdles, LaneFails, Disconnect, hubVars
  <2>2. wire' \o commands' = <<>> /\ Replies(<<>>) = {}
    BY <2>1 DEF Replies
  <2>3. LaneInStep'
    BY <2>1, <2>2 DEF LaneInStep, Replies
  <2>4. <<>> \in Seq(Words)
    OBVIOUS
  <2>5. QED
    BY <2>1, <2>3, <2>4
<1>6. ASSUME UNCHANGED laneVars, desired' \in BOOLEAN PROVE LaneInv'
  BY <1>6 DEF LaneInStep, laneVars
<1>7. CASE \/ \E isTerminal \in BOOLEAN : InsertEvent(isTerminal)
           \/ \E e \in open : Commit(e) \/ Rollback(e)
           \/ OfferLive \/ UNCHANGED vars
  BY <1>6, <1>7 DEF InsertEvent, Commit, Rollback, OfferLive, hubVars, vars
<1>8. ASSUME NEW v \in Viewer,
             \/ \E c \in 0..MaxEvents : Connect(v, c)
             \/ Serve(v) \/ Reconcile(v) \/ WithholdTerminal(v) \/ Leave(v)
      PROVE  LaneInv'
  <2>1. UNCHANGED laneVars
    BY <1>8 DEF Connect, Serve, ReadPage, SendDurable, Attach, LaneReady, JoinLive, TakeMail,
       ShowLive, Show, Reconcile, Move, WithholdTerminal, Leave
  <2>2. desired' \in BOOLEAN
    BY <1>8 DEF Connect, Serve, ReadPage, SendDurable, Attach, LaneReady, JoinLive, TakeMail,
       ShowLive, Show, Reconcile, Move, WithholdTerminal, Leave, Forget, hubVars
  <2>3. QED
    BY <1>6, <2>1, <2>2
<1>9. QED
  BY <1>1, <1>2, <1>3, <1>4, <1>5, <1>7, <1>8 DEF Next, Writers, Lane

-----------------------------------------------------------------------------
(* The event stream: the types of the rows and of the mailboxes *)

HubTypeOK ==
  /\ open \cup committed \subseteq [id : Ids, terminal : BOOLEAN] /\ unpublished \subseteq Ids
  /\ attached \subseteq Viewer /\ terminal \in BOOLEAN /\ (terminal => attached # {})
  /\ wake \in [Viewer -> BOOLEAN] /\ live \in [Viewer -> BOOLEAN]

LEMMA HubTypeInitially == Init => HubTypeOK
BY DEF Init, HubTypeOK

(* However viewers are woken, a mailbox holds Booleans. *)
LEMMA MailStaysBoolean ==
  ASSUME NEW mail \in [Viewer -> BOOLEAN], NEW who
  PROVE  /\ [v \in Viewer |-> mail[v] \/ v \in who] \in [Viewer -> BOOLEAN]
         /\ [v \in Viewer |-> mail[v] /\ v \notin who] \in [Viewer -> BOOLEAN]
OBVIOUS

LEMMA HubTypeStep ==
  ASSUME HubTypeOK, LogInv, [Next]_vars
  PROVE  HubTypeOK'
<1> USE DEF HubTypeOK
<1>1. ASSUME UNCHANGED <<open, committed, unpublished, hubVars, mailVars>>
      PROVE  HubTypeOK'
  BY <1>1 DEF hubVars, mailVars
<1>2. ASSUME NEW isTerminal \in BOOLEAN, InsertEvent(isTerminal) PROVE HubTypeOK'
  <2>1. nextId \in Ids
    BY <1>2, StreamAssumption DEF InsertEvent, LogInv, StreamTypeOK, Ids
  <2>2. QED
    BY <1>2, <2>1 DEF InsertEvent, hubVars, mailVars
<1>3. ASSUME NEW e \in open, Commit(e) \/ Rollback(e) PROVE HubTypeOK'
  BY <1>3 DEF Commit, Rollback, hubVars, mailVars
<1>4. ASSUME NEW id \in unpublished, PublishWake(id) PROVE HubTypeOK'
  BY <1>4 DEF PublishWake, hubVars, mailVars
<1>5. CASE WriteCommand \/ RedisApplies \/ LaneIdles \/ UNCHANGED vars
  BY <1>1, <1>5 DEF WriteCommand, RedisApplies, LaneIdles, vars, dbVars
<1>6. CASE ReadReply \/ LaneFails \/ OfferLive
  <2>1. UNCHANGED <<open, committed, unpublished, attached, terminal>>
    BY <1>6 DEF ReadReply, LaneFails, OfferLive, dbVars, hubVars
  <2>2. /\ UNCHANGED wake \/ wake' = [v \in Viewer |-> wake[v] \/ v \in attached]
        /\ UNCHANGED live \/ live' = [v \in Viewer |-> live[v] \/ v \in attached]
    BY <1>6 DEF ReadReply, LaneFails, OfferLive
  <2>3. QED
    BY <2>1, <2>2, MailStaysBoolean
<1>7. ASSUME NEW v \in Viewer, NEW c \in 0..MaxEvents, Connect(v, c) PROVE HubTypeOK'
  BY <1>1, <1>7 DEF Connect, dbVars
<1>8. ASSUME NEW v \in Viewer,
             ReadPage(v) \/ LaneReady(v) \/ JoinLive(v) \/ Reconcile(v) \/ ShowLive(v)
      PROVE  HubTypeOK'
  BY <1>1, <1>8 DEF ReadPage, LaneReady, JoinLive, Reconcile, Move, ShowLive, Show, dbVars
<1>9. ASSUME NEW v \in Viewer, SendDurable(v) \/ WithholdTerminal(v) PROVE HubTypeOK'
  <2>1. UNCHANGED <<open, committed, unpublished, attached>>
    BY <1>9 DEF SendDurable, WithholdTerminal, dbVars
  <2>2. AnnounceTerminal \/ UNCHANGED <<terminal, wake, live>>
    BY <1>9 DEF SendDurable, WithholdTerminal
  <2>3. terminal' => attached' # {}
    BY <2>1, <2>2 DEF AnnounceTerminal
  <2>4. wake' \in [Viewer -> BOOLEAN] /\ live' \in [Viewer -> BOOLEAN]
    BY <2>2, MailStaysBoolean DEF AnnounceTerminal
  <2>5. terminal' \in BOOLEAN
    BY <2>2 DEF AnnounceTerminal
  <2>6. QED
    BY <2>1, <2>3, <2>4, <2>5
<1>10. ASSUME NEW v \in Viewer, Attach(v) \/ TakeMail(v) PROVE HubTypeOK'
  <2>1. /\ UNCHANGED <<open, committed, unpublished, terminal>>
        /\ attached' \subseteq Viewer /\ attached \subseteq attached'
    BY <1>10 DEF Attach, TakeMail, dbVars, hubVars
  <2>2. /\ \E b \in BOOLEAN : wake' = [wake EXCEPT ![v] = b]
        /\ live' = [live EXCEPT ![v] = FALSE]
    BY <1>10 DEF Attach, TakeMail
  <2>3. QED
    BY <2>1, <2>2
<1>11. ASSUME NEW v \in Viewer, Leave(v) PROVE HubTypeOK'
  <2>1. /\ attached' = attached \ {v}
        /\ (attached = {v} /\ terminal' = FALSE) \/ (attached # {v} /\ terminal' = terminal)
        /\ UNCHANGED <<open, committed, unpublished>>
    BY <1>11 DEF Leave, Forget, dbVars
  <2>2. wake' = [wake EXCEPT ![v] = FALSE] /\ live' = [live EXCEPT ![v] = FALSE]
    BY <1>11 DEF Leave
  <2>3. terminal' \in BOOLEAN
    BY <2>1
  <2>4. terminal' => attached' # {}
    <3>1. attached # {} /\ attached # {v} => \E w \in attached : w # v
      OBVIOUS
    <3>2. QED
      BY <2>1, <3>1
  <2>5. QED
    BY <2>1, <2>2, <2>3, <2>4
<1>12. QED
  BY <1>2, <1>3, <1>4, <1>5, <1>6, <1>7, <1>8, <1>9, <1>10, <1>11
  DEF Next, Writers, Lane, Serve

(* The hub holds the channel exactly while the run has viewers, and what the *)
(* lane last asked for is what the replies still to come leave it with, or   *)
(* what it has when none is to come, whatever connections fail and however   *)
(* viewers come and go (http/sse/hub.py attach, detach; subscriptions.py     *)
(* 83-130): no viewer waits for a subscription nobody requests.              *)
THEOREM HubStaysConsistent == Spec => []HubConsistent
<1>1. LogInv /\ HubInv /\ LaneInv /\ HubTypeOK => HubConsistent
  <2> SUFFICES ASSUME LogInv, HubInv, LaneInv, HubTypeOK PROVE HubConsistent
    OBVIOUS
  <2>1. cursor \in [Viewer -> 0..MaxEvents]
    <3> SUFFICES ASSUME NEW v \in Viewer PROVE cursor[v] \in 0..MaxEvents
      BY DEF LogInv, StreamTypeOK
    <3>1. cursor[v] = 0 \/ cursor[v] \in Ids
      BY DEF LogInv, CursorIsCommitted, HubTypeOK
    <3>2. QED
      BY <3>1, StreamAssumption DEF Ids
  <2>2. TypeOK
    BY <2>1 DEF LogInv, PagesInOrder, HubInv, LaneInv, HubTypeOK, TypeOK
  <2>3. QED
    BY <2>2 DEF HubInv, LaneInv, HubConsistent, ChannelFollowsViewers
<1>2. Init => LogInv /\ HubInv /\ LaneInv /\ HubTypeOK
  BY LogInitially, HubInitially, LaneInitially, HubTypeInitially
<1>3. (LogInv /\ HubInv /\ LaneInv /\ HubTypeOK) /\ [Next]_vars
        => (LogInv /\ HubInv /\ LaneInv /\ HubTypeOK)'
  BY LogStep, HubStep, LaneStep, HubTypeStep
<1>4. QED
  BY <1>1, <1>2, <1>3, PTL DEF Spec

=============================================================================
