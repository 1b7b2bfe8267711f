------------------------------ MODULE Sessions ------------------------------
(***************************************************************************)
(* Signing in and out: one-time codes, passwords, rotating refresh tokens, *)
(* revocation, and the administrator who suspends and activates accounts.  *)
(*                                                                         *)
(* A request executes one statement per step and may be abandoned between  *)
(* two of them.  An account is named by the phone number or address it is  *)
(* unique for, a session by the refresh token issued with it.  Access      *)
(* tokens are checked without a table and are not modelled; neither is the *)
(* channel of a code, which the client repeats as it got it.               *)
(*                                                                         *)
(* Accounts, challenges and sessions are never deleted, so a statement     *)
(* that only looks whether its row exists, or whose it is, is one step     *)
(* with the statement after it.                                            *)
(***************************************************************************)
EXTENDS Naturals, FiniteSets

CONSTANTS
  Contacts,        \* phone numbers and addresses: each at most one User
  Challenges,      \* ids of OtpChallenge rows
  SessionIds,      \* ids of UserSession rows
  Requests,        \* requests the API serves at the same time
  MaxOtpAttempts,
  MaxSignOuts,     \* bound on signing out everywhere, per account
  MaxFaults,       \* bound on abandoned requests
  NULL

VARIABLES
  users,       \* User: status, and whether a role is assigned
  challenges,  \* OtpChallenge: status, contact, attempts, whether expired
  sessions,    \* UserSession: state, whether expired, user; history: the
               \* session it replaced, the code it was opened with, and how
               \* often its user had signed out everywhere when signing in
  audit,       \* AuditLog: the last status change logged for a user
  requests,    \* the requests in flight
  signOuts,    \* history: how often a user signed out everywhere
  met,         \* history: challenges, sessions and users two requests worked on
  crossed,     \* history: users who signed out everywhere with a request in flight
  torn,        \* history: users one of whose requests was abandoned
  faults       \* abandoned requests so far

tables == <<users, challenges, sessions, audit>>
history == <<signOuts, met, crossed, torn, faults>>
vars == <<tables, requests, history>>

NoUser == [status |-> "NONE", role |-> FALSE]
NoChallenge == [status |-> "NONE", contact |-> NULL, attempts |-> 0, expired |-> FALSE]
NoSession == [state |-> "NONE", expired |-> FALSE, user |-> NULL, from |-> NULL,
              code |-> NULL, since |-> 0]
Idle == [pc |-> "idle", user |-> NULL, challenge |-> NULL, session |-> NULL,
         since |-> 0, target |-> "NONE"]

UserStatus == {"PENDING", "ACTIVE", "SUSPENDED"}
Pcs == {"idle", "compare", "findUser", "createUser", "assignRole", "touch", "open",
        "rotate", "expire", "reissue", "setStatus", "log"}

Exists(c) == users[c].status # "NONE"
InFlight(pcs, c) == \E q \in Requests : requests[q].pc \in pcs /\ requests[q].user = c

INSTANCE RequestSteps

-----------------------------------------------------------------------------
(* One-time codes. *)

\* To log in there must be an account; to sign up there need not be.
OtpStart(h, c, purpose) ==
  /\ challenges[h] = NoChallenge
  /\ purpose = "LOGIN" => Exists(c)
  /\ challenges' = [challenges EXCEPT ![h] = [NoChallenge EXCEPT !.status = "OPEN",
                                                                 !.contact = c]]
  /\ UNCHANGED <<users, sessions, audit, requests, history>>

Comparing(h) == \E q \in Requests : At(q, "compare") /\ requests[q].challenge = h

StartComparing(r, h) ==
  /\ Begin(r, [Idle EXCEPT !.pc = "compare", !.challenge = h,
                           !.user = challenges[h].contact,
                           !.since = signOuts[challenges[h].contact]])
  /\ met' = IF Comparing(h) THEN met \union {h} ELSE met
  /\ UNCHANGED <<tables, signOuts, crossed, torn, faults>>

\* Mutants: a consumed code is compared again; one attempt too many is let in.
VerifyReadConsumed(r, h) ==
  /\ challenges[h] # NoChallenge
  /\ ~challenges[h].expired
  /\ challenges[h].attempts < MaxOtpAttempts
  /\ StartComparing(r, h)
VerifyReadLate(r, h) ==
  /\ challenges[h].status = "OPEN"
  /\ ~challenges[h].expired
  /\ challenges[h].attempts <= MaxOtpAttempts
  /\ StartComparing(r, h)

VerifyRead(r, h) ==
  /\ challenges[h].status = "OPEN"
  /\ ~challenges[h].expired
  /\ challenges[h].attempts < MaxOtpAttempts
  /\ StartComparing(r, h)

\* The code is wrong: the attempt is counted in one statement.
VerifyWrong(r) ==
  /\ At(r, "compare")
  /\ challenges' = [challenges EXCEPT ![requests[r].challenge].attempts = @ + 1]
  /\ Finish(r)
  /\ UNCHANGED <<users, sessions, audit, history>>

\* The code is right: the challenge is consumed whatever became of it since.
VerifyConsume(r) ==
  /\ At(r, "compare")
  /\ challenges' = [challenges EXCEPT ![requests[r].challenge].status = "CONSUMED"]
  /\ Continue(r, "findUser")
  /\ UNCHANGED <<users, sessions, audit, history>>

VerifyFindUser(r) ==
  /\ At(r, "findUser")
  /\ Continue(r, IF Exists(requests[r].user) THEN "touch" ELSE "createUser")
  /\ UNCHANGED <<tables, history>>

\* Mutant: the new account is left without a role.
VerifyCreateUserOnly(r) ==
  /\ At(r, "createUser")
  /\ IF Exists(requests[r].user)
       THEN Finish(r) /\ UNCHANGED users
       ELSE /\ users' = [users EXCEPT ![requests[r].user].status = "PENDING"]
            /\ Continue(r, "open")
  /\ UNCHANGED <<challenges, sessions, audit, history>>

\* The second of two inserts for one contact fails on the unique index.
VerifyCreateUser(r) ==
  /\ At(r, "createUser")
  /\ IF Exists(requests[r].user)
       THEN Finish(r) /\ UNCHANGED users
       ELSE /\ users' = [users EXCEPT ![requests[r].user].status = "PENDING"]
            /\ Continue(r, "assignRole")
  /\ UNCHANGED <<challenges, sessions, audit, history>>

\* The status checked next is the one the insert returned.
VerifyAssignRole(r) ==
  /\ At(r, "assignRole")
  /\ users' = [users EXCEPT ![requests[r].user].role = TRUE]
  /\ Continue(r, "open")
  /\ UNCHANGED <<challenges, sessions, audit, history>>

\* The update of the last login returns the row as it is now.
VerifyTouch(r) ==
  /\ At(r, "touch")
  /\ IF users[requests[r].user].status = "SUSPENDED" THEN Finish(r) ELSE Continue(r, "open")
  /\ UNCHANGED <<tables, history>>

-----------------------------------------------------------------------------
(* Sessions. *)

\* A password is compared after the status is read.
LoginRead(r, c) ==
  /\ users[c].status \in UserStatus \ {"SUSPENDED"}
  /\ Begin(r, [Idle EXCEPT !.pc = "open", !.user = c, !.since = signOuts[c]])
  /\ UNCHANGED <<tables, history>>

Create(r, s) ==
  /\ sessions[s] = NoSession
  /\ sessions' = [sessions EXCEPT ![s] =
                    [NoSession EXCEPT !.state = "LIVE", !.user = requests[r].user,
                                      !.from = requests[r].session,
                                      !.code = requests[r].challenge,
                                      !.since = requests[r].since]]
  /\ Finish(r)
  /\ UNCHANGED <<users, challenges, audit, history>>

OpenSession(r, s) == At(r, "open") /\ Create(r, s)

Rotating(s) == \E q \in Requests : At(q, "rotate") /\ requests[q].session = s

StartRefreshing(r, s) ==
  /\ Begin(r, [Idle EXCEPT !.pc = IF sessions[s].expired THEN "expire" ELSE "rotate",
                           !.user = sessions[s].user, !.session = s,
                           !.since = sessions[s].since])
  /\ met' = IF Rotating(s) THEN met \union {s} ELSE met
  /\ UNCHANGED <<tables, signOuts, crossed, torn, faults>>

\* Mutant: a revoked session is refreshed.
RefreshReadRevoked(r, s) == sessions[s] # NoSession /\ StartRefreshing(r, s)

\* The token of a revoked session is refused.
RefreshRead(r, s) == sessions[s].state = "LIVE" /\ StartRefreshing(r, s)

\* Mutant: the old session is left as it is.
RotateNothing(r) ==
  /\ At(r, "rotate")
  /\ Continue(r, "reissue")
  /\ UNCHANGED <<tables, history>>

\* Revoking does not ask whether the session still is live.
Rotate(r) ==
  /\ At(r, "rotate")
  /\ sessions' = [sessions EXCEPT ![requests[r].session].state = "REVOKED"]
  /\ Continue(r, "reissue")
  /\ UNCHANGED <<users, challenges, audit, history>>

\* Mutant: the status is one of the challenges', which sessions do not have.
ExpireExpired(r) ==
  /\ At(r, "expire")
  /\ sessions' = [sessions EXCEPT ![requests[r].session].state = "EXPIRED"]
  /\ Finish(r)
  /\ UNCHANGED <<users, challenges, audit, history>>

RevokeExpired(r) ==
  /\ At(r, "expire")
  /\ sessions' = [sessions EXCEPT ![requests[r].session].state = "REVOKED"]
  /\ Finish(r)
  /\ UNCHANGED <<users, challenges, audit, history>>

\* Neither the status nor anything else of the user stops it.
Reissue(r, s) == At(r, "reissue") /\ Create(r, s)

\* Logging out of a session, or revoking one of the list.
RevokeSession(s) ==
  /\ sessions[s] # NoSession
  /\ sessions' = [sessions EXCEPT ![s].state = "REVOKED"]
  /\ UNCHANGED <<users, challenges, audit, requests, history>>

Revoked(s) == [sessions[s] EXCEPT !.state = "REVOKED"]

\* Mutant: only the sessions a sign-in opened are revoked, not refreshed ones.
LogoutAllOpened(c) ==
  /\ sessions' = [s \in SessionIds |->
                    IF sessions[s].user = c /\ sessions[s].from = NULL
                      THEN Revoked(s) ELSE sessions[s]]
  /\ signOuts' = [signOuts EXCEPT ![c] = @ + 1]
  /\ crossed' = IF InFlight(Pcs, c) THEN crossed \union {c} ELSE crossed
  /\ UNCHANGED <<users, challenges, audit, requests, met, torn, faults>>

LogoutAll(c) ==
  /\ signOuts[c] < MaxSignOuts
  /\ sessions' = [s \in SessionIds |->
                    IF sessions[s].user = c THEN Revoked(s) ELSE sessions[s]]
  /\ signOuts' = [signOuts EXCEPT ![c] = @ + 1]
  /\ crossed' = IF InFlight(Pcs, c) THEN crossed \union {c} ELSE crossed
  /\ UNCHANGED <<users, challenges, audit, requests, met, torn, faults>>

-----------------------------------------------------------------------------
(* The administrator. *)

Administering(c) == InFlight({"setStatus", "log"}, c)

\* Suspending a suspended account, or activating an active one, does nothing.
ReadStatus(r, c, target) ==
  /\ Exists(c)
  /\ users[c].status # target
  /\ Begin(r, [Idle EXCEPT !.pc = "setStatus", !.user = c, !.target = target])
  /\ met' = IF Administering(c) THEN met \union {c} ELSE met
  /\ UNCHANGED <<tables, signOuts, crossed, torn, faults>>

SetStatus(r) ==
  /\ At(r, "setStatus")
  /\ users' = [users EXCEPT ![requests[r].user].status = requests[r].target]
  /\ Continue(r, "log")
  /\ UNCHANGED <<challenges, sessions, audit, history>>

\* Mutant: the log is written for suspensions only.
LogSuspension(r) ==
  /\ At(r, "log")
  /\ audit' = IF requests[r].target = "SUSPENDED"
                THEN [audit EXCEPT ![requests[r].user] = "SUSPENDED"] ELSE audit
  /\ Finish(r)
  /\ UNCHANGED <<users, challenges, sessions, history>>

Log(r) ==
  /\ At(r, "log")
  /\ audit' = [audit EXCEPT ![requests[r].user] = requests[r].target]
  /\ Finish(r)
  /\ UNCHANGED <<users, challenges, sessions, history>>

-----------------------------------------------------------------------------
(* The environment.  What is consumed or revoked may expire too, to no effect. *)

ChallengeExpires(h) ==
  /\ challenges[h].status = "OPEN"
  /\ challenges' = [challenges EXCEPT ![h].expired = TRUE]
  /\ UNCHANGED <<users, sessions, audit, requests, history>>

SessionExpires(s) ==
  /\ sessions[s].state = "LIVE"
  /\ sessions' = [sessions EXCEPT ![s].expired = TRUE]
  /\ UNCHANGED <<users, challenges, audit, requests, history>>

\* A statement fails, or the process stops.
Abandon(r) ==
  /\ ~At(r, "idle")
  /\ faults < MaxFaults
  /\ faults' = faults + 1
  /\ torn' = torn \union {requests[r].user}
  /\ Finish(r)
  /\ UNCHANGED <<tables, signOuts, met, crossed>>

Init ==
  /\ users \in [Contacts -> {NoUser, [status |-> "ACTIVE", role |-> TRUE]}]
  /\ challenges = [h \in Challenges |-> NoChallenge]
  /\ sessions = [s \in SessionIds |-> NoSession]
  /\ audit = [c \in Contacts |-> "NONE"]
  /\ requests = [r \in Requests |-> Idle]
  /\ signOuts = [c \in Contacts |-> 0]
  /\ met = {} /\ crossed = {} /\ torn = {} /\ faults = 0

Verify(r) ==
  \/ \E h \in Challenges : VerifyRead(r, h)
  \/ VerifyWrong(r)
  \/ VerifyConsume(r)
  \/ VerifyFindUser(r)
  \/ VerifyCreateUser(r)
  \/ VerifyAssignRole(r)
  \/ VerifyTouch(r)

Refresh(r) ==
  \/ \E s \in SessionIds : RefreshRead(r, s) \/ Reissue(r, s)
  \/ Rotate(r)
  \/ RevokeExpired(r)

Administer(r) ==
  \/ \E c \in Contacts : \E t \in {"SUSPENDED", "ACTIVE"} : ReadStatus(r, c, t)
  \/ SetStatus(r)
  \/ Log(r)

SignIn(r) ==
  \/ \E c \in Contacts : LoginRead(r, c)
  \/ \E s \in SessionIds : OpenSession(r, s)

Next ==
  \/ \E r \in Requests : Verify(r) \/ SignIn(r) \/ Refresh(r) \/ Administer(r) \/ Abandon(r)
  \/ \E h \in Challenges : \E c \in Contacts : \E p \in {"LOGIN", "SIGNUP"} : OtpStart(h, c, p)
  \/ \E h \in Challenges : ChallengeExpires(h)
  \/ \E s \in SessionIds : RevokeSession(s) \/ SessionExpires(s)
  \/ \E c \in Contacts : LogoutAll(c)

Spec == Init /\ [][Next]_vars

-----------------------------------------------------------------------------
(* Properties. *)

\* Every column and every request holds a value of its type.
TypeOK ==
  /\ users \in [Contacts -> [status : UserStatus \union {"NONE"}, role : BOOLEAN]]
  /\ challenges \in [Challenges -> [status : {"NONE", "OPEN", "CONSUMED"},
                                    contact : Contacts \union {NULL},
                                    attempts : Nat, expired : BOOLEAN]]
  /\ sessions \in [SessionIds -> [state : {"NONE", "LIVE", "REVOKED"}, expired : BOOLEAN,
                                  user : Contacts \union {NULL},
                                  from : SessionIds \union {NULL},
                                  code : Challenges \union {NULL}, since : Nat]]
  /\ audit \in [Contacts -> {"NONE", "SUSPENDED", "ACTIVE"}]
  /\ requests \in [Requests -> [pc : Pcs, user : Contacts \union {NULL},
                                challenge : Challenges \union {NULL},
                                session : SessionIds \union {NULL}, since : Nat,
                                target : {"NONE", "SUSPENDED", "ACTIVE"}]]
  /\ signOuts \in [Contacts -> Nat]
  /\ met \subseteq Challenges \union SessionIds \union Contacts
  /\ crossed \subseteq Contacts /\ torn \subseteq Contacts /\ faults \in Nat

\* A code opens one session, unless two verifications of it overlapped: the
\* row is marked consumed in a statement after the one that looked.
OneSessionPerCode ==
  \A h \in Challenges \ met : \A s, t \in SessionIds :
    (sessions[s].code = h /\ sessions[t].code = h) => s = t

\* Guessing stops at the limit, give or take the requests already past the
\* check: the attempts counted and those being compared never exceed it by
\* more than one per further request served at the same time.
AttemptsStayNearLimit ==
  \A h \in Challenges :
    challenges[h].attempts
      + Cardinality({r \in Requests : At(r, "compare") /\ requests[r].challenge = h})
      <= MaxOtpAttempts + Cardinality(Requests) - 1

\* Refreshing replaces: a session that has a successor is revoked for good,
\* and has one successor unless two refreshes of it overlapped.
RotationReplaces ==
  \A s, t \in SessionIds :
    sessions[t].from = s =>
      /\ sessions[s].state = "REVOKED"
      /\ \A u \in SessionIds : sessions[u].from = s /\ s \notin met => u = t

\* Signing out everywhere reaches every session that goes back, refresh by
\* refresh, to an earlier sign-in, unless a request of the user was in flight.
SignOutEverywhereHolds ==
  \A s \in SessionIds :
    sessions[s].state = "LIVE" /\ sessions[s].since < signOuts[sessions[s].user]
      => sessions[s].user \in crossed

\* An account has its role, unless the request creating it has not come to
\* that or was abandoned.
AccountHasRole ==
  \A c \in Contacts :
    Exists(c) /\ ~users[c].role => InFlight({"assignRole"}, c) \/ c \in torn

\* With no administrator at work on an account, and none abandoned or
\* overlapping before, the log names the status the account has.
AuditNamesStatus ==
  \A c \in Contacts :
    \/ Administering(c) \/ c \in met \/ c \in torn
    \/ audit[c] # "NONE" /\ users[c].status = audit[c]
    \/ audit[c] = "NONE" /\ users[c].status # "SUSPENDED"
=============================================================================
