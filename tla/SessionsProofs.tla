---------------------------- MODULE SessionsProofs ----------------------------
(***************************************************************************)
(* Theorems about Sessions, for every value of its constants.              *)
(***************************************************************************)
EXTENDS Sessions, FiniteSetTheorems, TLAPS

Request == [pc : Pcs, user : Contacts \union {NULL}, challenge : Challenges \union {NULL},
            session : SessionIds \union {NULL}, since : Nat,
            target : {"NONE", "SUSPENDED", "ACTIVE"}]
Session == [state : {"NONE", "LIVE", "REVOKED"}, expired : BOOLEAN,
            user : Contacts \union {NULL}, from : SessionIds \union {NULL},
            code : Challenges \union {NULL}, since : Nat]
Challenge == [status : {"NONE", "OPEN", "CONSUMED"}, contact : Contacts \union {NULL},
              attempts : Nat, expired : BOOLEAN]
User == [status : UserStatus \union {"NONE"}, role : BOOLEAN]

-----------------------------------------------------------------------------
(* The inductive invariant *)

SigningInPcs == {"compare", "findUser", "createUser", "assignRole", "touch", "open"}
RefreshPcs == {"rotate", "expire", "reissue"}

\* What a request carries is what its next statement needs.
RequestLinked(q) ==
  /\ q.pc # "idle" => q.user \in Contacts
  /\ q.pc = "compare" => q.challenge \in Challenges /\ challenges[q.challenge].status # "NONE"
  /\ q.pc \in RefreshPcs => /\ q.session \in SessionIds /\ sessions[q.session].state # "NONE"
                            /\ q.challenge = NULL
  /\ q.pc \in SigningInPcs => q.session = NULL
  /\ q.pc \in {"setStatus", "log"} => Exists(q.user) /\ q.target # "NONE"

\* A row that is there belongs to a contact.
RowsLinked ==
  /\ \A h \in Challenges : IF challenges[h].status = "NONE" THEN challenges[h] = NoChallenge
                           ELSE challenges[h].contact \in Contacts
  /\ \A s \in SessionIds : IF sessions[s].state = "NONE" THEN sessions[s] = NoSession
                           ELSE sessions[s].user \in Contacts

Linked == RowsLinked /\ \A r \in Requests : RequestLinked(requests[r])

TInv == TypeOK /\ Linked

-----------------------------------------------------------------------------
(* Types *)

\* Type correctness, table by table.
Types ==
  /\ users \in [Contacts -> User] /\ challenges \in [Challenges -> Challenge]
  /\ sessions \in [SessionIds -> Session] /\ requests \in [Requests -> Request]
  /\ audit \in [Contacts -> {"NONE", "SUSPENDED", "ACTIVE"}]
  /\ signOuts \in [Contacts -> Nat]
  /\ met \subseteq Challenges \union SessionIds \union Contacts
  /\ crossed \subseteq Contacts /\ torn \subseteq Contacts /\ faults \in Nat

LEMMA Typed == (TypeOK <=> Types) /\ (TypeOK' <=> Types')
  BY DEF TypeOK, Types, User, Challenge, Session, Request

\* The constants of each type belong to it.
LEMMA ConstantsTyped ==
  Idle \in Request /\ NoChallenge \in Challenge /\ NoSession \in Session /\ NoUser \in User
  BY DEF Idle, Request, NoChallenge, Challenge, NoSession, Session, NoUser, User, Pcs

\* The initial state is typed and linked.
LEMMA InitTInv == Init => TInv
<1> SUFFICES ASSUME Init PROVE TInv
  OBVIOUS
<1>1. [status |-> "ACTIVE", role |-> TRUE] \in User
  BY DEF User, UserStatus
<1>2. TypeOK
  BY <1>1, Typed, ConstantsTyped DEF Init, Types
<1>3. Linked
  BY DEF Init, Linked, RowsLinked, RequestLinked, Idle, NoChallenge, NoSession, RefreshPcs, SigningInPcs
<1>4. QED
  BY <1>2, <1>3 DEF TInv

\* What a request that begins, goes on or ends becomes; the others stay.
OnlyMoves(r, new) ==
  /\ requests' \in [Requests -> Request]
  /\ requests'[r] = new
  /\ \A q \in Requests \ {r} : requests'[q] = requests[q]

LEMMA BeginMoves ==
  ASSUME requests \in [Requests -> Request], NEW r \in Requests,
         NEW new \in Request, Begin(r, new)
  PROVE  OnlyMoves(r, new) /\ requests[r].pc = "idle"
  BY DEF Begin, At, OnlyMoves

LEMMA ContinueMoves ==
  ASSUME requests \in [Requests -> Request], NEW r \in Requests,
         NEW pc \in Pcs, Continue(r, pc)
  PROVE  OnlyMoves(r, [requests[r] EXCEPT !.pc = pc])
  BY DEF Continue, Request, OnlyMoves

LEMMA FinishMoves ==
  ASSUME requests \in [Requests -> Request], NEW r \in Requests, Finish(r)
  PROVE  OnlyMoves(r, Idle)
  BY ConstantsTyped DEF Finish, OnlyMoves

\* Every step of a verification keeps the types.
LEMMA VerifyTyped ==
  ASSUME TInv, NEW r \in Requests, Verify(r)
  PROVE  TypeOK'
<1> USE Typed, ConstantsTyped DEF TInv, Types, OnlyMoves, history
<1>1. RequestLinked(requests[r]) /\ requests[r] \in Request
  BY DEF Linked
<1>2. ASSUME NEW h \in Challenges, VerifyRead(r, h)
      PROVE  TypeOK'
  <2>1. challenges[h].contact \in Contacts /\ signOuts[challenges[h].contact] \in Nat
    BY <1>2 DEF VerifyRead, Linked, RowsLinked
  <2> DEFINE new == [Idle EXCEPT !.pc = "compare", !.challenge = h,
                                 !.user = challenges[h].contact,
                                 !.since = signOuts[challenges[h].contact]]
  <2>2. new \in Request
    BY <2>1 DEF Idle, Request, Pcs
  <2>3. Begin(r, new)
    BY <1>2 DEF VerifyRead, StartComparing
  <2>4. QED
    BY <1>2, <2>2, <2>3, BeginMoves DEF VerifyRead, StartComparing, tables
<1>3. CASE VerifyWrong(r)
  <2>1. requests[r].challenge \in Challenges
    BY <1>1, <1>3 DEF VerifyWrong, RequestLinked, At
  <2>2. challenges' \in [Challenges -> Challenge]
    BY <1>3, <2>1 DEF VerifyWrong, Challenge
  <2>3. QED
    BY <1>3, <2>2, FinishMoves DEF VerifyWrong
<1>4. CASE VerifyConsume(r)
  <2>1. requests[r].challenge \in Challenges
    BY <1>1, <1>4 DEF VerifyConsume, RequestLinked, At
  <2>2. challenges' \in [Challenges -> Challenge]
    BY <1>4, <2>1 DEF VerifyConsume, Challenge
  <2>3. QED
    BY <1>4, <2>2, ContinueMoves DEF VerifyConsume, Pcs
<1>5. CASE VerifyFindUser(r)
  BY <1>5, ContinueMoves DEF VerifyFindUser, Pcs, tables
<1>6. CASE VerifyCreateUser(r)
  <2>1. users' \in [Contacts -> User]
    BY <1>6 DEF VerifyCreateUser, User, UserStatus
  <2>2. requests' \in [Requests -> Request]
    BY <1>6, ContinueMoves, FinishMoves DEF VerifyCreateUser, Pcs
  <2>3. QED
    BY <1>6, <2>1, <2>2 DEF VerifyCreateUser
<1>7. CASE VerifyAssignRole(r)
  <2>1. users' \in [Contacts -> User]
    BY <1>7 DEF VerifyAssignRole, User
  <2>2. QED
    BY <1>7, <2>1, ContinueMoves DEF VerifyAssignRole, Pcs
<1>8. CASE VerifyTouch(r)
  BY <1>8, ContinueMoves, FinishMoves DEF VerifyTouch, Pcs, tables
<1>9. QED
  BY <1>2, <1>3, <1>4, <1>5, <1>6, <1>7, <1>8 DEF Verify

\* Every step of a sign-in or a refresh keeps the types.
LEMMA RefreshTyped ==
  ASSUME TInv, NEW r \in Requests, SignIn(r) \/ Refresh(r)
  PROVE  TypeOK'
<1> USE Typed, ConstantsTyped DEF TInv, Types, OnlyMoves, history
<1>1. RequestLinked(requests[r]) /\ requests[r] \in Request
  BY DEF Linked
<1>2. ASSUME NEW s \in SessionIds, Create(r, s)
      PROVE  TypeOK'
  <2>1. sessions' \in [SessionIds -> Session]
    BY <1>1, <1>2 DEF Create, NoSession, Session, Request
  <2>2. QED
    BY <1>2, <2>1, FinishMoves DEF Create
<1>3. ASSUME NEW c \in Contacts, LoginRead(r, c)
      PROVE  TypeOK'
  <2>1. OnlyMoves(r, [Idle EXCEPT !.pc = "open", !.user = c, !.since = signOuts[c]])
    BY <1>3, BeginMoves DEF LoginRead, Idle, Request, Pcs
  <2>2. QED
    BY <1>3, <2>1 DEF LoginRead, tables
<1>4. ASSUME NEW s \in SessionIds, RefreshRead(r, s)
      PROVE  TypeOK'
  <2>1. sessions[s] \in Session
    OBVIOUS
  <2> DEFINE new == [Idle EXCEPT !.pc = IF sessions[s].expired THEN "expire" ELSE "rotate",
                                 !.user = sessions[s].user, !.session = s,
                                 !.since = sessions[s].since]
  <2>2. new \in Request
    BY <2>1 DEF Idle, Request, Session, Pcs
  <2>3. Begin(r, new)
    BY <1>4 DEF RefreshRead, StartRefreshing
  <2>4. QED
    BY <1>4, <2>2, <2>3, BeginMoves DEF RefreshRead, StartRefreshing, tables
<1>5. CASE Rotate(r)
  <2>1. requests[r].session \in SessionIds
    BY <1>1, <1>5 DEF Rotate, RequestLinked, RefreshPcs, At
  <2>2. sessions' \in [SessionIds -> Session]
    BY <1>5, <2>1 DEF Rotate, Session
  <2>3. QED
    BY <1>5, <2>2, ContinueMoves DEF Rotate, Pcs
<1>6. CASE RevokeExpired(r)
  <2>1. requests[r].session \in SessionIds
    BY <1>1, <1>6 DEF RevokeExpired, RequestLinked, RefreshPcs, At
  <2>2. sessions' \in [SessionIds -> Session]
    BY <1>6, <2>1 DEF RevokeExpired, Session
  <2>3. QED
    BY <1>6, <2>2, FinishMoves DEF RevokeExpired
<1>7. QED
  BY <1>2, <1>3, <1>4, <1>5, <1>6 DEF SignIn, Refresh, OpenSession, Reissue

\* Every step of an administrator keeps the types.
LEMMA AdministerTyped ==
  ASSUME TInv, NEW r \in Requests, Administer(r)
  PROVE  TypeOK'
<1> USE Typed, ConstantsTyped DEF TInv, Types, OnlyMoves, history
<1>1. RequestLinked(requests[r]) /\ requests[r] \in Request
  BY DEF Linked
<1>2. ASSUME NEW c \in Contacts, NEW t \in {"SUSPENDED", "ACTIVE"}, ReadStatus(r, c, t)
      PROVE  TypeOK'
  <2> DEFINE new == [Idle EXCEPT !.pc = "setStatus", !.user = c, !.target = t]
  <2>1. new \in Request
    BY DEF Idle, Request, Pcs
  <2>2. Begin(r, new)
    BY <1>2 DEF ReadStatus
  <2>3. QED
    BY <1>2, <2>1, <2>2, BeginMoves DEF ReadStatus, tables
<1>3. CASE SetStatus(r)
  <2>1. users' \in [Contacts -> User]
    BY <1>1, <1>3 DEF SetStatus, User, UserStatus, Request
  <2>2. QED
    BY <1>3, <2>1, ContinueMoves DEF SetStatus, Pcs
<1>4. CASE Log(r)
  BY <1>1, <1>4, FinishMoves DEF Log, Request
<1>5. QED
  BY <1>2, <1>3, <1>4 DEF Administer

\* Every step keeps the types.
LEMMA NextTypeOK ==
  ASSUME TInv, [Next]_vars
  PROVE  TypeOK'
<1> USE Typed, ConstantsTyped DEF TInv, Types, OnlyMoves, history
<1>1. ASSUME NEW r \in Requests, Abandon(r)
      PROVE  TypeOK'
  <2>1. requests[r].user \in Contacts
    BY <1>1 DEF Abandon, Linked, RequestLinked, At
  <2>2. QED
    BY <1>1, <2>1, FinishMoves DEF Abandon, tables
<1>2. ASSUME NEW h \in Challenges, NEW c \in Contacts, NEW p \in {"LOGIN", "SIGNUP"},
             OtpStart(h, c, p)
      PROVE  TypeOK'
  <2>1. challenges' \in [Challenges -> Challenge]
    BY <1>2 DEF OtpStart, NoChallenge, Challenge
  <2>2. QED
    BY <1>2, <2>1 DEF OtpStart
<1>3. ASSUME NEW h \in Challenges, ChallengeExpires(h)
      PROVE  TypeOK'
  <2>1. challenges' \in [Challenges -> Challenge]
    BY <1>3 DEF ChallengeExpires, Challenge
  <2>2. QED
    BY <1>3, <2>1 DEF ChallengeExpires
<1>4. ASSUME NEW s \in SessionIds, RevokeSession(s) \/ SessionExpires(s)
      PROVE  TypeOK'
  <2>1. ASSUME RevokeSession(s) PROVE sessions' \in [SessionIds -> Session]
    BY <2>1 DEF RevokeSession, Session
  <2>2. ASSUME SessionExpires(s) PROVE sessions' \in [SessionIds -> Session]
    BY <2>2 DEF SessionExpires, Session
  <2>3. QED
    BY <1>4, <2>1, <2>2 DEF RevokeSession, SessionExpires
<1>5. ASSUME NEW c \in Contacts, LogoutAll(c)
      PROVE  TypeOK'
  <2>1. sessions' \in [SessionIds -> Session]
    BY <1>5 DEF LogoutAll, Revoked, Session
  <2>2. QED
    BY <1>5, <2>1 DEF LogoutAll
<1>6. CASE UNCHANGED vars
  BY <1>6 DEF vars, tables
<1>7. QED
  BY <1>1, <1>2, <1>3, <1>4, <1>5, <1>6, VerifyTyped, RefreshTyped, AdministerTyped DEF Next
-----------------------------------------------------------------------------
(* Rows and requests stay linked *)

\* What no step does to a row that is there.
RowsStay ==
  /\ \A h \in Challenges : challenges[h].status # "NONE" =>
       /\ challenges'[h].status # "NONE"
       /\ challenges'[h].contact = challenges[h].contact
       /\ challenges[h].status = "CONSUMED" => challenges'[h].status = "CONSUMED"
  /\ \A s \in SessionIds : sessions[s].state # "NONE" =>
       /\ sessions'[s].state # "NONE"
       /\ sessions[s].state = "REVOKED" => sessions'[s].state = "REVOKED"
       /\ sessions'[s].user = sessions[s].user /\ sessions'[s].from = sessions[s].from
       /\ sessions'[s].code = sessions[s].code /\ sessions'[s].since = sessions[s].since
  /\ \A c \in Contacts : Exists(c) => Exists(c)'

LEMMA ChallengeRows ==
  ASSUME TInv, NEW h \in Challenges, NEW new \in Challenge,
         challenges' = [challenges EXCEPT ![h] = new], UNCHANGED <<users, sessions>>,
         new.status # "NONE", new.contact \in Contacts,
         challenges[h].status # "NONE" => new.contact = challenges[h].contact,
         challenges[h].status = "CONSUMED" => new.status = "CONSUMED"
  PROVE  RowsStay /\ RowsLinked'
  BY Typed DEF TInv, Types, Linked, RowsLinked, RowsStay, Exists

LEMMA UserRows ==
  ASSUME TInv, UNCHANGED <<challenges, sessions>>,
         \A c \in Contacts : Exists(c) => Exists(c)'
  PROVE  RowsStay /\ RowsLinked'
  BY DEF TInv, Linked, RowsLinked, RowsStay

LEMMA SessionRows ==
  ASSUME TInv, UNCHANGED <<challenges, users>>,
         \A s \in SessionIds :
           \/ sessions'[s] = sessions[s]
           \/ sessions'[s] = [sessions[s] EXCEPT !.state = "REVOKED"]
              /\ sessions[s].user \in Contacts
           \/ sessions'[s] = [sessions[s] EXCEPT !.expired = TRUE]
              /\ sessions[s].state = "LIVE"
           \/ sessions[s] = NoSession /\ sessions'[s].state = "LIVE"
              /\ sessions'[s].user \in Contacts
  PROVE  RowsStay /\ RowsLinked'
<1>1. \A s \in SessionIds : sessions[s] \in Session
  BY Typed DEF TInv, Types
<1>2. ASSUME NEW s \in SessionIds
      PROVE  /\ sessions'[s].state = "NONE" => sessions'[s] = NoSession
             /\ sessions'[s].state # "NONE" => sessions'[s].user \in Contacts
             /\ sessions[s].state # "NONE" =>
                  /\ sessions'[s].state # "NONE"
                  /\ sessions[s].state = "REVOKED" => sessions'[s].state = "REVOKED"
                  /\ sessions'[s].user = sessions[s].user /\ sessions'[s].from = sessions[s].from
                  /\ sessions'[s].code = sessions[s].code /\ sessions'[s].since = sessions[s].since
  <2>1. sessions[s] \in Session
        /\ IF sessions[s].state = "NONE" THEN sessions[s] = NoSession
           ELSE sessions[s].user \in Contacts
    BY <1>1 DEF TInv, Linked, RowsLinked
  <2>2. CASE sessions'[s] = sessions[s]
    BY <2>1, <2>2
  <2>3. CASE /\ sessions'[s] = [sessions[s] EXCEPT !.state = "REVOKED"]
             /\ sessions[s].user \in Contacts
    BY <2>1, <2>3 DEF Session
  <2>4. CASE /\ sessions'[s] = [sessions[s] EXCEPT !.expired = TRUE]
             /\ sessions[s].state = "LIVE"
    BY <2>1, <2>4 DEF Session
  <2>5. CASE /\ sessions[s] = NoSession /\ sessions'[s].state = "LIVE"
             /\ sessions'[s].user \in Contacts
    BY <2>5 DEF NoSession
  <2>6. QED
    BY <2>2, <2>3, <2>4, <2>5
<1>3. QED
  BY <1>2 DEF TInv, Linked, RowsLinked, RowsStay, Exists

\* No step undoes a row.
LEMMA RowsKeep ==
  ASSUME TInv, [Next]_vars
  PROVE  RowsStay /\ RowsLinked'
<1> USE Typed DEF TInv, Types
<1>1. UNCHANGED <<users, challenges, sessions>> => RowsStay /\ RowsLinked'
  BY UserRows DEF Exists
<1>2. \A r \in Requests : RequestLinked(requests[r]) /\ requests[r] \in Request
  BY DEF Linked
<1>3. ASSUME NEW r \in Requests, Verify(r)
      PROVE  RowsStay /\ RowsLinked'
  <2>1. CASE VerifyWrong(r) \/ VerifyConsume(r)
    <3> DEFINE h == requests[r].challenge
    <3>1. h \in Challenges /\ challenges[h].status # "NONE" /\ challenges[h].contact \in Contacts
      BY <1>2, <2>1 DEF VerifyWrong, VerifyConsume, RequestLinked, Linked, RowsLinked, At
    <3>2. challenges[h] \in Challenge
      BY <3>1
    <3>3. CASE VerifyWrong(r)
      <4> DEFINE new == [challenges[h] EXCEPT !.attempts = @ + 1]
      <4>1. challenges' = [challenges EXCEPT ![h] = new] /\ UNCHANGED <<users, sessions>>
        BY <3>2, <3>3 DEF VerifyWrong, Challenge
      <4>2. /\ new \in Challenge /\ new.contact = challenges[h].contact
            /\ new.status \in {challenges[h].status, "CONSUMED"}
        BY <3>2 DEF Challenge
      <4> HIDE DEF new, h
      <4>3. QED
        BY <3>1, <4>1, <4>2, ChallengeRows
    <3>4. CASE VerifyConsume(r)
      <4> DEFINE new == [challenges[h] EXCEPT !.status = "CONSUMED"]
      <4>1. challenges' = [challenges EXCEPT ![h] = new] /\ UNCHANGED <<users, sessions>>
        BY <3>2, <3>4 DEF VerifyConsume, Challenge
      <4>2. /\ new \in Challenge /\ new.contact = challenges[h].contact
            /\ new.status \in {challenges[h].status, "CONSUMED"}
        BY <3>2 DEF Challenge
      <4> HIDE DEF new, h
      <4>3. QED
        BY <3>1, <4>1, <4>2, ChallengeRows
    <3>5. QED
      BY <2>1, <3>3, <3>4
  <2>2. CASE VerifyCreateUser(r) \/ VerifyAssignRole(r)
    BY <2>2, UserRows DEF VerifyCreateUser, VerifyAssignRole, Exists, User
  <2>3. QED
    BY <1>1, <1>3, <2>1, <2>2
       DEF Verify, VerifyRead, StartComparing, VerifyFindUser, VerifyTouch, tables
<1>4. ASSUME NEW r \in Requests, NEW s \in SessionIds, Create(r, s),
             At(r, "open") \/ At(r, "reissue")
      PROVE  RowsStay /\ RowsLinked'
  <2>1. requests[r].user \in Contacts
    BY <1>2, <1>4 DEF RequestLinked, At
  <2>2. QED
    BY <1>4, <2>1, SessionRows DEF Create, NoSession
<1>5. ASSUME NEW r \in Requests, SignIn(r) \/ Refresh(r)
      PROVE  RowsStay /\ RowsLinked'
  <2>1. CASE Rotate(r) \/ RevokeExpired(r)
    <3>1. requests[r].session \in SessionIds /\ sessions[requests[r].session].state # "NONE"
      BY <1>2, <2>1 DEF Rotate, RevokeExpired, RequestLinked, RefreshPcs, At
    <3>2. sessions' = [sessions EXCEPT ![requests[r].session].state = "REVOKED"]
      BY <2>1 DEF Rotate, RevokeExpired
    <3>3. QED
      BY <2>1, <3>1, <3>2, SessionRows DEF Rotate, RevokeExpired, Linked, RowsLinked
  <2>2. QED
    BY <1>1, <1>4, <1>5, <2>1 DEF SignIn, LoginRead, OpenSession, Refresh, RefreshRead,
       StartRefreshing, Reissue, tables
<1>6. ASSUME NEW r \in Requests, Administer(r)
      PROVE  RowsStay /\ RowsLinked'
  <2>1. CASE SetStatus(r)
    <3>1. requests[r].target # "NONE"
      BY <1>2, <2>1 DEF SetStatus, RequestLinked, At
    <3>2. QED
      BY <2>1, <3>1, UserRows DEF SetStatus, Exists, User
  <2>2. QED
    BY <1>1, <1>6, <2>1 DEF Administer, ReadStatus, Log, tables
<1>7. ASSUME NEW h \in Challenges, NEW c \in Contacts, NEW p \in {"LOGIN", "SIGNUP"},
             OtpStart(h, c, p)
      PROVE  RowsStay /\ RowsLinked'
  <2> DEFINE new == [NoChallenge EXCEPT !.status = "OPEN", !.contact = c]
  <2>1. new \in Challenge /\ new.status = "OPEN" /\ new.contact = c
    BY DEF NoChallenge, Challenge
  <2>2. /\ challenges' = [challenges EXCEPT ![h] = new] /\ UNCHANGED <<users, sessions>>
        /\ challenges[h].status = "NONE"
    BY <1>7 DEF OtpStart, NoChallenge
  <2> HIDE DEF new
  <2>3. QED
    BY <2>1, <2>2, ChallengeRows
<1>8. ASSUME NEW h \in Challenges, ChallengeExpires(h)
      PROVE  RowsStay /\ RowsLinked'
  <2> DEFINE new == [challenges[h] EXCEPT !.expired = TRUE]
  <2>1. challenges' = [challenges EXCEPT ![h] = new] /\ new \in Challenge
    BY <1>8 DEF ChallengeExpires, Challenge
  <2>2. challenges[h].status = "OPEN" /\ challenges[h].contact \in Contacts
    BY <1>8 DEF ChallengeExpires, Linked, RowsLinked
  <2>3. QED
    BY <1>8, <2>1, <2>2, ChallengeRows DEF ChallengeExpires, Challenge
<1>9. ASSUME NEW s \in SessionIds, RevokeSession(s) \/ SessionExpires(s)
      PROVE  RowsStay /\ RowsLinked'
  <2>1. RevokeSession(s) => sessions[s].user \in Contacts
    BY DEF RevokeSession, Linked, RowsLinked
  <2>2. QED
    BY <1>9, <2>1, SessionRows DEF RevokeSession, SessionExpires
<1>10. ASSUME NEW c \in Contacts, LogoutAll(c)
       PROVE  RowsStay /\ RowsLinked'
  BY <1>10, SessionRows DEF LogoutAll, Revoked
<1>11. QED
  BY <1>1, <1>3, <1>5, <1>6, <1>7, <1>8, <1>9, <1>10 DEF Next, Abandon, vars, tables

\* A request alone moves, and is linked.
MovesLinked(r) ==
  /\ RequestLinked(requests[r])'
  /\ \A q \in Requests \ {r} : requests'[q] = requests[q]

\* A request that does not move stays linked, and the others with it.
LEMMA RequestsLinked ==
  ASSUME TInv, RowsStay,
         \/ UNCHANGED requests
         \/ \E r \in Requests : MovesLinked(r)
  PROVE  \A q \in Requests : RequestLinked(requests[q])'
<1>1. SUFFICES ASSUME NEW q \in Requests, requests'[q] = requests[q]
               PROVE  RequestLinked(requests[q])'
  BY DEF MovesLinked
<1>2. RequestLinked(requests[q])
  BY DEF TInv, Linked
<1>3. QED
  BY <1>1, <1>2 DEF RowsStay, RequestLinked

\* A sign-in finds what it needs at each step.
LEMMA SigningInLinked ==
  ASSUME TInv, RowsStay, NEW r \in Requests, Verify(r)
  PROVE  MovesLinked(r)
<1> USE Typed, ConstantsTyped DEF TInv, Types
<1>1. RequestLinked(requests[r]) /\ requests[r] \in Request
  BY DEF Linked
<1>3. ASSUME NEW h \in Challenges, VerifyRead(r, h)
      PROVE  MovesLinked(r)
  <2> DEFINE new == [Idle EXCEPT !.pc = "compare", !.challenge = h,
                                 !.user = challenges[h].contact,
                                 !.since = signOuts[challenges[h].contact]]
  <2>1. challenges[h].contact \in Contacts /\ signOuts[challenges[h].contact] \in Nat
    BY <1>3 DEF VerifyRead, Linked, RowsLinked
  <2>2. new \in Request
    BY <2>1 DEF Idle, Request, Pcs
  <2>3. Begin(r, new) /\ challenges[h].status # "NONE"
    BY <1>3 DEF VerifyRead, StartComparing
  <2>4. OnlyMoves(r, new)
    BY <2>2, <2>3, BeginMoves
  <2>5. QED
    BY <2>1, <2>3, <2>4 DEF MovesLinked, OnlyMoves, Idle, RequestLinked, RefreshPcs, SigningInPcs,
       RowsStay
<1>4. ASSUME NEW pc \in SigningInPcs \ {"compare"}, requests[r].pc \in SigningInPcs,
             Continue(r, pc)
      PROVE  MovesLinked(r)
  <2> DEFINE new == [requests[r] EXCEPT !.pc = pc]
  <2>1. new \in Request
    BY <1>1 DEF Request, SigningInPcs, Pcs
  <2>2. OnlyMoves(r, new)
    BY <1>4, ContinueMoves DEF SigningInPcs, Pcs
  <2>3. QED
    BY <1>1, <1>4, <2>2 DEF MovesLinked, OnlyMoves, Request, RequestLinked, RefreshPcs, SigningInPcs
<1>5. ASSUME Finish(r)
      PROVE  MovesLinked(r)
  BY <1>5, FinishMoves DEF MovesLinked, OnlyMoves, RequestLinked, Idle, RefreshPcs, SigningInPcs
<1>6. QED
  BY <1>3, <1>4, <1>5
     DEF Verify, VerifyWrong, VerifyConsume, VerifyFindUser, VerifyCreateUser, VerifyAssignRole,
         VerifyTouch, At, SigningInPcs

\* So does every other request.
LEMMA NextLinked ==
  ASSUME TInv, [Next]_vars
  PROVE  Linked'
<1> USE Typed, ConstantsTyped DEF TInv, Types
<1>1. RowsStay /\ RowsLinked'
  BY RowsKeep
<1>3. ASSUME NEW r \in Requests, Finish(r)
      PROVE  MovesLinked(r)
  BY <1>3, FinishMoves DEF MovesLinked, OnlyMoves, RequestLinked, Idle, RefreshPcs, SigningInPcs
<1>4. ASSUME NEW r \in Requests, SignIn(r)
      PROVE  MovesLinked(r)
  <2>1. ASSUME NEW c \in Contacts, LoginRead(r, c)
        PROVE  MovesLinked(r)
    <3> DEFINE new == [Idle EXCEPT !.pc = "open", !.user = c, !.since = signOuts[c]]
    <3>1. new \in Request
      BY DEF Idle, Request, Pcs
    <3>2. OnlyMoves(r, new)
      BY <2>1, <3>1, BeginMoves DEF LoginRead
    <3>3. QED
      BY <3>2 DEF MovesLinked, OnlyMoves, Idle, RequestLinked, RefreshPcs, SigningInPcs
  <2>2. QED
    BY <1>3, <1>4, <2>1 DEF SignIn, OpenSession, Create
<1>5. ASSUME NEW r \in Requests, Refresh(r)
      PROVE  MovesLinked(r)
  <2>1. ASSUME NEW s \in SessionIds, RefreshRead(r, s)
        PROVE  MovesLinked(r)
    <3> DEFINE new == [Idle EXCEPT !.pc = IF sessions[s].expired THEN "expire" ELSE "rotate",
                                   !.user = sessions[s].user, !.session = s,
                                   !.since = sessions[s].since]
    <3>1. sessions[s] \in Session /\ sessions[s].state # "NONE" /\ sessions[s].user \in Contacts
      BY <2>1 DEF RefreshRead, Linked, RowsLinked
    <3>2. new \in Request
      BY <3>1 DEF Idle, Request, Session, Pcs
    <3>3. Begin(r, new)
      BY <2>1 DEF RefreshRead, StartRefreshing
    <3>4. OnlyMoves(r, new)
      BY <3>2, <3>3, BeginMoves
    <3>5. QED
      BY <1>1, <3>1, <3>4 DEF MovesLinked, OnlyMoves, Idle, RequestLinked, RefreshPcs, SigningInPcs,
         RowsStay
  <2>2. CASE Rotate(r)
    <3> DEFINE new == [requests[r] EXCEPT !.pc = "reissue"]
    <3>1. requests[r] \in Request /\ requests[r].pc = "rotate" /\ RequestLinked(requests[r])
      BY <2>2 DEF Rotate, At, Linked
    <3>2. new \in Request
      BY <3>1 DEF Request, Pcs
    <3>3. OnlyMoves(r, new)
      BY <2>2, ContinueMoves DEF Rotate, Pcs
    <3>4. QED
      BY <1>1, <3>1, <3>3 DEF MovesLinked, OnlyMoves, Request, RequestLinked, RefreshPcs,
         SigningInPcs, RowsStay
  <2>3. QED
    BY <1>3, <1>5, <2>1, <2>2 DEF Refresh, RevokeExpired, Reissue, Create
<1>6. ASSUME NEW r \in Requests, Administer(r)
      PROVE  MovesLinked(r)
  <2>1. ASSUME NEW c \in Contacts, NEW t \in {"SUSPENDED", "ACTIVE"}, ReadStatus(r, c, t)
        PROVE  MovesLinked(r)
    <3> DEFINE new == [Idle EXCEPT !.pc = "setStatus", !.user = c, !.target = t]
    <3>1. new \in Request
      BY DEF Idle, Request, Pcs
    <3>2. Begin(r, new) /\ Exists(c)
      BY <2>1 DEF ReadStatus
    <3>3. OnlyMoves(r, new)
      BY <3>1, <3>2, BeginMoves
    <3>4. QED
      BY <1>1, <3>2, <3>3 DEF MovesLinked, OnlyMoves, Idle, RequestLinked, RefreshPcs, SigningInPcs,
         RowsStay
  <2>2. CASE SetStatus(r)
    <3> DEFINE new == [requests[r] EXCEPT !.pc = "log"]
    <3>1. requests[r] \in Request /\ requests[r].pc = "setStatus" /\ RequestLinked(requests[r])
      BY <2>2 DEF SetStatus, At, Linked
    <3>2. new \in Request
      BY <3>1 DEF Request, Pcs
    <3>3. OnlyMoves(r, new)
      BY <2>2, ContinueMoves DEF SetStatus, Pcs
    <3>4. QED
      BY <1>1, <3>1, <3>3 DEF MovesLinked, OnlyMoves, Request, RequestLinked, RefreshPcs,
         SigningInPcs, RowsStay
  <2>3. QED
    BY <1>3, <1>6, <2>1, <2>2 DEF Administer, Log
<1>7. CASE UNCHANGED requests
  BY <1>1, <1>7, RequestsLinked DEF Linked
<1>8. CASE \E r \in Requests : Verify(r) \/ SignIn(r) \/ Refresh(r) \/ Administer(r) \/ Abandon(r)
  <2>1. PICK r \in Requests : Verify(r) \/ SignIn(r) \/ Refresh(r) \/ Administer(r) \/ Finish(r)
    BY <1>8 DEF Abandon
  <2>2. MovesLinked(r)
    BY <1>1, <1>3, <1>4, <1>5, <1>6, <2>1, SigningInLinked
  <2>3. QED
    BY <1>1, <2>2, RequestsLinked DEF Linked
<1>9. QED
  BY <1>7, <1>8 DEF Next, OtpStart, ChallengeExpires, RevokeSession, SessionExpires, LogoutAll, vars

-----------------------------------------------------------------------------
(* What a step does, request by request and table by table *)

\* What becomes of one request in a step.
StepOf(q) ==
  \/ requests'[q] = requests[q]
  \/ requests'[q] = Idle
  \/ \E h \in Challenges : VerifyRead(q, h)
  \/ \E c \in Contacts : LoginRead(q, c)
  \/ \E s \in SessionIds : RefreshRead(q, s)
  \/ \E c \in Contacts : \E t \in {"SUSPENDED", "ACTIVE"} : ReadStatus(q, c, t)
  \/ \E pc \in SigningInPcs \ {"compare"} :
       /\ requests'[q] = [requests[q] EXCEPT !.pc = pc] /\ requests[q].pc \in SigningInPcs
       /\ requests[q].pc = "compare" => VerifyConsume(q)
  \/ Rotate(q) /\ requests'[q] = [requests[q] EXCEPT !.pc = "reissue"]
  \/ SetStatus(q) /\ requests'[q] = [requests[q] EXCEPT !.pc = "log"]

LEMMA EachSteps ==
  ASSUME TInv, [Next]_vars, NEW q \in Requests
  PROVE  StepOf(q)
<1>1. requests \in [Requests -> Request]
  BY Typed DEF TInv, Types
<1>2. ASSUME NEW r \in Requests, Finish(r) PROVE StepOf(q)
  BY <1>1, <1>2, FinishMoves DEF StepOf, OnlyMoves
<1>3. ASSUME NEW r \in Requests, Verify(r) PROVE StepOf(q)
  <2>1. CASE Finish(r)
    BY <1>2, <2>1
  <2>2. ASSUME NEW h \in Challenges, VerifyRead(r, h) PROVE StepOf(q)
    BY <1>1, <2>2 DEF StepOf, VerifyRead, StartComparing, Begin
  <2>3. ASSUME NEW pc \in SigningInPcs \ {"compare"}, Continue(r, pc),
               requests[r].pc \in SigningInPcs, requests[r].pc = "compare" => VerifyConsume(r)
        PROVE  StepOf(q)
    <3>1. OnlyMoves(r, [requests[r] EXCEPT !.pc = pc])
      BY <1>1, <2>3, ContinueMoves DEF SigningInPcs, Pcs
    <3>2. CASE q = r
      BY <2>3, <3>1, <3>2 DEF StepOf, OnlyMoves
    <3>3. CASE q # r
      BY <3>1, <3>3 DEF StepOf, OnlyMoves
    <3>4. QED
      BY <3>2, <3>3
  <2>4. QED
    BY <1>3, <2>1, <2>2, <2>3
       DEF Verify, VerifyWrong, VerifyConsume, VerifyFindUser, VerifyCreateUser, VerifyAssignRole,
           VerifyTouch, At, SigningInPcs
<1>4. ASSUME NEW r \in Requests, SignIn(r) PROVE StepOf(q)
  <2>1. ASSUME NEW c \in Contacts, LoginRead(r, c) PROVE StepOf(q)
    BY <1>1, <2>1 DEF StepOf, LoginRead, Begin
  <2>2. QED
    BY <1>2, <1>4, <2>1 DEF SignIn, OpenSession, Create
<1>5. ASSUME NEW r \in Requests, Refresh(r) PROVE StepOf(q)
  <2>1. ASSUME NEW s \in SessionIds, RefreshRead(r, s) PROVE StepOf(q)
    BY <1>1, <2>1 DEF StepOf, RefreshRead, StartRefreshing, Begin
  <2>2. CASE Rotate(r)
    BY <1>1, <2>2, ContinueMoves DEF StepOf, Rotate, OnlyMoves, Pcs
  <2>3. QED
    BY <1>2, <1>5, <2>1, <2>2 DEF Refresh, Reissue, RevokeExpired, Create
<1>6. ASSUME NEW r \in Requests, Administer(r) PROVE StepOf(q)
  <2>1. ASSUME NEW c \in Contacts, NEW t \in {"SUSPENDED", "ACTIVE"}, ReadStatus(r, c, t)
        PROVE  StepOf(q)
    BY <1>1, <2>1 DEF StepOf, ReadStatus, Begin
  <2>2. CASE SetStatus(r)
    BY <1>1, <2>2, ContinueMoves DEF StepOf, SetStatus, OnlyMoves, Pcs
  <2>3. QED
    BY <1>2, <1>6, <2>1, <2>2 DEF Administer, Log
<1>7. CASE UNCHANGED requests
  BY <1>7 DEF StepOf
<1>8. QED
  BY <1>2, <1>3, <1>4, <1>5, <1>6, <1>7
     DEF Next, Abandon, OtpStart, ChallengeExpires, RevokeSession, SessionExpires, LogoutAll, vars

\* Only a sign-in or a refresh adds a session; the others keep their origin.
OriginsStay ==
  \A t \in SessionIds :
    /\ sessions'[t].user = sessions[t].user /\ sessions'[t].since = sessions[t].since
    /\ sessions'[t].from = sessions[t].from /\ sessions'[t].code = sessions[t].code
    /\ sessions'[t].state = "LIVE" => sessions[t].state = "LIVE"

LEMMA OriginsChange ==
  ASSUME TInv, [Next]_vars
  PROVE  \/ OriginsStay
         \/ \E r \in Requests : \E s \in SessionIds :
              Create(r, s) /\ (At(r, "open") \/ At(r, "reissue"))
<1>1. sessions \in [SessionIds -> Session]
  BY Typed DEF TInv, Types
<1>2. CASE UNCHANGED sessions
  BY <1>2 DEF OriginsStay
<1>3. ASSUME NEW s, sessions' = [sessions EXCEPT ![s].state = "REVOKED"]
      PROVE  OriginsStay
  BY <1>1, <1>3 DEF OriginsStay, Session
<1>4. ASSUME NEW s \in SessionIds, SessionExpires(s)
      PROVE  OriginsStay
  BY <1>1, <1>4 DEF OriginsStay, Session, SessionExpires
<1>5. ASSUME NEW c \in Contacts, LogoutAll(c)
      PROVE  OriginsStay
  BY <1>1, <1>5 DEF OriginsStay, Session, LogoutAll, Revoked
<1>6. ASSUME NEW r \in Requests, Refresh(r) \/ SignIn(r), ~UNCHANGED sessions, ~OriginsStay
      PROVE  \E s \in SessionIds : Create(r, s) /\ (At(r, "open") \/ At(r, "reissue"))
  BY <1>3, <1>6 DEF Refresh, SignIn, LoginRead, OpenSession, RefreshRead, StartRefreshing, Reissue,
     Rotate, RevokeExpired, tables
<1>7. ASSUME NEW r \in Requests, Verify(r) \/ Administer(r) \/ Abandon(r)
      PROVE  UNCHANGED sessions
  BY <1>7 DEF Verify, VerifyRead, StartComparing, VerifyWrong, VerifyConsume, VerifyFindUser,
     VerifyCreateUser, VerifyAssignRole, VerifyTouch, Administer, ReadStatus, SetStatus, Log,
     Abandon, tables
<1>8. QED
  BY <1>2, <1>3, <1>4, <1>5, <1>6, <1>7
     DEF Next, OtpStart, ChallengeExpires, RevokeSession, vars, tables

\* What the history remembers it does not forget.
LEMMA HistoryGrows ==
  ASSUME [Next]_vars
  PROVE  /\ met \subseteq met' /\ crossed \subseteq crossed' /\ torn \subseteq torn'
         /\ UNCHANGED signOuts \/ \E c \in Contacts : LogoutAll(c)
<1>1. ASSUME NEW r \in Requests, Verify(r)
      PROVE  met \subseteq met' /\ UNCHANGED <<crossed, torn, signOuts>>
  BY <1>1 DEF Verify, VerifyRead, StartComparing, VerifyWrong, VerifyConsume, VerifyFindUser,
     VerifyCreateUser, VerifyAssignRole, VerifyTouch, history
<1>2. ASSUME NEW r \in Requests, SignIn(r) \/ Refresh(r)
      PROVE  met \subseteq met' /\ UNCHANGED <<crossed, torn, signOuts>>
  BY <1>2 DEF SignIn, LoginRead, OpenSession, Refresh, RefreshRead, StartRefreshing, Reissue,
     Create, Rotate, RevokeExpired, history
<1>3. ASSUME NEW r \in Requests, Administer(r)
      PROVE  met \subseteq met' /\ UNCHANGED <<crossed, torn, signOuts>>
  BY <1>3 DEF Administer, ReadStatus, SetStatus, Log, history
<1>4. ASSUME NEW c \in Contacts, LogoutAll(c)
      PROVE  crossed \subseteq crossed' /\ UNCHANGED <<met, torn>>
  BY <1>4 DEF LogoutAll
<1>5. QED
  BY <1>1, <1>2, <1>3, <1>4
     DEF Next, Abandon, OtpStart, ChallengeExpires, RevokeSession, SessionExpires, vars, history

-----------------------------------------------------------------------------
(* Rotation: a session is either refreshed by one request, or replaced once *)

Refreshing(q, s) == requests[q].pc \in {"rotate", "reissue"} /\ requests[q].session = s

RotationInv ==
  /\ \A q \in Requests : At(q, "reissue") => sessions[requests[q].session].state = "REVOKED"
  /\ \A s, t \in SessionIds : sessions[t].from = s => sessions[s].state = "REVOKED"
  /\ \A s \in SessionIds \ met : \A p, q \in Requests :
       Refreshing(p, s) /\ Refreshing(q, s) => p = q
  /\ \A s \in SessionIds \ met : \A q \in Requests : \A t \in SessionIds :
       ~(Refreshing(q, s) /\ sessions[t].from = s)
  /\ \A s \in SessionIds \ met : \A t, u \in SessionIds :
       sessions[t].from = s /\ sessions[u].from = s => t = u

\* Who refreshes a session after a step did so before, or has just read it.
LEMMA RefreshingStarts ==
  ASSUME TInv, NEW q \in Requests, NEW s \in SessionIds, StepOf(q), Refreshing(q, s)'
  PROVE  Refreshing(q, s) \/ RefreshRead(q, s)
<1>1. requests \in [Requests -> Request]
  BY Typed DEF TInv, Types
<1>2. CASE requests'[q] = requests[q] \/ requests'[q] = Idle
  BY <1>2 DEF Refreshing, Idle
<1>3. ASSUME NEW new, Begin(q, new), new.pc \in {"compare", "open", "setStatus"}
      PROVE  FALSE
  BY <1>1, <1>3 DEF Begin, Refreshing
<1>4. ASSUME NEW t \in SessionIds, RefreshRead(q, t)
      PROVE  t = s
  BY <1>1, <1>4 DEF RefreshRead, StartRefreshing, Begin, Refreshing, Idle
<1>5. ASSUME NEW pc \in SigningInPcs, requests'[q] = [requests[q] EXCEPT !.pc = pc]
      PROVE  FALSE
  BY <1>1, <1>5 DEF Refreshing, SigningInPcs, Request
<1>6. CASE Rotate(q) /\ requests'[q] = [requests[q] EXCEPT !.pc = "reissue"]
  BY <1>1, <1>6 DEF Rotate, At, Refreshing, Request
<1>7. CASE SetStatus(q) /\ requests'[q] = [requests[q] EXCEPT !.pc = "log"]
  BY <1>1, <1>7 DEF Refreshing, Request
<1>8. QED
  BY <1>2, <1>3, <1>4, <1>5, <1>6, <1>7
     DEF StepOf, VerifyRead, StartComparing, LoginRead, ReadStatus, Idle

\* What is read to be refreshed is live, and two who read it have met.
LEMMA RefreshReadMeets ==
  ASSUME TInv, RotationInv, NEW q \in Requests, NEW s \in SessionIds, RefreshRead(q, s)
  PROVE  /\ UNCHANGED sessions
         /\ \A t \in SessionIds : sessions[t].from # s
         /\ \A p \in Requests \ {q} :
              requests'[p] = requests[p] /\ (Refreshing(p, s) => s \in met')
<1>1. sessions[s].state = "LIVE" /\ UNCHANGED sessions
  BY DEF RefreshRead, StartRefreshing, tables
<1>2. ASSUME NEW p \in Requests \ {q}
      PROVE  requests'[p] = requests[p] /\ (Refreshing(p, s) => s \in met')
  <2>1. requests'[p] = requests[p]
    BY Typed DEF TInv, Types, RefreshRead, StartRefreshing, Begin
  <2>2. ~(At(p, "reissue") /\ requests[p].session = s)
    BY <1>1 DEF RotationInv
  <2>3. ASSUME Refreshing(p, s) PROVE s \in met'
    <3>1. Rotating(s)
      BY <2>2, <2>3 DEF Refreshing, Rotating, At
    <3>2. QED
      BY <3>1 DEF RefreshRead, StartRefreshing
  <2>4. QED
    BY <2>1, <2>3
<1>3. QED
  BY <1>1, <1>2 DEF RotationInv

\* A new session replaces the one its request refreshed, which is revoked.
LEMMA CreateReplaces ==
  ASSUME NULL \notin SessionIds, TInv, RotationInv, NEW r \in Requests, NEW n \in SessionIds,
         Create(r, n), At(r, "open") \/ At(r, "reissue")
  PROVE  /\ requests'[r] = Idle
         /\ \A t \in SessionIds \ {n} : sessions'[t] = sessions[t]
         /\ \A s \in SessionIds : sessions'[n].from = s =>
              Refreshing(r, s) /\ sessions[s].state = "REVOKED"
<1>1. /\ requests \in [Requests -> Request] /\ sessions \in [SessionIds -> Session]
      /\ RequestLinked(requests[r])
  BY Typed DEF TInv, Types, Linked
<1>2. /\ requests'[r] = Idle /\ sessions'[n].from = requests[r].session
      /\ \A t \in SessionIds \ {n} : sessions'[t] = sessions[t]
  BY <1>1 DEF Create, Finish, NoSession
<1>3. At(r, "open") => requests[r].session = NULL
  BY <1>1 DEF RequestLinked, SigningInPcs, At
<1>4. QED
  BY <1>2, <1>3 DEF RotationInv, Refreshing, At

\* Every step keeps it.
LEMMA RotationKeeps ==
  ASSUME NULL \notin SessionIds, TInv, RotationInv, [Next]_vars
  PROVE  RotationInv'
<1>1. RowsStay /\ met \subseteq met' /\ \A q \in Requests : StepOf(q)
  BY RowsKeep, HistoryGrows, EachSteps
<1>2. /\ requests \in [Requests -> Request] /\ sessions \in [SessionIds -> Session]
      /\ \A q \in Requests : RequestLinked(requests[q])
  BY Typed DEF TInv, Types, Linked
<1>3. ASSUME NEW q \in Requests, At(q, "reissue")'
      PROVE  sessions'[requests'[q].session].state = "REVOKED"
  <2>1. CASE At(q, "reissue") /\ requests'[q].session = requests[q].session
    BY <1>1, <1>2, <2>1 DEF RotationInv, RowsStay, RequestLinked, RefreshPcs, At
  <2>2. CASE Rotate(q) /\ requests'[q] = [requests[q] EXCEPT !.pc = "reissue"]
    <3>1. requests[q].session \in SessionIds /\ requests'[q].session = requests[q].session
      BY <1>2, <2>2 DEF Rotate, RequestLinked, RefreshPcs, At, Request
    <3>2. QED
      BY <1>2, <2>2, <3>1 DEF Rotate, Session
  <2>3. requests'[q].pc = "reissue"
    BY <1>3 DEF At
  <2>4. ASSUME NEW new, Begin(q, new), new.pc # "reissue" PROVE FALSE
    BY <1>2, <2>3, <2>4 DEF Begin
  <2>5. ASSUME NEW pc, requests'[q] = [requests[q] EXCEPT !.pc = pc], pc # "reissue" PROVE FALSE
    BY <1>2, <2>3, <2>5 DEF Request
  <2>6. CASE requests'[q] = requests[q] \/ requests'[q] = Idle
    BY <2>1, <2>3, <2>6 DEF At, Idle
  <2>7. QED
    BY <1>1, <2>2, <2>4, <2>5, <2>6
       DEF StepOf, VerifyRead, StartComparing, LoginRead, ReadStatus, RefreshRead, StartRefreshing,
           Idle, SigningInPcs
<1>4. ASSUME NEW s \in SessionIds \ met', NEW p \in Requests, NEW q \in Requests,
             Refreshing(p, s)', Refreshing(q, s)', p # q
      PROVE  FALSE
  <2>1. ASSUME NEW k \in Requests, NEW l \in Requests, k # l, RefreshRead(k, s), Refreshing(l, s)'
        PROVE  FALSE
    BY <1>4, <2>1, RefreshReadMeets DEF Refreshing
  <2>2. Refreshing(p, s) /\ Refreshing(q, s)
    BY <1>1, <1>4, <2>1, RefreshingStarts
  <2>3. QED
    BY <1>1, <1>4, <2>2 DEF RotationInv
<1>5. CASE OriginsStay
  <2>1. ASSUME NEW s \in SessionIds, NEW t \in SessionIds, sessions'[t].from = s
        PROVE  sessions'[s].state = "REVOKED"
    BY <1>1, <1>5, <2>1 DEF OriginsStay, RotationInv, RowsStay
  <2>2. ASSUME NEW s \in SessionIds \ met', NEW q \in Requests, NEW t \in SessionIds,
               Refreshing(q, s)', sessions'[t].from = s
        PROVE  FALSE
    <3>1. sessions[t].from = s /\ s \notin met
      BY <1>1, <1>5, <2>2 DEF OriginsStay
    <3>2. Refreshing(q, s)
      BY <1>1, <2>2, <3>1, RefreshingStarts, RefreshReadMeets
    <3>3. QED
      BY <3>1, <3>2 DEF RotationInv
  <2>3. ASSUME NEW s \in SessionIds \ met', NEW t \in SessionIds, NEW u \in SessionIds,
               sessions'[t].from = s, sessions'[u].from = s
        PROVE  t = u
    BY <1>1, <1>5, <2>3 DEF OriginsStay, RotationInv
  <2>4. QED
    BY <1>3, <1>4, <2>1, <2>2, <2>3 DEF RotationInv
<1>6. ASSUME NEW r \in Requests, NEW n \in SessionIds, Create(r, n),
             At(r, "open") \/ At(r, "reissue")
      PROVE  RotationInv'
  <2>1. /\ requests'[r] = Idle
        /\ \A t \in SessionIds \ {n} : sessions'[t] = sessions[t]
        /\ \A s \in SessionIds : sessions'[n].from = s =>
             Refreshing(r, s) /\ sessions[s].state = "REVOKED"
    BY <1>6, CreateReplaces
  <2>2. sessions'[n].state = "LIVE" /\ sessions[n].state = "NONE"
    <3>1. sessions[n] = NoSession
      BY <1>6 DEF Create
    <3>2. sessions'[n].state = "LIVE"
      BY <1>2, <1>6 DEF Create, NoSession
    <3>3. QED
      BY <3>1, <3>2 DEF NoSession
  <2>3. ASSUME NEW s \in SessionIds, NEW q \in Requests, Refreshing(q, s)'
        PROVE  Refreshing(q, s) /\ q # r
    <3>1. ~RefreshRead(q, s)
      BY <2>2 DEF RefreshRead, StartRefreshing, tables
    <3>2. q # r
      BY <2>1, <2>3 DEF Refreshing, Idle
    <3>3. QED
      BY <1>1, <2>3, <3>1, <3>2, RefreshingStarts
  <2>4. ASSUME NEW s \in SessionIds, NEW t \in SessionIds, sessions'[t].from = s
        PROVE  /\ sessions'[s].state = "REVOKED"
               /\ sessions[t].from = s \/ t = n
    BY <1>1, <2>1, <2>4 DEF RotationInv, RowsStay
  <2>5. ASSUME NEW s \in SessionIds \ met', NEW q \in Requests, NEW t \in SessionIds,
               Refreshing(q, s)', sessions'[t].from = s
        PROVE  FALSE
    BY <1>1, <2>1, <2>3, <2>4, <2>5 DEF RotationInv
  <2>6. ASSUME NEW s \in SessionIds \ met', NEW t \in SessionIds, NEW u \in SessionIds,
               sessions'[t].from = s, sessions'[u].from = s
        PROVE  t = u
    BY <1>1, <2>1, <2>4, <2>6 DEF RotationInv
  <2>7. QED
    BY <1>3, <1>4, <2>4, <2>5, <2>6 DEF RotationInv
<1>7. QED
  BY <1>5, <1>6, OriginsChange

-----------------------------------------------------------------------------
(* Codes: a code is either being used by one request, or was used once *)

SigningIn(q, h) == requests[q].pc \in SigningInPcs /\ requests[q].challenge = h

CodeInv ==
  /\ \A h \in Challenges : \A q \in Requests :
       SigningIn(q, h) /\ ~At(q, "compare") => challenges[h].status = "CONSUMED"
  /\ \A h \in Challenges : \A t \in SessionIds :
       sessions[t].code = h => challenges[h].status = "CONSUMED"
  /\ \A h \in Challenges \ met : \A p, q \in Requests :
       SigningIn(p, h) /\ SigningIn(q, h) => p = q
  /\ \A h \in Challenges \ met : \A q \in Requests : \A t \in SessionIds :
       ~(SigningIn(q, h) /\ sessions[t].code = h)
  /\ \A h \in Challenges \ met : \A t, u \in SessionIds :
       sessions[t].code = h /\ sessions[u].code = h => t = u

\* Who signs in with a code after a step did so before, or has just read it;
\* past the comparison the code is consumed.
LEMMA SigningInStarts ==
  ASSUME NULL \notin Challenges, TInv, NEW q \in Requests, NEW h \in Challenges,
         StepOf(q), SigningIn(q, h)'
  PROVE  \/ SigningIn(q, h) /\ (At(q, "compare") /\ ~At(q, "compare")' => VerifyConsume(q))
         \/ VerifyRead(q, h) /\ At(q, "compare")'
<1>1. requests \in [Requests -> Request]
  BY Typed DEF TInv, Types
<1>2. CASE requests'[q] = requests[q] \/ requests'[q] = Idle
  BY <1>2 DEF SigningIn, Idle, SigningInPcs, At
<1>3. ASSUME NEW new, Begin(q, new), new.challenge = NULL \/ new.pc \notin SigningInPcs
      PROVE  FALSE
  BY <1>1, <1>3 DEF Begin, SigningIn
<1>4. ASSUME NEW k \in Challenges, VerifyRead(q, k)
      PROVE  k = h /\ At(q, "compare")'
  BY <1>1, <1>4 DEF VerifyRead, StartComparing, Begin, SigningIn, Idle, At
<1>5. ASSUME NEW pc \in SigningInPcs, requests'[q] = [requests[q] EXCEPT !.pc = pc],
             requests[q].pc \in SigningInPcs, requests[q].pc = "compare" => VerifyConsume(q)
      PROVE  SigningIn(q, h) /\ (At(q, "compare") => VerifyConsume(q))
  BY <1>1, <1>5 DEF SigningIn, Request, At
<1>6. ASSUME NEW pc \in {"reissue", "log"}, requests'[q] = [requests[q] EXCEPT !.pc = pc]
      PROVE  FALSE
  BY <1>1, <1>6 DEF SigningIn, SigningInPcs, Request
<1>7. QED
  BY <1>2, <1>3, <1>4, <1>5, <1>6
     DEF StepOf, LoginRead, RefreshRead, StartRefreshing, ReadStatus, Idle, SigningInPcs

\* What is read to be compared is open, and two who read it have met.
LEMMA VerifyReadMeets ==
  ASSUME TInv, CodeInv, NEW q \in Requests, NEW h \in Challenges, VerifyRead(q, h)
  PROVE  /\ UNCHANGED sessions
         /\ \A t \in SessionIds : sessions[t].code # h
         /\ \A p \in Requests \ {q} :
              requests'[p] = requests[p] /\ (SigningIn(p, h) => h \in met')
<1>1. challenges[h].status = "OPEN" /\ UNCHANGED sessions
  BY DEF VerifyRead, StartComparing, tables
<1>2. ASSUME NEW p \in Requests \ {q}
      PROVE  requests'[p] = requests[p] /\ (SigningIn(p, h) => h \in met')
  <2>1. requests'[p] = requests[p]
    BY Typed DEF TInv, Types, VerifyRead, StartComparing, Begin
  <2>2. SigningIn(p, h) => At(p, "compare")
    BY <1>1 DEF CodeInv
  <2>3. ASSUME SigningIn(p, h) PROVE h \in met'
    <3>1. Comparing(h)
      BY <2>2, <2>3 DEF SigningIn, Comparing
    <3>2. QED
      BY <3>1 DEF VerifyRead, StartComparing
  <2>4. QED
    BY <2>1, <2>3
<1>3. QED
  BY <1>1, <1>2 DEF CodeInv

\* A new session is opened with the code its request signed in with.
LEMMA CreateUsesCode ==
  ASSUME NULL \notin Challenges, TInv, CodeInv, NEW r \in Requests, NEW n \in SessionIds,
         Create(r, n), At(r, "open") \/ At(r, "reissue")
  PROVE  /\ requests'[r] = Idle /\ sessions'[n].state = "LIVE" /\ sessions[n].state = "NONE"
         /\ \A t \in SessionIds \ {n} : sessions'[t] = sessions[t]
         /\ \A h \in Challenges : sessions'[n].code = h =>
              SigningIn(r, h) /\ challenges[h].status = "CONSUMED"
<1>1. /\ requests \in [Requests -> Request] /\ sessions \in [SessionIds -> Session]
      /\ RequestLinked(requests[r])
  BY Typed DEF TInv, Types, Linked
<1>2. /\ requests'[r] = Idle /\ sessions'[n].code = requests[r].challenge
      /\ \A t \in SessionIds \ {n} : sessions'[t] = sessions[t]
  BY <1>1 DEF Create, Finish, NoSession
<1>3. sessions'[n].state = "LIVE" /\ sessions[n].state = "NONE"
  <2>1. sessions[n] = NoSession
    BY DEF Create
  <2>2. sessions'[n].state = "LIVE"
    BY <1>1 DEF Create, NoSession
  <2>3. QED
    BY <2>1, <2>2 DEF NoSession
<1>4. At(r, "reissue") => requests[r].challenge = NULL
  BY <1>1 DEF RequestLinked, RefreshPcs, At
<1>5. QED
  BY <1>2, <1>3, <1>4 DEF CodeInv, SigningIn, SigningInPcs, At

\* Every step keeps it.
LEMMA CodeKeeps ==
  ASSUME NULL \notin Challenges, TInv, CodeInv, [Next]_vars
  PROVE  CodeInv'
<1>1. RowsStay /\ met \subseteq met' /\ \A q \in Requests : StepOf(q)
  BY RowsKeep, HistoryGrows, EachSteps
<1>2. challenges \in [Challenges -> Challenge]
  BY Typed DEF TInv, Types
<1>3. ASSUME NEW q \in Requests, NEW h \in Challenges, SigningIn(q, h)', ~At(q, "compare")'
      PROVE  challenges'[h].status = "CONSUMED"
  <2>1. SigningIn(q, h) /\ (At(q, "compare") => VerifyConsume(q))
    BY <1>1, <1>3, SigningInStarts
  <2>2. CASE At(q, "compare")
    BY <1>2, <2>1, <2>2 DEF VerifyConsume, SigningIn, Challenge
  <2>3. CASE ~At(q, "compare")
    BY <1>1, <2>1, <2>3 DEF CodeInv, RowsStay
  <2>4. QED
    BY <2>2, <2>3
<1>4. ASSUME NEW h \in Challenges \ met', NEW p \in Requests, NEW q \in Requests,
             SigningIn(p, h)', SigningIn(q, h)', p # q
      PROVE  FALSE
  <2>1. ASSUME NEW k \in Requests, NEW l \in Requests, k # l, VerifyRead(k, h), SigningIn(l, h)'
        PROVE  FALSE
    BY <1>4, <2>1, VerifyReadMeets DEF SigningIn
  <2>2. SigningIn(p, h) /\ SigningIn(q, h)
    BY <1>1, <1>4, <2>1, SigningInStarts
  <2>3. QED
    BY <1>1, <1>4, <2>2 DEF CodeInv
<1>5. CASE OriginsStay
  <2>1. ASSUME NEW h \in Challenges, NEW t \in SessionIds, sessions'[t].code = h
        PROVE  challenges'[h].status = "CONSUMED"
    BY <1>1, <1>5, <2>1 DEF OriginsStay, CodeInv, RowsStay
  <2>2. ASSUME NEW h \in Challenges \ met', NEW q \in Requests, NEW t \in SessionIds,
               SigningIn(q, h)', sessions'[t].code = h
        PROVE  FALSE
    <3>1. sessions[t].code = h /\ h \notin met
      BY <1>1, <1>5, <2>2 DEF OriginsStay
    <3>2. SigningIn(q, h)
      BY <1>1, <2>2, <3>1, SigningInStarts, VerifyReadMeets
    <3>3. QED
      BY <3>1, <3>2 DEF CodeInv
  <2>3. ASSUME NEW h \in Challenges \ met', NEW t \in SessionIds, NEW u \in SessionIds,
               sessions'[t].code = h, sessions'[u].code = h
        PROVE  t = u
    BY <1>1, <1>5, <2>3 DEF OriginsStay, CodeInv
  <2>4. QED
    BY <1>3, <1>4, <2>1, <2>2, <2>3 DEF CodeInv
<1>6. ASSUME NEW r \in Requests, NEW n \in SessionIds, Create(r, n),
             At(r, "open") \/ At(r, "reissue")
      PROVE  CodeInv'
  <2>1. /\ requests'[r] = Idle /\ sessions'[n].state = "LIVE" /\ sessions[n].state = "NONE"
        /\ \A t \in SessionIds \ {n} : sessions'[t] = sessions[t]
        /\ \A h \in Challenges : sessions'[n].code = h =>
             SigningIn(r, h) /\ challenges[h].status = "CONSUMED"
    BY <1>6, CreateUsesCode
  <2>2. ASSUME NEW h \in Challenges, NEW q \in Requests, SigningIn(q, h)'
        PROVE  SigningIn(q, h) /\ q # r
    <3>1. ~VerifyRead(q, h)
      BY <2>1 DEF VerifyRead, StartComparing, tables
    <3>2. q # r
      BY <2>1, <2>2 DEF SigningIn, SigningInPcs, Idle
    <3>3. QED
      BY <1>1, <2>2, <3>1, <3>2, SigningInStarts
  <2>3. ASSUME NEW h \in Challenges, NEW t \in SessionIds, sessions'[t].code = h
        PROVE  /\ challenges'[h].status = "CONSUMED"
               /\ sessions[t].code = h \/ t = n
    BY <1>1, <2>1, <2>3 DEF CodeInv, RowsStay
  <2>4. ASSUME NEW h \in Challenges \ met', NEW q \in Requests, NEW t \in SessionIds,
               SigningIn(q, h)', sessions'[t].code = h
        PROVE  FALSE
    BY <1>1, <2>1, <2>2, <2>3, <2>4 DEF CodeInv
  <2>5. ASSUME NEW h \in Challenges \ met', NEW t \in SessionIds, NEW u \in SessionIds,
               sessions'[t].code = h, sessions'[u].code = h
        PROVE  t = u
    BY <1>1, <2>1, <2>3, <2>5 DEF CodeInv
  <2>6. QED
    BY <1>3, <1>4, <2>3, <2>4, <2>5 DEF CodeInv
<1>7. QED
  BY <1>5, <1>6, OriginsChange

-----------------------------------------------------------------------------
(* Signing out everywhere *)

\* A request that may create a session does so for a sign-in no older than the
\* last signing out everywhere, or was in flight then; and so is the session.
SignOutInv ==
  /\ \A q \in Requests :
       requests[q].pc \in SigningInPcs \union RefreshPcs
         /\ requests[q].since < signOuts[requests[q].user] => requests[q].user \in crossed
  /\ SignOutEverywhereHolds

LEMMA SignOutKeeps ==
  ASSUME TInv, SignOutInv, [Next]_vars
  PROVE  SignOutInv'
<1>1. RowsStay /\ crossed \subseteq crossed' /\ \A q \in Requests : StepOf(q)
  BY RowsKeep, HistoryGrows, EachSteps
<1>2. /\ requests \in [Requests -> Request] /\ sessions \in [SessionIds -> Session]
      /\ signOuts \in [Contacts -> Nat] /\ challenges \in [Challenges -> Challenge]
      /\ RowsLinked /\ \A q \in Requests : RequestLinked(requests[q])
  BY Typed DEF TInv, Types, Linked
<1>3. ASSUME NEW c \in Contacts, LogoutAll(c)
      PROVE  SignOutInv'
  <2>1. UNCHANGED requests /\ signOuts' = [signOuts EXCEPT ![c] = @ + 1]
    BY <1>3 DEF LogoutAll
  <2>2. ASSUME NEW q \in Requests, ~At(q, "idle"), requests[q].user = c
        PROVE  c \in crossed'
    <3>1. requests[q].pc \in Pcs
      BY <1>2 DEF Request
    <3>2. InFlight(Pcs, c)
      BY <2>2, <3>1 DEF InFlight
    <3>3. QED
      BY <1>3, <3>2 DEF LogoutAll
  <2>3. ASSUME NEW q \in Requests, requests'[q].pc \in SigningInPcs \union RefreshPcs,
               requests'[q].since < signOuts'[requests'[q].user]
        PROVE  requests'[q].user \in crossed'
    <3>1. ~At(q, "idle")
      BY <2>1, <2>3 DEF At, SigningInPcs, RefreshPcs
    <3>2. CASE requests[q].user = c
      BY <2>1, <2>2, <3>1, <3>2
    <3>3. CASE requests[q].user # c
      BY <1>1, <1>2, <2>1, <2>3, <3>3 DEF SignOutInv
    <3>4. QED
      BY <3>2, <3>3
  <2>4. ASSUME NEW s \in SessionIds, sessions'[s].state = "LIVE",
               sessions'[s].since < signOuts'[sessions'[s].user]
        PROVE  sessions'[s].user \in crossed'
    <3>1. sessions[s].user # c
      BY <1>2, <1>3, <2>4 DEF LogoutAll, Revoked, Session
    <3>2. sessions'[s] = sessions[s]
      BY <1>3, <3>1 DEF LogoutAll
    <3>3. QED
      BY <1>1, <1>2, <2>1, <2>4, <3>1, <3>2 DEF SignOutInv, SignOutEverywhereHolds
  <2>5. QED
    BY <2>3, <2>4 DEF SignOutInv, SignOutEverywhereHolds
<1>4. CASE UNCHANGED signOuts
  <2>1. ASSUME NEW q \in Requests, requests'[q].pc \in SigningInPcs \union RefreshPcs,
               requests'[q].since < signOuts'[requests'[q].user]
        PROVE  requests'[q].user \in crossed'
    <3>1. CASE requests'[q] = requests[q] \/ requests'[q] = Idle
      BY <1>1, <1>4, <2>1, <3>1 DEF SignOutInv, Idle, SigningInPcs, RefreshPcs
    <3>2. ASSUME NEW c \in Contacts, NEW new, Begin(q, new), new.user = c,
                 new.since = signOuts[c]
          PROVE  FALSE
      BY <1>2, <1>4, <2>1, <3>2 DEF Begin
    <3>3. ASSUME NEW h \in Challenges, VerifyRead(q, h)
          PROVE  FALSE
      <4>1. challenges[h].contact \in Contacts
        BY <1>2, <3>3 DEF VerifyRead, RowsLinked
      <4>2. QED
        BY <3>2, <3>3, <4>1 DEF VerifyRead, StartComparing, Idle
    <3>4. ASSUME NEW c \in Contacts, LoginRead(q, c)
          PROVE  FALSE
      BY <3>2, <3>4 DEF LoginRead, Idle
    <3>5. ASSUME NEW s \in SessionIds, RefreshRead(q, s)
          PROVE  requests'[q].user \in crossed'
      <4>1. /\ requests'[q].user = sessions[s].user /\ requests'[q].since = sessions[s].since
            /\ sessions[s].state = "LIVE"
        BY <1>2, <3>5 DEF RefreshRead, StartRefreshing, Begin, Idle
      <4>2. QED
        BY <1>1, <1>4, <2>1, <4>1 DEF SignOutInv, SignOutEverywhereHolds
    <3>6. ASSUME NEW c \in Contacts, NEW t \in {"SUSPENDED", "ACTIVE"}, ReadStatus(q, c, t)
          PROVE  FALSE
      BY <1>2, <2>1, <3>6 DEF ReadStatus, Begin, Idle, SigningInPcs, RefreshPcs
    <3>7. ASSUME NEW pc, requests'[q] = [requests[q] EXCEPT !.pc = pc],
                 requests[q].pc \in SigningInPcs \union RefreshPcs
          PROVE  requests'[q].user \in crossed'
      BY <1>1, <1>2, <1>4, <2>1, <3>7 DEF SignOutInv, Request
    <3>8. CASE SetStatus(q) /\ requests'[q] = [requests[q] EXCEPT !.pc = "log"]
      BY <1>2, <2>1, <3>8 DEF Request, SigningInPcs, RefreshPcs
    <3>9. QED
      BY <1>1, <3>1, <3>3, <3>4, <3>5, <3>6, <3>7, <3>8
         DEF StepOf, Rotate, At, SigningInPcs, RefreshPcs
  <2>2. CASE OriginsStay
    BY <1>1, <1>4, <2>1, <2>2 DEF OriginsStay, SignOutInv, SignOutEverywhereHolds
  <2>3. ASSUME NEW r \in Requests, NEW n \in SessionIds, Create(r, n),
               At(r, "open") \/ At(r, "reissue")
        PROVE  SignOutInv'
    <3>1. /\ sessions'[n].user = requests[r].user /\ sessions'[n].since = requests[r].since
          /\ \A t \in SessionIds \ {n} : sessions'[t] = sessions[t]
      BY <1>2, <2>3 DEF Create, NoSession
    <3>2. requests[r].since < signOuts[requests[r].user] => requests[r].user \in crossed
      BY <2>3 DEF SignOutInv, SigningInPcs, RefreshPcs, At
    <3>3. QED
      BY <1>1, <1>4, <2>1, <3>1, <3>2 DEF SignOutInv, SignOutEverywhereHolds
  <2>4. QED
    BY <2>2, <2>3, OriginsChange
<1>5. QED
  BY <1>3, <1>4, HistoryGrows

-----------------------------------------------------------------------------
(* Accounts: their roles, and the log of their administration *)

\* What a step does to one account.
AccountStep(c) ==
  \/ users'[c] = users[c]
  \/ \E r \in Requests : requests[r].user = c /\ ~Exists(c) /\ At(r, "assignRole")'
       /\ requests'[r].user = c /\ users'[c] = [users[c] EXCEPT !.status = "PENDING"]
  \/ \E r \in Requests : VerifyAssignRole(r) /\ users'[c] = [users[c] EXCEPT !.role = TRUE]
  \/ \E r \in Requests : SetStatus(r) /\ requests[r].user = c
       /\ users'[c] = [users[c] EXCEPT !.status = requests[r].target]

LEMMA EachAccountSteps ==
  ASSUME TInv, [Next]_vars, NEW c \in Contacts
  PROVE  AccountStep(c)
<1>1. requests \in [Requests -> Request] /\ users \in [Contacts -> User]
  BY Typed DEF TInv, Types
<1>2. CASE UNCHANGED users
  BY <1>2 DEF AccountStep
<1>3. ASSUME NEW r \in Requests, VerifyCreateUser(r), ~UNCHANGED users
      PROVE  AccountStep(c)
  <2>1. CASE requests[r].user = c
    <3>1. /\ ~Exists(c) /\ users'[c] = [users[c] EXCEPT !.status = "PENDING"]
          /\ Continue(r, "assignRole")
      BY <1>1, <1>3, <2>1 DEF VerifyCreateUser
    <3>2. requests'[r].pc = "assignRole" /\ requests'[r].user = c
      BY <1>1, <2>1, <3>1 DEF Continue, Request
    <3>3. QED
      BY <2>1, <3>1, <3>2 DEF AccountStep, At
  <2>2. CASE requests[r].user # c
    BY <1>1, <1>3, <2>2 DEF VerifyCreateUser, AccountStep
  <2>3. QED
    BY <2>1, <2>2
<1>4. ASSUME NEW r \in Requests, VerifyAssignRole(r)
      PROVE  AccountStep(c)
  BY <1>1, <1>4 DEF VerifyAssignRole, AccountStep
<1>5. ASSUME NEW r \in Requests, SetStatus(r)
      PROVE  AccountStep(c)
  BY <1>1, <1>5 DEF SetStatus, AccountStep
<1>6. ASSUME NEW r \in Requests, SignIn(r) \/ Refresh(r)
      PROVE  UNCHANGED users
  BY <1>6 DEF SignIn, LoginRead, OpenSession, Refresh, RefreshRead, StartRefreshing, Reissue,
     Create, Rotate, RevokeExpired, tables
<1>7. QED
  BY <1>2, <1>3, <1>4, <1>5, <1>6
     DEF Next, Verify, VerifyRead, StartComparing, VerifyWrong, VerifyConsume, VerifyFindUser,
         VerifyTouch, Administer, ReadStatus, Log, Abandon, OtpStart, ChallengeExpires,
         RevokeSession, SessionExpires, LogoutAll, vars, tables

\* How a request leaves the step it is at: to assign the role, to log.
LEMMA LeavesAssignRole ==
  ASSUME TInv, [Next]_vars, NEW q \in Requests, At(q, "assignRole")
  PROVE  requests'[q] = requests[q] \/ VerifyAssignRole(q) \/ Abandon(q)
<1>1. requests \in [Requests -> Request]
  BY Typed DEF TInv, Types
<1>2. ASSUME NEW r \in Requests, Finish(r) \/ (\E pc : Continue(r, pc)) \/ (\E new : Begin(r, new))
      PROVE  r = q \/ requests'[q] = requests[q]
  BY <1>1, <1>2 DEF Finish, Continue, Begin
<1>3. ASSUME NEW r \in Requests, Verify(r)
      PROVE  requests'[q] = requests[q] \/ VerifyAssignRole(q)
  BY <1>2, <1>3 DEF Verify, VerifyRead, StartComparing, VerifyWrong, VerifyConsume, VerifyFindUser,
     VerifyCreateUser, VerifyAssignRole, VerifyTouch, At, Begin
<1>4. ASSUME NEW r \in Requests, SignIn(r) \/ Refresh(r) \/ Administer(r)
      PROVE  requests'[q] = requests[q]
  BY <1>2, <1>4 DEF SignIn, LoginRead, OpenSession, Refresh, RefreshRead, StartRefreshing, Reissue,
     Create, Rotate, RevokeExpired, Administer, ReadStatus, SetStatus, Log, At, Begin
<1>5. QED
  BY <1>2, <1>3, <1>4 DEF Next, Abandon, OtpStart, ChallengeExpires, RevokeSession, SessionExpires,
     LogoutAll, vars

LEMMA LeavesLog ==
  ASSUME TInv, [Next]_vars, NEW q \in Requests, At(q, "log")
  PROVE  requests'[q] = requests[q] \/ Log(q) \/ Abandon(q)
<1>1. requests \in [Requests -> Request]
  BY Typed DEF TInv, Types
<1>2. ASSUME NEW r \in Requests, Finish(r) \/ (\E pc : Continue(r, pc)) \/ (\E new : Begin(r, new))
      PROVE  r = q \/ requests'[q] = requests[q]
  BY <1>1, <1>2 DEF Finish, Continue, Begin
<1>3. ASSUME NEW r \in Requests, Administer(r)
      PROVE  requests'[q] = requests[q] \/ Log(q)
  BY <1>2, <1>3 DEF Administer, ReadStatus, SetStatus, Log, At, Begin
<1>4. ASSUME NEW r \in Requests, Verify(r)
      PROVE  requests'[q] = requests[q]
  BY <1>2, <1>4 DEF Verify, VerifyRead, StartComparing, VerifyWrong, VerifyConsume, VerifyFindUser,
     VerifyCreateUser, VerifyAssignRole, VerifyTouch, At, Begin
<1>5. ASSUME NEW r \in Requests, SignIn(r) \/ Refresh(r)
      PROVE  requests'[q] = requests[q]
  BY <1>2, <1>5 DEF SignIn, LoginRead, OpenSession, Refresh, RefreshRead, StartRefreshing, Reissue,
     Create, Rotate, RevokeExpired, At, Begin
<1>6. QED
  BY <1>2, <1>3, <1>4, <1>5 DEF Next, Abandon, OtpStart, ChallengeExpires, RevokeSession,
     SessionExpires, LogoutAll, vars

\* A role, once missing, is owed by the request that is about to assign it.
LEMMA RoleKeeps ==
  ASSUME TInv, AccountHasRole, [Next]_vars
  PROVE  AccountHasRole'
<1>1. /\ requests \in [Requests -> Request] /\ users \in [Contacts -> User]
      /\ \A q \in Requests : RequestLinked(requests[q])
  BY Typed DEF TInv, Types, Linked
<1>2. SUFFICES ASSUME NEW c \in Contacts, Exists(c)', ~users'[c].role
               PROVE  InFlight({"assignRole"}, c)' \/ c \in torn'
  BY DEF AccountHasRole
<1>3. AccountStep(c) /\ torn \subseteq torn'
  BY EachAccountSteps, HistoryGrows
<1>4. ASSUME NEW r \in Requests, At(r, "assignRole")', requests'[r].user = c
      PROVE  InFlight({"assignRole"}, c)'
  BY <1>4 DEF InFlight, At
<1>5. CASE Exists(c) /\ users'[c].role = users[c].role
  <2>1. InFlight({"assignRole"}, c) \/ c \in torn
    BY <1>2, <1>5 DEF AccountHasRole
  <2>2. ASSUME NEW q \in Requests, At(q, "assignRole"), requests[q].user = c
        PROVE  InFlight({"assignRole"}, c)' \/ c \in torn'
    <3>1. CASE requests'[q] = requests[q]
      BY <1>4, <2>2, <3>1 DEF At
    <3>2. CASE VerifyAssignRole(q)
      BY <1>1, <1>2, <2>2, <3>2 DEF VerifyAssignRole
    <3>3. CASE Abandon(q)
      BY <2>2, <3>3 DEF Abandon
    <3>4. QED
      BY <2>2, <3>1, <3>2, <3>3, LeavesAssignRole
  <2>3. QED
    BY <1>3, <2>1, <2>2 DEF InFlight, At
<1>6. CASE users'[c] = users[c]
  BY <1>2, <1>5, <1>6 DEF Exists
<1>7. ASSUME NEW r \in Requests, SetStatus(r), requests[r].user = c,
             users'[c] = [users[c] EXCEPT !.status = requests[r].target]
      PROVE  Exists(c) /\ users'[c].role = users[c].role
  BY <1>1, <1>7 DEF SetStatus, RequestLinked, At, User
<1>8. QED
  BY <1>1, <1>2, <1>3, <1>4, <1>5, <1>6, <1>7 DEF AccountStep, User

\* The status of an account changes when it is created, or administered.
LEMMA StatusChanges ==
  ASSUME TInv, [Next]_vars, NEW c \in Contacts
  PROVE  \/ users'[c].status = users[c].status
         \/ ~Exists(c) /\ users'[c].status = "PENDING"
         \/ \E r \in Requests : SetStatus(r) /\ requests[r].user = c
<1>1. users[c] \in User
  BY Typed DEF TInv, Types
<1>2. ASSUME users'[c] = [users[c] EXCEPT !.status = "PENDING"]
      PROVE  users'[c].status = "PENDING"
  BY <1>1, <1>2 DEF User
<1>3. ASSUME users'[c] = [users[c] EXCEPT !.role = TRUE]
      PROVE  users'[c].status = users[c].status
  BY <1>1, <1>3 DEF User
<1>4. QED
  BY <1>2, <1>3, EachAccountSteps DEF AccountStep

Administers(q, c) == requests[q].pc \in {"setStatus", "log"} /\ requests[q].user = c
Logging(q, c) == At(q, "log") /\ requests[q].user = c
StatusLogged(c) ==
  \/ audit[c] # "NONE" /\ users[c].status = audit[c]
  \/ audit[c] = "NONE" /\ users[c].status # "SUSPENDED"

\* One administrator at a time: the status is the one logged, or the one that
\* is about to be.
AuditInv ==
  /\ \A c \in Contacts \ met : \A p, q \in Requests :
       Administers(p, c) /\ Administers(q, c) => p = q
  /\ \A c \in Contacts \ (met \union torn) : \A q \in Requests :
       Logging(q, c) => users[c].status = requests[q].target
  /\ \A c \in Contacts \ (met \union torn) :
       (\A q \in Requests : ~Logging(q, c)) => StatusLogged(c)
  /\ \A c \in Contacts : ~Exists(c) => audit[c] = "NONE"

\* Who administers an account after a step did so before, or has just read it.
LEMMA AdministersStarts ==
  ASSUME TInv, NEW q \in Requests, NEW c \in Contacts, StepOf(q), Administers(q, c)'
  PROVE  \/ requests'[q] = requests[q]
         \/ \E t \in {"SUSPENDED", "ACTIVE"} : ReadStatus(q, c, t) /\ requests'[q].pc = "setStatus"
         \/ SetStatus(q) /\ Administers(q, c) /\ requests'[q] = [requests[q] EXCEPT !.pc = "log"]
<1>1. requests \in [Requests -> Request]
  BY Typed DEF TInv, Types
<1>2. CASE requests'[q] = Idle
  BY <1>2 DEF Administers, Idle
<1>3. ASSUME NEW new, Begin(q, new), new.pc \in SigningInPcs \union RefreshPcs
      PROVE  FALSE
  BY <1>1, <1>3 DEF Begin, Administers, SigningInPcs, RefreshPcs
<1>4. ASSUME NEW d \in Contacts, NEW t \in {"SUSPENDED", "ACTIVE"}, ReadStatus(q, d, t)
      PROVE  d = c /\ requests'[q].pc = "setStatus"
  BY <1>1, <1>4 DEF ReadStatus, Begin, Administers, Idle
<1>5. ASSUME NEW pc \in SigningInPcs \union RefreshPcs,
             requests'[q] = [requests[q] EXCEPT !.pc = pc]
      PROVE  FALSE
  BY <1>1, <1>5 DEF Administers, SigningInPcs, RefreshPcs, Request
<1>6. ASSUME SetStatus(q), requests'[q] = [requests[q] EXCEPT !.pc = "log"]
      PROVE  Administers(q, c)
  BY <1>1, <1>6 DEF SetStatus, At, Administers, Request
<1>7. QED
  BY <1>2, <1>3, <1>4, <1>5, <1>6
     DEF StepOf, VerifyRead, StartComparing, LoginRead, RefreshRead, StartRefreshing, Idle,
         SigningInPcs, RefreshPcs

\* The log of one account changes when a request that administers it ends.
LEMMA AuditChanges ==
  ASSUME [Next]_vars, NEW c \in Contacts
  PROVE  audit'[c] = audit[c] \/ \E r \in Requests : Log(r) /\ requests[r].user = c
<1>1. ASSUME NEW r \in Requests, Verify(r) \/ SignIn(r) \/ Refresh(r)
      PROVE  UNCHANGED audit
  BY <1>1 DEF Verify, VerifyRead, StartComparing, VerifyWrong, VerifyConsume, VerifyFindUser,
     VerifyCreateUser, VerifyAssignRole, VerifyTouch, SignIn, LoginRead, OpenSession, Refresh,
     RefreshRead, StartRefreshing, Reissue, Create, Rotate, RevokeExpired, tables
<1>2. ASSUME NEW r \in Requests, Log(r), requests[r].user # c
      PROVE  audit'[c] = audit[c]
  BY <1>2 DEF Log
<1>3. QED
  BY <1>1, <1>2 DEF Next, Administer, ReadStatus, SetStatus, Abandon, OtpStart, ChallengeExpires,
     RevokeSession, SessionExpires, LogoutAll, vars, tables

\* Every step keeps it.
LEMMA AuditKeeps ==
  ASSUME TInv, AuditInv, [Next]_vars
  PROVE  AuditInv'
<1>1. /\ met \subseteq met' /\ torn \subseteq torn' /\ RowsStay
      /\ \A q \in Requests : StepOf(q)
  BY HistoryGrows, EachSteps, RowsKeep
<1>2. /\ requests \in [Requests -> Request] /\ users \in [Contacts -> User]
      /\ audit \in [Contacts -> {"NONE", "SUSPENDED", "ACTIVE"}]
      /\ \A q \in Requests : RequestLinked(requests[q])
  BY Typed DEF TInv, Types, Linked
<1>3. ASSUME NEW c \in Contacts \ met', NEW p \in Requests, NEW q \in Requests,
             Administers(p, c)', Administers(q, c)', p # q
      PROVE  FALSE
  <2>1. ASSUME NEW k \in Requests, NEW l \in Requests, k # l, Administers(l, c)',
               NEW t \in {"SUSPENDED", "ACTIVE"}, ReadStatus(k, c, t)
        PROVE  FALSE
    <3>1. requests'[l] = requests[l]
      BY <1>2, <2>1 DEF ReadStatus, Begin
    <3>2. Administering(c)
      BY <2>1, <3>1 DEF Administering, InFlight, Administers
    <3>3. QED
      BY <1>3, <2>1, <3>2 DEF ReadStatus
  <2>2. ASSUME NEW k \in Requests, NEW l \in Requests, k # l, Administers(k, c)',
               Administers(l, c)'
        PROVE  Administers(k, c)
    <3>1. \A t \in {"SUSPENDED", "ACTIVE"} : ~ReadStatus(k, c, t)
      BY <2>1, <2>2
    <3>2. requests'[k] = requests[k] => Administers(k, c)
      BY <2>2 DEF Administers
    <3>3. QED
      BY <1>1, <2>2, <3>1, <3>2, AdministersStarts
  <2>3. QED
    BY <1>1, <1>3, <2>2 DEF AuditInv
<1>4. ASSUME NEW r \in Requests, SetStatus(r)
      PROVE  /\ At(r, "log")' /\ requests'[r].user = requests[r].user
             /\ Administers(r, requests[r].user)
  BY <1>2, <1>4 DEF SetStatus, At, Continue, Administers, Request
<1>5. ASSUME NEW c \in Contacts \ (met' \union torn'), NEW q \in Requests, Logging(q, c)'
      PROVE  users'[c].status = requests'[q].target
  <2>1. Administers(q, c)'
    BY <1>5 DEF Logging, Administers, At
  <2>2. CASE requests'[q] = requests[q]
    <3>1. /\ Logging(q, c) /\ Administers(q, c)
          /\ users[c].status = requests'[q].target
      BY <1>1, <1>5, <2>2 DEF Logging, Administers, At, AuditInv
    <3>2. Exists(c)
      BY <1>2, <3>1 DEF Logging, RequestLinked, At
    <3>3. ASSUME NEW r \in Requests, SetStatus(r), requests[r].user = c
          PROVE  FALSE
      <4>1. Administers(r, c) /\ r # q
        BY <1>4, <3>1, <3>3 DEF SetStatus, At, Logging
      <4>2. QED
        BY <1>1, <1>5, <3>1, <4>1 DEF AuditInv
    <3>4. QED
      BY <3>1, <3>2, <3>3, StatusChanges
  <2>3. CASE SetStatus(q) /\ Administers(q, c) /\ requests'[q] = [requests[q] EXCEPT !.pc = "log"]
    BY <1>2, <2>3 DEF SetStatus, Administers, Request, User
  <2>4. QED
    BY <1>1, <1>5, <2>1, <2>2, <2>3, AdministersStarts DEF Logging, At
<1>6. ASSUME NEW c \in Contacts \ (met' \union torn'), \A q \in Requests : ~Logging(q, c)'
      PROVE  StatusLogged(c)'
  <2>1. ASSUME NEW q \in Requests, Logging(q, c)
        PROVE  StatusLogged(c)'
    <3>1. requests'[q] # requests[q]
      BY <1>6, <2>1 DEF Logging, At
    <3>2. ~Abandon(q)
      BY <1>6, <2>1 DEF Abandon, Logging
    <3>3. Log(q)
      BY <2>1, <3>1, <3>2, LeavesLog DEF Logging
    <3>4. /\ audit'[c] = requests[q].target /\ users'[c] = users[c]
          /\ requests[q].target # "NONE"
      BY <1>2, <2>1, <3>3 DEF Log, Logging, RequestLinked, At
    <3>5. users[c].status = requests[q].target
      BY <1>1, <1>6, <2>1 DEF AuditInv
    <3>6. QED
      BY <3>4, <3>5 DEF StatusLogged
  <2>2. ASSUME \A q \in Requests : ~Logging(q, c)
        PROVE  StatusLogged(c)'
    <3>1. StatusLogged(c)
      BY <1>1, <1>6, <2>2 DEF AuditInv
    <3>2. audit'[c] = audit[c]
      BY <2>2, AuditChanges DEF Log, Logging
    <3>3. ASSUME NEW r \in Requests, SetStatus(r), requests[r].user = c
          PROVE  FALSE
      BY <1>4, <1>6, <3>3 DEF Logging
    <3>4. ~Exists(c) => audit[c] = "NONE"
      BY DEF AuditInv
    <3>5. QED
      BY <3>1, <3>2, <3>3, <3>4, StatusChanges DEF StatusLogged, Exists
  <2>3. QED
    BY <2>1, <2>2
<1>7. ASSUME NEW c \in Contacts, ~Exists(c)'
      PROVE  audit'[c] = "NONE"
  <2>1. ~Exists(c) /\ audit[c] = "NONE"
    BY <1>1, <1>7 DEF RowsStay, AuditInv
  <2>2. ASSUME NEW r \in Requests, Log(r), requests[r].user = c
        PROVE  FALSE
    BY <1>2, <2>1, <2>2 DEF Log, RequestLinked, At
  <2>3. QED
    BY <2>1, <2>2, AuditChanges
<1>8. QED
  BY <1>3, <1>5, <1>6, <1>7 DEF AuditInv

-----------------------------------------------------------------------------
(* Attempts *)

Comparers(h) == {q \in Requests : At(q, "compare") /\ requests[q].challenge = h}

\* What a step does to the attempts at one code.
LEMMA AttemptsChange ==
  ASSUME TInv, [Next]_vars, NEW h \in Challenges
  PROVE  \/ challenges'[h].attempts = challenges[h].attempts /\ Comparers(h)' \subseteq Comparers(h)
         \/ \E q \in Requests : VerifyRead(q, h)
         \/ \E q \in Comparers(h) : /\ challenges'[h].attempts = challenges[h].attempts + 1
                                    /\ Comparers(h)' = Comparers(h) \ {q}
<1>1. /\ requests \in [Requests -> Request] /\ challenges \in [Challenges -> Challenge]
      /\ \A q \in Requests : StepOf(q) /\ RequestLinked(requests[q])
  BY Typed, EachSteps DEF TInv, Types, Linked
<1>2. ASSUME NEW q \in Requests, q \in Comparers(h)', ~VerifyRead(q, h)
      PROVE  q \in Comparers(h)
  <2>1. requests'[q].pc = "compare" /\ requests'[q].challenge = h
    BY <1>2 DEF Comparers, At
  <2>2. ASSUME NEW new, Begin(q, new), new.pc # "compare" PROVE FALSE
    BY <1>1, <2>1, <2>2 DEF Begin
  <2>3. ASSUME NEW pc, requests'[q] = [requests[q] EXCEPT !.pc = pc], pc # "compare" PROVE FALSE
    BY <1>1, <2>1, <2>3 DEF Request
  <2>4. ASSUME NEW k \in Challenges, VerifyRead(q, k) PROVE FALSE
    <3>1. requests'[q].challenge = k
      BY <1>1, <2>4 DEF VerifyRead, StartComparing, Begin, Idle
    <3>2. QED
      BY <1>2, <2>1, <2>4, <3>1
  <2>5. ASSUME \/ \E c \in Contacts : LoginRead(q, c)
               \/ \E s \in SessionIds : RefreshRead(q, s)
               \/ \E c \in Contacts : \E t \in {"SUSPENDED", "ACTIVE"} : ReadStatus(q, c, t)
        PROVE  FALSE
    BY <2>2, <2>5 DEF LoginRead, RefreshRead, StartRefreshing, ReadStatus, Idle
  <2>6. requests'[q] # Idle
    BY <2>1 DEF Idle
  <2>7. requests'[q] = requests[q]
    BY <1>1, <2>3, <2>4, <2>5, <2>6 DEF StepOf
  <2>8. QED
    BY <2>1, <2>7 DEF Comparers, At
<1>3. (\E q \in Requests : VerifyRead(q, h)) \/ Comparers(h)' \subseteq Comparers(h)
  BY <1>2 DEF Comparers
<1>4. ASSUME NEW q \in Requests, VerifyWrong(q), requests[q].challenge = h
      PROVE  \/ \E r \in Requests : VerifyRead(r, h)
             \/ \E r \in Comparers(h) : /\ challenges'[h].attempts = challenges[h].attempts + 1
                                        /\ Comparers(h)' = Comparers(h) \ {r}
  <2>1. q \in Comparers(h) /\ requests'[q] = Idle
    BY <1>1, <1>4 DEF VerifyWrong, Comparers, At, Finish
  <2>2. \A r \in Requests \ {q} : requests'[r] = requests[r]
    BY <1>1, <1>4 DEF VerifyWrong, Finish
  <2>3. Comparers(h)' = Comparers(h) \ {q}
    BY <2>1, <2>2 DEF Comparers, At, Idle
  <2>4. challenges'[h].attempts = challenges[h].attempts + 1
    BY <1>1, <1>4 DEF VerifyWrong, Challenge
  <2>5. QED
    BY <2>1, <2>3, <2>4
<1>5. ASSUME NEW q \in Requests, VerifyWrong(q), requests[q].challenge # h
      PROVE  challenges'[h].attempts = challenges[h].attempts
  BY <1>1, <1>5 DEF VerifyWrong, Challenge
<1>6. ASSUME NEW q \in Requests, VerifyConsume(q)
      PROVE  challenges'[h].attempts = challenges[h].attempts
  BY <1>1, <1>6 DEF VerifyConsume, Challenge
<1>7. ASSUME NEW k \in Challenges, NEW c \in Contacts, NEW p \in {"LOGIN", "SIGNUP"},
             OtpStart(k, c, p)
      PROVE  challenges'[h].attempts = challenges[h].attempts
  BY <1>1, <1>7 DEF OtpStart, NoChallenge, Challenge
<1>8. ASSUME NEW k \in Challenges, ChallengeExpires(k)
      PROVE  challenges'[h].attempts = challenges[h].attempts
  BY <1>1, <1>8 DEF ChallengeExpires, Challenge
<1>9. CASE UNCHANGED challenges
  BY <1>3, <1>9
<1>10. ASSUME NEW q \in Requests, SignIn(q) \/ Refresh(q) \/ Administer(q) \/ Abandon(q)
       PROVE  UNCHANGED challenges
  BY <1>10 DEF SignIn, LoginRead, OpenSession, Refresh, RefreshRead, StartRefreshing, Reissue,
     Create, Rotate, RevokeExpired, Administer, ReadStatus, SetStatus, Log, Abandon, tables
<1>11. QED
  BY <1>3, <1>4, <1>5, <1>6, <1>7, <1>8, <1>9, <1>10
     DEF Next, Verify, VerifyRead, StartComparing, VerifyFindUser, VerifyCreateUser,
         VerifyAssignRole, VerifyTouch, RevokeSession, SessionExpires, LogoutAll, vars, tables

\* Reading a code with an attempt left counts at most the requests there are.
LEMMA AttemptsKeep ==
  ASSUME IsFiniteSet(Requests), MaxOtpAttempts \in Nat, TInv, AttemptsStayNearLimit, [Next]_vars
  PROVE  AttemptsStayNearLimit'
<1>1. SUFFICES ASSUME NEW h \in Challenges
               PROVE  challenges'[h].attempts + Cardinality(Comparers(h)')
                        <= MaxOtpAttempts + Cardinality(Requests) - 1
  BY DEF AttemptsStayNearLimit, Comparers
<1>2. challenges[h].attempts \in Nat
  BY Typed DEF TInv, Types, Challenge
<1>3. /\ Comparers(h) \subseteq Requests /\ Comparers(h)' \subseteq Requests
      /\ IsFiniteSet(Comparers(h)) /\ IsFiniteSet(Comparers(h)')
      /\ Cardinality(Requests) \in Nat /\ Cardinality(Comparers(h)) \in Nat
      /\ Cardinality(Comparers(h)') \in Nat
      /\ Cardinality(Comparers(h)') <= Cardinality(Requests)
  <2>1. Comparers(h) \subseteq Requests /\ Comparers(h)' \subseteq Requests
    BY DEF Comparers
  <2>2. QED
    BY <2>1, FS_Subset, FS_CardinalityType
<1>4. challenges[h].attempts + Cardinality(Comparers(h))
        <= MaxOtpAttempts + Cardinality(Requests) - 1
  BY DEF AttemptsStayNearLimit, Comparers
<1>5. CASE /\ challenges'[h].attempts = challenges[h].attempts
           /\ Comparers(h)' \subseteq Comparers(h)
  <2>1. Cardinality(Comparers(h)') <= Cardinality(Comparers(h))
    BY <1>3, <1>5, FS_Subset
  <2>2. QED
    BY <1>2, <1>3, <1>4, <1>5, <2>1
<1>6. ASSUME NEW q \in Requests, VerifyRead(q, h)
      PROVE  challenges'[h].attempts + Cardinality(Comparers(h)')
               <= MaxOtpAttempts + Cardinality(Requests) - 1
  <2>1. challenges[h].attempts < MaxOtpAttempts /\ challenges'[h] = challenges[h]
    BY <1>6 DEF VerifyRead, StartComparing, tables
  <2>2. QED
    BY <1>2, <1>3, <2>1
<1>7. ASSUME NEW q \in Comparers(h), challenges'[h].attempts = challenges[h].attempts + 1,
             Comparers(h)' = Comparers(h) \ {q}
      PROVE  challenges'[h].attempts + Cardinality(Comparers(h)')
               <= MaxOtpAttempts + Cardinality(Requests) - 1
  <2>1. Cardinality(Comparers(h)') = Cardinality(Comparers(h)) - 1
    BY <1>3, <1>7, FS_RemoveElement
  <2>2. QED
    BY <1>2, <1>3, <1>4, <1>7, <2>1
<1>8. QED
  BY <1>5, <1>6, <1>7, AttemptsChange

-----------------------------------------------------------------------------
\* Rows and requests keep their types and their links.
THEOREM Linking == Spec => []TInv
<1>1. TInv /\ [Next]_vars => TInv'
  BY NextTypeOK, NextLinked DEF TInv
<1>2. QED
  BY <1>1, InitTInv, PTL DEF Spec

\* Each row and request has its type, and a request finds the rows it names.
THEOREM TypeCorrect == Spec => []TypeOK
<1>1. TInv => TypeOK
  BY DEF TInv
<1>2. QED
  BY <1>1, Linking, PTL

\* A session that was refreshed is revoked, and has one successor unless two
\* refreshes of it overlapped.
THEOREM RefreshReplaces == ASSUME NULL \notin SessionIds
                           PROVE  Spec => []RotationReplaces
<1>1. Init => RotationInv
  BY DEF Init, RotationInv, Refreshing, At, NoSession, Idle
<1>2. TInv /\ RotationInv /\ [Next]_vars => RotationInv'
  BY RotationKeeps
<1>3. RotationInv => RotationReplaces
  BY DEF RotationInv, RotationReplaces
<1>4. QED
  BY <1>1, <1>2, <1>3, Linking, PTL DEF Spec

\* A code opens one session, unless two verifications of it overlapped.
THEOREM CodesOpenOne == ASSUME NULL \notin Challenges
                        PROVE  Spec => []OneSessionPerCode
<1>1. Init => CodeInv
  BY DEF Init, CodeInv, SigningIn, SigningInPcs, NoSession, Idle
<1>2. TInv /\ CodeInv /\ [Next]_vars => CodeInv'
  BY CodeKeeps
<1>3. CodeInv => OneSessionPerCode
  BY DEF CodeInv, OneSessionPerCode
<1>4. QED
  BY <1>1, <1>2, <1>3, Linking, PTL DEF Spec

\* Signing out everywhere reaches every session that goes back to an earlier
\* sign-in, unless a request of the user was in flight.
THEOREM SignOutReaches == Spec => []SignOutEverywhereHolds
<1>1. Init => SignOutInv
  BY DEF Init, SignOutInv, SignOutEverywhereHolds, SigningInPcs, RefreshPcs, NoSession, Idle
<1>2. TInv /\ SignOutInv /\ [Next]_vars => SignOutInv'
  BY SignOutKeeps
<1>3. SignOutInv => SignOutEverywhereHolds
  BY DEF SignOutInv
<1>4. QED
  BY <1>1, <1>2, <1>3, Linking, PTL DEF Spec

\* An account has its role, unless the request creating it has not come to
\* that or was abandoned.
THEOREM RolesAssigned == Spec => []AccountHasRole
<1>1. Init => AccountHasRole
  BY DEF Init, AccountHasRole, Exists, NoUser
<1>2. TInv /\ AccountHasRole /\ [Next]_vars => AccountHasRole'
  BY RoleKeeps
<1>3. QED
  BY <1>1, <1>2, Linking, PTL DEF Spec

\* The log names the status of an account nobody administers, unless two did
\* at once or one was abandoned.
THEOREM AuditAgrees == Spec => []AuditNamesStatus
<1>1. Init => AuditInv
  BY DEF Init, AuditInv, Administers, Logging, StatusLogged, At, Exists, NoUser, Idle
<1>2. TInv /\ AuditInv /\ [Next]_vars => AuditInv'
  BY AuditKeeps
<1>3. AuditInv => AuditNamesStatus
  BY DEF AuditInv, AuditNamesStatus, Logging, StatusLogged, Administering, InFlight, At
<1>4. QED
  BY <1>1, <1>2, <1>3, Linking, PTL DEF Spec

\* Guessing a code stops at the limit, give or take the requests in flight.
THEOREM GuessingStops == ASSUME IsFiniteSet(Requests), MaxOtpAttempts \in Nat \ {0}
                         PROVE  Spec => []AttemptsStayNearLimit
<1>1. Init => AttemptsStayNearLimit
  <2>1. SUFFICES ASSUME Init, NEW h \in Challenges
                 PROVE  challenges[h].attempts + Cardinality(Comparers(h))
                          <= MaxOtpAttempts + Cardinality(Requests) - 1
    BY DEF AttemptsStayNearLimit, Comparers
  <2>2. Comparers(h) = {} /\ challenges[h].attempts = 0
    BY <2>1 DEF Init, Comparers, At, Idle, NoChallenge
  <2>3. QED
    BY <2>2, FS_EmptySet, FS_CardinalityType
<1>2. TInv /\ AttemptsStayNearLimit /\ [Next]_vars => AttemptsStayNearLimit'
  BY AttemptsKeep
<1>3. QED
  BY <1>1, <1>2, Linking, PTL DEF Spec
=============================================================================
