------------------------------ MODULE Profiles ------------------------------
(***************************************************************************)
(* The profile a user makes as a tutor and the students of a parent.       *)
(*                                                                         *)
(* The completion score is kept as the number of fields it counts, and a   *)
(* field only as filled or not.  The texts, the rates and the tables that  *)
(* are written in one statement without any check (qualifications,         *)
(* languages, service areas) are left out.  So are the subjects a tutor    *)
(* offers: adding one fails before or at its insert, whether it is named   *)
(* by an id or by a slug, and without a row nothing is removed.            *)
(***************************************************************************)
EXTENDS Naturals, FiniteSets

CONSTANTS
  Fields,      \* what the completion score counts
  Names,       \* names of students, in lower case
  StudentIds,  \* ids of Student rows
  Requests,    \* requests the API serves at the same time
  MaxFaults,   \* bound on abandoned requests
  NULL

VARIABLES
  filled,      \* Tutor: the fields that are filled; NULL before there is a profile
  score,       \* Tutor: profileCompletionScore
  isTutor,     \* UserRoleAssignment: the user has the role TUTOR
  students,    \* Student and StudentGuardian: name, guarded, deleted
  requests,    \* the requests in flight
  met,         \* history: rows written after another request wrote one since
               \* the check, and students renamed
  estranged,   \* history: the last write of the profile gave no score, or
               \* one of other fields than it left filled
  torn,        \* history: a request was abandoned after its first write
  faults       \* abandoned requests so far

profileVars == <<filled, score, isTutor, estranged>>
vars == <<profileVars, students, requests, met, torn, faults>>

NoStudent == [name |-> NULL, guarded |-> FALSE, deleted |-> FALSE]
Idle == [pc |-> "idle", fill |-> {}, clear |-> {}, score |-> 0, nulls |-> FALSE,
         name |-> NULL, id |-> NULL, stale |-> FALSE]

INSTANCE RequestSteps

\* The request has written; those at pc checked before it did.
Outdate(r, pc, rest) ==
  requests' = [q \in Requests |->
                 IF q = r THEN rest ELSE [requests[q] EXCEPT !.stale = @ \/ At(q, pc)]]

-----------------------------------------------------------------------------
(* The profile. *)

CreateRead(r, fill) ==
  /\ filled = NULL
  /\ Begin(r, [Idle EXCEPT !.pc = "create", !.fill = fill])
  /\ UNCHANGED <<profileVars, students, met, torn, faults>>

\* The user id is unique.  The score starts at 0 whatever is filled.
CreateProfile(r) ==
  /\ At(r, "create")
  /\ IF filled # NULL
       THEN Finish(r) /\ UNCHANGED <<filled, score, estranged>>
       ELSE /\ filled' = requests[r].fill
            /\ score' = 0
            /\ estranged' = (requests[r].fill # {})
            /\ Continue(r, "role")
  /\ UNCHANGED <<isTutor, students, met, torn, faults>>

AssignRole(r) ==
  /\ At(r, "role")
  /\ isTutor' = TRUE
  /\ Finish(r)
  /\ UNCHANGED <<filled, score, estranged, students, met, torn, faults>>

\* A field is filled, or emptied, or given as null: a null is not counted,
\* and leaves the column as it is.
UpdateRead(r, fill, clear, null) ==
  /\ filled # NULL
  /\ Begin(r, [Idle EXCEPT !.pc = "update", !.fill = fill, !.clear = clear,
                           !.score = Cardinality((filled \union fill) \ (clear \union null)),
                           !.nulls = (null \intersect filled) # {}])
  /\ UNCHANGED <<profileVars, students, met, torn, faults>>

\* Mutant: the score is that of the fields given.
UpdateProfileGiven(r) ==
  /\ At(r, "update")
  /\ LET q == requests[r] IN
     /\ filled' = (filled \union q.fill) \ q.clear
     /\ score' = Cardinality(q.fill)
     /\ estranged' = (q.stale \/ q.nulls)
  /\ Outdate(r, "update", Idle)
  /\ UNCHANGED <<isTutor, students, met, torn, faults>>

UpdateProfile(r) ==
  /\ At(r, "update")
  /\ LET q == requests[r] IN
     /\ filled' = (filled \union q.fill) \ q.clear
     /\ score' = q.score
     /\ estranged' = (q.stale \/ q.nulls)
  /\ Outdate(r, "update", Idle)
  /\ UNCHANGED <<isTutor, students, met, torn, faults>>

-----------------------------------------------------------------------------
(* Students. *)

Listed == {i \in StudentIds : students[i].guarded /\ ~students[i].deleted}

\* Mutant: the names are not compared.
StudentReadAny(r, name) ==
  /\ Begin(r, [Idle EXCEPT !.pc = "student", !.name = name])
  /\ UNCHANGED <<profileVars, students, met, torn, faults>>

StudentRead(r, name) ==
  /\ \A i \in Listed : students[i].name # name
  /\ Begin(r, [Idle EXCEPT !.pc = "student", !.name = name])
  /\ UNCHANGED <<profileVars, students, met, torn, faults>>

StudentCreate(r, i) ==
  /\ At(r, "student")
  /\ students[i] = NoStudent
  /\ students' = [students EXCEPT ![i].name = requests[r].name]
  /\ requests' = [requests EXCEPT ![r].pc = "guardian", ![r].id = i]
  /\ UNCHANGED <<profileVars, met, torn, faults>>

\* Mutant: the link is left for later.
StudentLinkNever(r) ==
  /\ At(r, "guardian")
  /\ Finish(r)
  /\ UNCHANGED <<profileVars, students, met, torn, faults>>

\* From here on the parent's list has the student.
StudentLink(r) ==
  /\ At(r, "guardian")
  /\ LET i == requests[r].id IN
     /\ students' = [students EXCEPT ![i].guarded = TRUE]
     /\ met' = IF requests[r].stale THEN met \union {i} ELSE met
  /\ requests' = [q \in Requests |->
                    IF q = r THEN Idle
                    ELSE [requests[q] EXCEPT !.stale = @ \/ At(q, "student") \/ At(q, "guardian")]]
  /\ UNCHANGED <<profileVars, torn, faults>>

\* The new name is compared with none.  A student deleted since it was looked
\* up is renamed too.
RenameStudent(i, name) ==
  /\ students[i].guarded
  /\ students' = [students EXCEPT ![i].name = name]
  /\ met' = met \union {i}
  /\ UNCHANGED <<profileVars, requests, torn, faults>>

DeleteStudent(i) ==
  /\ i \in Listed
  /\ students' = [students EXCEPT ![i].deleted = TRUE]
  /\ UNCHANGED <<profileVars, requests, met, torn, faults>>

-----------------------------------------------------------------------------
\* A statement fails, or the process stops.
Abandon(r) ==
  /\ ~At(r, "idle")
  /\ faults < MaxFaults
  /\ faults' = faults + 1
  /\ torn' = (torn \/ At(r, "role") \/ At(r, "guardian"))
  /\ Finish(r)
  /\ UNCHANGED <<profileVars, students, met>>

Init ==
  /\ filled = NULL /\ score = 0 /\ isTutor = FALSE /\ estranged = FALSE
  /\ students = [i \in StudentIds |-> NoStudent]
  /\ requests = [r \in Requests |-> Idle]
  /\ met = {} /\ torn = FALSE /\ faults = 0

Next ==
  \/ \E r \in Requests :
       \/ \E fill \in SUBSET Fields :
            \/ CreateRead(r, fill)
            \/ \E clear \in SUBSET (Fields \ fill) :
                 \E null \in SUBSET (Fields \ (fill \union clear)) : UpdateRead(r, fill, clear, null)
       \/ CreateProfile(r) \/ AssignRole(r) \/ UpdateProfile(r)
       \/ \E name \in Names : StudentRead(r, name)
       \/ \E i \in StudentIds : StudentCreate(r, i)
       \/ StudentLink(r) \/ Abandon(r)
  \/ \E i \in StudentIds : DeleteStudent(i) \/ \E name \in Names : RenameStudent(i, name)

Spec == Init /\ [][Next]_vars

-----------------------------------------------------------------------------
(* Properties. *)

\* Every row and every request holds a value of its type.
TypeOK ==
  /\ filled \in (SUBSET Fields) \union {NULL} /\ score \in Nat
  /\ isTutor \in BOOLEAN /\ estranged \in BOOLEAN
  /\ students \in [StudentIds -> [name : Names \union {NULL}, guarded : BOOLEAN, deleted : BOOLEAN]]
  /\ requests \in [Requests ->
       [pc : {"idle", "create", "role", "update", "student", "guardian"},
        fill : SUBSET Fields, clear : SUBSET Fields, score : Nat, nulls : BOOLEAN,
        name : Names \union {NULL}, id : StudentIds \union {NULL}, stale : BOOLEAN]]
  /\ met \subseteq StudentIds
  /\ torn \in BOOLEAN /\ faults \in Nat

\* The score counts the filled fields, unless it has not been written since
\* the profile was made, or the last update came after another one since it
\* read the profile, or gave a filled field as null.
ScoreCountsFields ==
  filled # NULL /\ ~estranged => score = Cardinality(filled)

\* The students of a parent have different names, unless one was renamed or
\* two requests that created them overlapped.
StudentNamesDiffer ==
  \A i, j \in Listed \ met : i # j => students[i].name # students[j].name

\* A profile comes with the role and a student with a guardian, unless the
\* request that makes them is in flight or was abandoned between the two.
NothingHalfMade ==
  \/ torn
  \/ \E r \in Requests : At(r, "role") \/ At(r, "guardian")
  \/ /\ filled # NULL => isTutor
     /\ \A i \in StudentIds : students[i] # NoStudent => students[i].guarded
=============================================================================
