------------------------------ MODULE ListPages ------------------------------
(***************************************************************************)
(* A page of the web client that shows a list and loads more of it, with   *)
(* the pages the server answers: the search of tutors, the lists of the    *)
(* administrators and the queue of reviews to moderate.                    *)
(*                                                                         *)
(* A row is the query it answers and its position; the rows of a query do  *)
(* not change.  A cursor is the number of rows before it: the search and   *)
(* the administrators' lists send the id of the last row, the reviews an   *)
(* offset.  The search takes a new sort for its next request only, the     *)
(* others fetch anew when their filters change.                            *)
(***************************************************************************)
EXTENDS Naturals, Sequences, FiniteSets, FiniteSetsExt

CONSTANTS
  Hooks,    \* of "search", "admin" and "reviews"
  Queries,  \* sorts, or filters; the first is asked for when the page opens
  First,
  MaxRows,  \* bound on the rows of a query
  Limit,    \* rows of a page
  Fetches,  \* requests the page has in flight at the same time
  NULL

VARIABLES
  hook,     \* whose page this is
  total,    \* how many rows a query has
  query,    \* the query the page would ask
  shown,    \* the rows on the page
  next,     \* cursor of the page that follows, NULL when there is none
  loading,  \* a first page is being loaded
  more,     \* a further page is being loaded (search)
  fetches,  \* the requests in flight
  mixed     \* history: since the first page shown was asked for the query
            \* changed, or two requests that none cancels were in flight

vars == <<hook, total, query, shown, next, loading, more, fetches, mixed>>

NoFetch == [query |-> NULL, cursor |-> 0, append |-> FALSE, aborted |-> FALSE]
InFlight == {f \in Fetches : fetches[f] # NoFetch}

Row(q, i) == [query |-> q, place |-> i]
Rows(q, from, to) == [i \in 1..(to - from) |-> Row(q, from + i)]

-----------------------------------------------------------------------------
(* The server. *)

PageEnd(cursor) == Min({cursor + Limit, total})

\* The cursor of the page that follows: for reviews what a full page implies,
\* its own length.  A full last page of a search implies one too; no tutor has
\* such an id, and nothing follows it.
NextCursor(cursor) ==
  LET end == PageEnd(cursor) IN
  IF hook = "reviews" THEN IF end - cursor = Limit THEN Limit ELSE NULL
  ELSE IF end < total THEN end
  ELSE IF hook = "search" /\ end - cursor = Limit THEN total
  ELSE NULL

-----------------------------------------------------------------------------
(* The hook. *)

\* The search cancels the request before, whatever it was for.
Send(f, q, cursor, append) ==
  /\ fetches[f] = NoFetch
  /\ fetches' = [g \in Fetches |->
                   IF g = f THEN [NoFetch EXCEPT !.query = q, !.cursor = cursor, !.append = append]
                   ELSE IF hook = "search" /\ g \in InFlight THEN [fetches[g] EXCEPT !.aborted = TRUE]
                   ELSE fetches[g]]

\* Retrying, or refreshing: the first page of the query.
FetchFirst(f) ==
  /\ Send(f, query, 0, FALSE)
  /\ loading' = TRUE
  /\ mixed' = (mixed \/ (hook # "search" /\ InFlight # {}))
  /\ UNCHANGED <<hook, total, query, shown, next, more>>

ChangeSort(q) ==
  /\ hook = "search"
  /\ query' = q
  /\ mixed' = TRUE
  /\ UNCHANGED <<hook, total, shown, next, loading, more, fetches>>

\* Clearing the filters of the search also fetches.
ChangeFilters(f, q) ==
  /\ hook = "search" => q = First
  /\ query' = q
  /\ Send(f, q, 0, FALSE)
  /\ loading' = TRUE
  /\ mixed' = TRUE
  /\ UNCHANGED <<hook, total, shown, next, more>>

LoadMore(f) ==
  /\ next # NULL /\ ~loading /\ ~more
  /\ Send(f, query, next, TRUE)
  /\ more' = (hook = "search")
  /\ mixed' = (mixed \/ (hook # "search" /\ InFlight # {}))
  /\ UNCHANGED <<hook, total, query, shown, next, loading>>

\* Mutant: an answer counts although its request was cancelled.
RespondToAll(f) ==
  /\ f \in InFlight
  /\ fetches' = [fetches EXCEPT ![f] = NoFetch]
  /\ LET rows == Rows(fetches[f].query, fetches[f].cursor, PageEnd(fetches[f].cursor)) IN
     IF fetches[f].append
       THEN shown' = shown \o rows /\ UNCHANGED mixed
       ELSE /\ shown' = rows
            /\ mixed' = (fetches[f].query # query \/ (hook # "search" /\ InFlight # {f}))
  /\ next' = NextCursor(fetches[f].cursor)
  /\ loading' = FALSE /\ more' = FALSE
  /\ UNCHANGED <<hook, total, query>>

Respond(f) ==
  /\ f \in InFlight
  /\ fetches' = [fetches EXCEPT ![f] = NoFetch]
  /\ IF fetches[f].aborted
       THEN UNCHANGED <<shown, next, loading, more, mixed>>
       ELSE /\ LET rows == Rows(fetches[f].query, fetches[f].cursor, PageEnd(fetches[f].cursor)) IN
               IF fetches[f].append
                 THEN shown' = shown \o rows /\ UNCHANGED mixed
                 ELSE /\ shown' = rows
                      /\ mixed' = (fetches[f].query # query \/ (hook # "search" /\ InFlight # {f}))
            /\ next' = NextCursor(fetches[f].cursor)
            /\ loading' = FALSE /\ more' = FALSE
  /\ UNCHANGED <<hook, total, query>>

\* The rows and the cursor stay; the search page shows the error in place of
\* the rows until it asks again.
Fail(f) ==
  /\ f \in InFlight
  /\ fetches' = [fetches EXCEPT ![f] = NoFetch]
  /\ IF fetches[f].aborted
       THEN UNCHANGED <<loading, more>>
       ELSE loading' = FALSE /\ more' = FALSE
  /\ UNCHANGED <<hook, total, query, shown, next, mixed>>

\* The page opens with a request for the first page.
Init ==
  /\ hook \in Hooks /\ total \in 0..MaxRows
  /\ query = First
  /\ shown = <<>> /\ next = NULL
  /\ loading = TRUE /\ more = FALSE
  /\ \E f \in Fetches :
       fetches = [g \in Fetches |-> IF g = f THEN [NoFetch EXCEPT !.query = First] ELSE NoFetch]
  /\ mixed = FALSE

Next ==
  \/ \E q \in Queries : ChangeSort(q)
  \/ \E f \in Fetches :
       \/ FetchFirst(f) \/ LoadMore(f) \/ Respond(f) \/ Fail(f)
       \/ \E q \in Queries : ChangeFilters(f, q)

Spec == Init /\ [][Next]_vars

-----------------------------------------------------------------------------
(* Properties. *)

Places == 1..MaxRows

\* Everything on the page holds a value of its type, and the pages end.
TypeOK ==
  /\ hook \in Hooks /\ total \in 0..MaxRows /\ query \in Queries
  /\ \A i \in DOMAIN shown : shown[i] \in [query : Queries, place : Places]
  /\ next \in 0..MaxRows \union {NULL}
  /\ loading \in BOOLEAN /\ more \in BOOLEAN /\ mixed \in BOOLEAN
  /\ fetches \in [Fetches -> [query : Queries \union {NULL}, cursor : 0..MaxRows,
                              append : BOOLEAN, aborted : BOOLEAN]]

\* The page shows the first rows of its query, in order, each once, and all
\* of them when nothing is said to follow.
IsPrefix ==
  /\ shown = Rows(query, 0, Len(shown))
  /\ next = NULL /\ shown # <<>> => Len(shown) = total

\* So do the search and the administrators' lists, unless the query changed
\* since the first page was asked for or two of the latter's requests
\* overlapped; a request the search cancelled adds nothing.
ListIsPrefix == hook # "reviews" /\ ~mixed => IsPrefix

\* So do the reviews.
ReviewsArePrefix == hook = "reviews" /\ ~mixed => IsPrefix
=============================================================================
