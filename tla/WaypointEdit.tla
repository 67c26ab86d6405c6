---------------------------- MODULE WaypointEdit -----------------------------
(***************************************************************************)
(* Editing one waypoint from the trip page of several browser tabs.         *)
(*                                                                         *)
(* The page keeps a copy of the waypoint (hooks/useWaypoints.ts) and makes  *)
(* every PUT from that copy (app/trips/[id]/page.tsx).  update_waypoint     *)
(* (routes/v1/trips.rs) reads the row in one statement and overwrites it    *)
(* in another.  TanStack Query retries a mutation that fails for whatever   *)
(* reason, so what one call does may be done more than once, and late.      *)
(***************************************************************************)
EXTENDS Naturals, FiniteSets

CONSTANTS Page,     \* browser tabs on the trip page
          Call,     \* mutations in progress at a time
          Name,     \* names a waypoint may have
          Note,     \* notes a waypoint may have
          Stamp,    \* moments of time
          Retries,  \* defaultOptions.mutations.retry
          MaxLate,  \* bound: statements whose client has gone, at a time
          None      \* NULL, an absent row or value

ASSUME RetriesAssumption == Retries \in Nat /\ MaxLate \in Nat
ASSUME ValuesAssumption == None \notin Page \cup Call \cup Name \cup Note \cup Stamp

Row == [name : Name, notes : Note \cup {None}, visited : BOOLEAN,
        at : Stamp \cup {None}]

\* The call a page makes, with the retries it has behind it.
Input == [page : Page, op : {"put", "delete"}, name : Name \cup {None},
          visited : BOOLEAN, at : Stamp \cup {None}, tries : Nat]

ASSUME RecordAssumption == None \notin Row \cup Input

VARIABLES
    row,    \* the waypoint in the database
    by,     \* the page that wrote it last, None if that call was given up
    view,   \* each page's copy: its entry in the cached list
    fetch,  \* the list query of each page
    list,   \* the answer it brings
    call,   \* what each mutation sends, and how often it has been retried
    srv,    \* the statement its handler runs next, or its answer
    seen,   \* the row that handler read
    late    \* UPDATEs and DELETEs whose client has gone

vars == <<row, by, view, fetch, list, call, srv, seen, late>>
-----------------------------------------------------------------------------
\* GET /trips/{id}/waypoints has no notes; the client puts null there.
Flat(r) == IF r = None THEN None
           ELSE [name |-> r.name, notes |-> None, visited |-> r.visited,
                 at |-> r.at]

FetchState == {"idle", "asked", "failed", "answered"}
SrvState == {"none", "list", "update", "delete", "ok", "error"}

TypeOK ==
    /\ row \in Row \cup {None}
    /\ by \in Page \cup {None}
    /\ view \in [Page -> Row \cup {None}]
    /\ fetch \in [Page -> FetchState]
    /\ list \in [Page -> Row \cup {None}]
    /\ call \in [Call -> Input \cup {None}]
    /\ srv \in [Call -> SrvState]
    /\ seen \in [Call -> Row \cup {None}]
    /\ late \subseteq Row \cup {None}

Init ==
    /\ row \in {r \in Row : ~r.visited /\ r.at = None}
    /\ by = None
    /\ view = [p \in Page |-> Flat(row)]
    /\ fetch = [p \in Page |-> "idle"]
    /\ list = [p \in Page |-> None]
    /\ call = [c \in Call |-> None]
    /\ srv = [c \in Call |-> "none"]
    /\ seen = [c \in Call |-> None]
    /\ late = {}
-----------------------------------------------------------------------------
(* The page.                                                                *)

Send(c, input) ==
    /\ call[c] = None
    /\ call' = [call EXCEPT ![c] = input]
    /\ srv' = [srv EXCEPT ![c] = IF input.op = "put" THEN "list" ELSE "delete"]
    /\ UNCHANGED <<row, by, view, fetch, list, seen, late>>

\* handleToggleVisited: no visited_at.
Toggle(p, c) ==
    /\ view[p] # None
    /\ Send(c, [page |-> p, op |-> "put", name |-> view[p].name,
                visited |-> ~view[p].visited, at |-> None, tries |-> 0])

\* handleSaveWaypointName: visited and visited_at as the copy has them.
Rename(p, c, n) ==
    /\ view[p] # None
    /\ Send(c, [page |-> p, op |-> "put", name |-> n,
                visited |-> view[p].visited, at |-> view[p].at, tries |-> 0])

\* handleDeleteWaypointClick.
Remove(p, c) ==
    /\ view[p] # None
    /\ Send(c, [page |-> p, op |-> "delete", name |-> None,
                visited |-> FALSE, at |-> None, tries |-> 0])

\* Faulty: onSuccess, as useImportGpx has it.
OnSuccess(c) ==
    /\ call' = [call EXCEPT ![c] = None]
    /\ IF srv[c] = "ok"
       THEN /\ fetch' = [fetch EXCEPT ![call[c].page] = "asked"]
            /\ list' = [list EXCEPT ![call[c].page] = None]
       ELSE UNCHANGED <<fetch, list>>

\* Faulty: a fetch in flight is good enough.
KeepsFetch(c) ==
    /\ call' = [call EXCEPT ![c] = None]
    /\ IF fetch[call[c].page] \in {"idle", "failed"}
       THEN fetch' = [fetch EXCEPT ![call[c].page] = "asked"]
       ELSE UNCHANGED fetch
    /\ UNCHANGED list

\* onSettled: invalidateQueries drops a fetch in flight and starts another.
Settle(c) ==
    /\ call' = [call EXCEPT ![c] = None]
    /\ fetch' = [fetch EXCEPT ![call[c].page] = "asked"]
    /\ list' = [list EXCEPT ![call[c].page] = None]

\* A failed call is made again, at most Retries times, whatever the failure.
Retry(c) ==
    IF call[c].tries < Retries
    THEN /\ call' = [call EXCEPT ![c] = [page |-> call[c].page,
               op |-> call[c].op, name |-> call[c].name,
               visited |-> call[c].visited, at |-> call[c].at,
               tries |-> call[c].tries + 1]]
         /\ srv' = [srv EXCEPT ![c] =
                      IF call[c].op = "put" THEN "list" ELSE "delete"]
         /\ UNCHANGED <<fetch, list>>
    ELSE Settle(c) /\ srv' = [srv EXCEPT ![c] = "none"]

Return(c) ==
    /\ \/ srv[c] = "ok" /\ Settle(c) /\ srv' = [srv EXCEPT ![c] = "none"]
       \/ srv[c] = "error" /\ Retry(c)
    /\ seen' = [seen EXCEPT ![c] = None]
    /\ UNCHANGED <<row, by, view, late>>

\* The list query of a page: on focus, or asked for by a call that settled.
Focus(p) ==
    /\ fetch[p] \in {"idle", "failed"}
    /\ fetch' = [fetch EXCEPT ![p] = "asked"]
    /\ UNCHANGED <<row, by, view, list, call, srv, seen, late>>

Fetch(p) ==
    /\ fetch[p] = "asked"
    /\ \/ /\ fetch' = [fetch EXCEPT ![p] = "answered"]
          /\ list' = [list EXCEPT ![p] = Flat(row)]
       \/ /\ fetch' = [fetch EXCEPT ![p] = "failed"]
          /\ UNCHANGED list
    /\ UNCHANGED <<row, by, view, call, srv, seen, late>>

Fetched(p) ==
    /\ fetch[p] = "answered"
    /\ fetch' = [fetch EXCEPT ![p] = "idle"]
    /\ view' = [view EXCEPT ![p] = list[p]]
    /\ list' = [list EXCEPT ![p] = None]
    /\ UNCHANGED <<row, by, call, srv, seen, late>>
-----------------------------------------------------------------------------
(* The server.                                                              *)

\* list_waypoints and find.
List(c) ==
    /\ srv[c] = "list"
    /\ \/ /\ row = None
          /\ srv' = [srv EXCEPT ![c] = "error"]
          /\ UNCHANGED seen
       \/ /\ row # None
          /\ seen' = [seen EXCEPT ![c] = row]
          /\ srv' = [srv EXCEPT ![c] = "update"]
    /\ UNCHANGED <<row, by, view, fetch, list, call, late>>

\* Faulty: visited_at of an earlier visit only.
NeverStamps(input, old, t) ==
    IF ~input.visited THEN None ELSE IF input.at # None THEN input.at ELSE old.at

\* visited_at: cleared, given, kept, or now.
VisitedAt(input, old, t) ==
    IF ~input.visited THEN None
    ELSE IF input.at # None THEN input.at
    ELSE IF old.visited THEN old.at ELSE t

\* What update_waypoint writes, at t, having read old.
Written(input, old, t) ==
    [name |-> input.name, notes |-> None, visited |-> input.visited,
     at |-> VisitedAt(input, old, t)]

\* UPDATE waypoints, with every field.
Update(c) ==
    /\ srv[c] = "update"
    /\ \/ /\ row = None
          /\ srv' = [srv EXCEPT ![c] = "error"]
          /\ UNCHANGED <<row, by>>
       \/ /\ row # None
          /\ \E t \in Stamp : row' = Written(call[c], seen[c], t)
          /\ by' = call[c].page
          /\ srv' = [srv EXCEPT ![c] = "ok"]
    /\ UNCHANGED <<view, fetch, list, call, seen, late>>

\* DELETE FROM waypoints.
Delete(c) ==
    /\ srv[c] = "delete"
    /\ \/ /\ row = None
          /\ srv' = [srv EXCEPT ![c] = "error"]
          /\ UNCHANGED <<row, by>>
       \/ /\ row # None
          /\ row' = None
          /\ by' = call[c].page
          /\ srv' = [srv EXCEPT ![c] = "ok"]
    /\ UNCHANGED <<view, fetch, list, call, seen, late>>

\* Any statement may fail.
Fails(c) ==
    /\ srv[c] \in {"list", "update", "delete"}
    /\ srv' = [srv EXCEPT ![c] = "error"]
    /\ UNCHANGED <<row, by, view, fetch, list, call, seen, late>>

\* The connection to the client breaks: the answer is lost, or the handler is
\* dropped, and PostgreSQL may still carry out the statement it was sent.
Break(c) ==
    /\ srv[c] # "none"
    /\ \/ UNCHANGED late
       \/ /\ srv[c] = "update" /\ Cardinality(late) < MaxLate
          /\ \E t \in Stamp :
                late' = late \cup {Written(call[c], seen[c], t)}
       \/ /\ srv[c] = "delete" /\ Cardinality(late) < MaxLate
          /\ late' = late \cup {None}
    /\ Retry(c)
    /\ seen' = [seen EXCEPT ![c] = None]
    /\ UNCHANGED <<row, by, view>>

Land(r) ==
    /\ r \in late
    /\ late' = late \ {r}
    /\ IF row = None THEN UNCHANGED <<row, by>> ELSE row' = r /\ by' = None
    /\ UNCHANGED <<view, fetch, list, call, srv, seen>>

Next ==
    \/ \E p \in Page, c \in Call :
          \/ Toggle(p, c) \/ Remove(p, c)
          \/ \E n \in Name : Rename(p, c, n)
    \/ \E p \in Page : Focus(p) \/ Fetch(p) \/ Fetched(p)
    \/ \E c \in Call : \/ List(c) \/ Update(c) \/ Delete(c)
                       \/ Fails(c) \/ Break(c) \/ Return(c)
    \/ \E r \in late : Land(r)

Spec == Init /\ [][Next]_vars
-----------------------------------------------------------------------------
\* A waypoint has a time of visit exactly when it is visited, though calls
\* read the row, compute the time and write it in separate statements, and
\* pages send times from old copies (trips.rs:333).
VisitedStamped == row # None => (row.visited <=> row.at # None)

\* A page that has nothing in flight shows what its last call made of the
\* waypoint, unless somebody has written it since: also after a call that
\* failed for the client and not for the server (useWaypoints.ts:83).
OwnWritesShow ==
    \A p \in Page :
        /\ by = p /\ fetch[p] = "idle"
        /\ \A c \in Call : call[c] # None => call[c].page # p
        => view[p] = Flat(row)
=============================================================================
