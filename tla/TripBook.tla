------------------------------ MODULE TripBook -------------------------------
(***************************************************************************)
(* What the trip routes promise a client, one request at a time: a book of  *)
(* trips, each the property of one user, each a list of legs to which       *)
(* requests append, each leg a set of waypoints and a number of routes.     *)
(* Every request takes effect at once or not at all (US-001 to US-003).     *)
(***************************************************************************)
EXTENDS Naturals, Sequences

CONSTANTS User, Trip, Waypoint,
          MaxRoutes,    \* the most routes one file brings
          None          \* no such trip

VARIABLES book,         \* the trips, by identifier
          closed        \* the identifiers of deleted trips

Contents == [wpts : SUBSET Waypoint, routes : 0 .. MaxRoutes]

bookVars == <<book, closed>>

InBook(w) == \E t \in Trip : book[t] # None
                /\ \E i \in DOMAIN book[t].legs : w \in book[t].legs[i].wpts

Init == book = [t \in Trip |-> None] /\ closed = {}

\* POST /trips: a new trip, under an identifier never seen before.
Open(u, t) ==
    /\ book[t] = None /\ t \notin closed
    /\ book' = [book EXCEPT ![t] = [owner |-> u, legs |-> <<>>]]
    /\ UNCHANGED closed

\* DELETE /trips/{id}: the trip with everything in it.
Close(u, t) ==
    /\ book[t] # None /\ book[t].owner = u
    /\ book' = [book EXCEPT ![t] = None]
    /\ closed' = closed \cup {t}

\* POST .../legs and POST .../import/gpx: a leg at the end of the list, empty
\* or with all of a file in it.
AppendLeg(u, t) ==
    /\ book[t] # None /\ book[t].owner = u
    /\ \E leg \in Contents :
        /\ \A w \in leg.wpts : ~InBook(w)
        /\ book' = [book EXCEPT ![t].legs = Append(book[t].legs, leg)]
    /\ UNCHANGED closed

\* POST .../waypoints.
AddWaypoint(u, t, i, w) ==
    /\ book[t] # None /\ book[t].owner = u
    /\ i \in DOMAIN book[t].legs /\ ~InBook(w)
    /\ book' = [book EXCEPT ![t].legs[i].wpts =
                              book[t].legs[i].wpts \cup {w}]
    /\ UNCHANGED closed

\* DELETE .../waypoints/{id}.
RemoveWaypoint(u, t, i, w) ==
    /\ book[t] # None /\ book[t].owner = u
    /\ i \in DOMAIN book[t].legs /\ w \in book[t].legs[i].wpts
    /\ book' = [book EXCEPT ![t].legs[i].wpts = book[t].legs[i].wpts \ {w}]
    /\ UNCHANGED closed

Next == \E u \in User, t \in Trip :
    \/ Open(u, t) \/ Close(u, t) \/ AppendLeg(u, t)
    \/ book[t] # None /\ \E i \in DOMAIN book[t].legs, w \in Waypoint :
          AddWaypoint(u, t, i, w) \/ RemoveWaypoint(u, t, i, w)

Spec == Init /\ [][Next]_bookVars
=============================================================================
