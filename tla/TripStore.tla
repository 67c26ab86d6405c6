------------------------------ MODULE TripStore ------------------------------
(***************************************************************************)
(* The trip routes of vagabond-server over its PostgreSQL tables.           *)
(*                                                                         *)
(* A handler (routes/v1/trips.rs) is a sequence of SQL statements           *)
(* (repository/trip.rs).  Each statement outside import_gpx commits by      *)
(* itself, so handlers interleave between statements; import_gpx runs its   *)
(* inserts in one transaction.  A slot of the server runs one handler.      *)
(*                                                                         *)
(* The tables are functions from row identifiers (UUIDs, never drawn twice) *)
(* to rows.  As in PostgreSQL a row carries the transaction that wrote it:  *)
(* a slot while that slot's import is open, Done once committed.  An        *)
(* INSERT ... SELECT MAX(seq)+1 reads its snapshot in one step and touches  *)
(* the unique index and the foreign key in a later one.                     *)
(***************************************************************************)
EXTENDS Integers, Sequences, FiniteSets

CONSTANTS User, Trip, Leg, Waypoint, \* identifiers
          Slot,                      \* handlers the server runs at a time
          File,                      \* parsed GPX files: sequences of Item
          MaxItems,                  \* the most a file of 10 MB holds
          PoolSize,                  \* DB_MAX_CONNECTIONS
          None,                      \* SQL NULL, an absent row or argument
          Done                       \* the writer of every committed row

\* An insert import_gpx makes for a file.
Item == {"wpt", "route"}

ASSUME PoolAssumption == PoolSize \in Nat \ {0}
ASSUME FileAssumption ==
    File \subseteq Seq(Item) /\ \A f \in File : Len(f) <= MaxItems
ASSUME MaxItemsAssumption == MaxItems \in Nat
ASSUME IdAssumption == Trip \cap (Leg \cup Waypoint) = {}
ASSUME NoneAssumption ==
    None \notin User \cup Trip \cup Leg \cup Waypoint \cup Slot \cup File
ASSUME PageAssumption ==
    None \notin [owner : User,
                 legs : Seq([wpts : SUBSET Waypoint, routes : Nat])]
ASSUME DoneAssumption == Done \notin Slot \cup {None}

VARIABLES
    owner,  \* trips.user_id, None when the trip has no row
    legs,   \* trip_legs, with the number of routes hanging off each leg
    wpts,   \* waypoints
    drawn,  \* every identifier handed out so far
    req,    \* the request each slot serves
    pc,     \* the statement its handler runs next
    seqNo,   \* the MAX(seq) + 1 its snapshot gave
    new,    \* the row it inserted for its request
    todo,   \* the inserts of the file it has still to make
    live,   \* whether its client is still there
    out     \* the status it answered with

tables == <<owner, legs, wpts, drawn>>
locals == <<seqNo, new, todo, live>>
vars == <<owner, legs, wpts, drawn, req, pc, seqNo, new, todo, live, out>>
-----------------------------------------------------------------------------
Op == {"createTrip", "deleteTrip", "createLeg", "createWpt", "deleteWpt",
       "importGpx"}

Request == [op : Op, user : User, trip : Trip \cup {None},
            leg : Leg \cup {None}, wpt : Waypoint \cup {None},
            file : File \cup {None}]

\* What a client can put in a path and a body.  A file of None stands for
\* the ones refused before the transaction: missing, over 10 MB, not GPX.
Incoming ==
    {r \in Request :
        /\ r.trip = None <=> r.op = "createTrip"
        /\ r.leg = None <=> r.op \notin {"createWpt", "deleteWpt"}
        /\ r.wpt = None <=> r.op # "deleteWpt"
        /\ r.op # "importGpx" => r.file = None}

PC == {"idle", "tripInsert", "tripDelete", "deleting", "checkTrip",
       "checkLeg", "legSelect", "legInsert", "wptSelect", "wptInsert",
       "wptDelete", "items", "commit", "answered"}

Status == {"none", "ok", "notFound", "refused"}

NoLeg == [trip |-> None, seq |-> 0, routes |-> 0, tx |-> Done]
NoWpt == [leg |-> None, seq |-> 0, tx |-> Done]

LegRow == [trip : Trip \cup {None}, seq : Nat, routes : Nat,
           tx : Slot \cup {Done}]
WptRow == [leg : Leg \cup {None}, seq : Nat, tx : Slot \cup {Done}]

TypeOK ==
    /\ owner \in [Trip -> User \cup {None}]
    /\ legs \in [Leg -> LegRow]
    /\ wpts \in [Waypoint -> WptRow]
    /\ drawn \subseteq Trip \cup Leg \cup Waypoint
    /\ req \in [Slot -> Request \cup {None}]
    /\ pc \in [Slot -> PC]
    /\ seqNo \in [Slot -> Nat]
    /\ new \in [Slot -> Trip \cup Leg \cup Waypoint \cup {None}]
    /\ todo \in [Slot -> Seq(Item)]
    /\ live \in [Slot -> BOOLEAN]
    /\ out \in [Slot -> Status]
-----------------------------------------------------------------------------
(* What a statement of slot s sees: committed rows and its own.             *)
Sees(s, row) == row.tx \in {Done, s}
LegsOf(t, s) == {l \in Leg : legs[l].trip = t /\ Sees(s, legs[l])}
WptsOf(l, s) == {w \in Waypoint : wpts[w].leg = l /\ Sees(s, wpts[w])}

\* Faulty: MAX(seq) + 1 of no row is NULL.
NoCoalesce(S) == {n \in {None} \cup {k + 1 : k \in S} :
                    n = None <=> S = {}}

\* COALESCE(MAX(seq), 0) + 1, as the singleton that holds it.
NextSeq(S) == {n \in {1} \cup {k + 1 : k \in S} : \A k \in S : k < n}
NextLegSeq(t, s) == NextSeq({legs[l].seq : l \in LegsOf(t, s)})
NextWptSeq(l, s) == NextSeq({wpts[w].seq : w \in WptsOf(l, s)})

\* The rows of (trip_id, seq) and (leg_id, seq) in the unique indexes,
\* uncommitted ones included.
LegSeqTaken(t, n) == {l \in Leg : legs[l].trip = t /\ legs[l].seq = n}
WptSeqTaken(l, n) == {w \in Waypoint : wpts[w].leg = l /\ wpts[w].seq = n}

\* What those indexes let an INSERT through.  Faulty: no UNIQUE.
NoIndex(x, n) == TRUE
LegSeqFree(t, n) == LegSeqTaken(t, n) = {}
WptSeqFree(l, n) == WptSeqTaken(l, n) = {}

\* WHERE id = trip AND user_id = user.  Faulty: only WHERE id = trip.
AnyUsers(u, t) == t \in Trip /\ owner[t] # None
Owns(u, t) == t \in Trip /\ u # None /\ owner[t] = u
LegOwner(l) == IF legs[l].trip \in Trip THEN owner[legs[l].trip] ELSE None

\* The connections of the pool in use: by a statement in flight and by an
\* open transaction.
Holds(s) == pc[s] \in {"deleting", "legInsert", "wptInsert", "items", "commit"}
FreeConn == Cardinality({s \in Slot : Holds(s)}) < PoolSize

\* A statement runs on its transaction's connection, or on one of the pool.
\* Faulty: inside a transaction, but on the pool.
FromPool(s) == FreeConn
HasConn(s) == Holds(s) \/ FreeConn

\* An import holds FOR KEY SHARE on its trip from its leg's insert until it
\* ends; DELETE FROM trips waits for that lock.  Faulty: it does not.
NoRowLock(t) == FALSE
Locked(t) == \E l \in Leg : legs[l].trip = t /\ legs[l].tx # Done
-----------------------------------------------------------------------------
Init ==
    /\ owner = [t \in Trip |-> None]
    /\ legs = [l \in Leg |-> NoLeg]
    /\ wpts = [w \in Waypoint |-> NoWpt]
    /\ drawn = {}
    /\ req = [s \in Slot |-> None]
    /\ pc = [s \in Slot |-> "idle"]
    /\ seqNo = [s \in Slot |-> 0]
    /\ new = [s \in Slot |-> None]
    /\ todo = [s \in Slot |-> <<>>]
    /\ live = [s \in Slot |-> TRUE]
    /\ out = [s \in Slot |-> "none"]

Goto(s, label) == pc' = [pc EXCEPT ![s] = label] /\ UNCHANGED <<req, out>>

\* The handler returns: to the client, or to nobody when it has gone.
Answer(s, status) ==
    IF live[s]
    THEN /\ pc' = [pc EXCEPT ![s] = "answered"]
         /\ out' = [out EXCEPT ![s] = status]
         /\ UNCHANGED req
    ELSE /\ pc' = [pc EXCEPT ![s] = "idle"]
         /\ req' = [req EXCEPT ![s] = None]
         /\ UNCHANGED out

\* A statement has been carried out: the handler hears of it, or loses the
\* connection before it does and takes it for one that failed (map_db_err).
CarriedOut(s) == Answer(s, "ok") \/ Answer(s, "refused")

\* Faulty: the leg of an import committed on its own (create_leg).
LegOutsideTx(s) ==
    /\ legs' = [l \in Leg |-> IF legs[l].tx = s
                              THEN [trip |-> legs[l].trip, seq |-> legs[l].seq,
                                    routes |-> 0, tx |-> Done]
                              ELSE legs[l]]
    /\ wpts' = [w \in Waypoint |-> IF wpts[w].tx = s THEN NoWpt ELSE wpts[w]]
    /\ UNCHANGED <<owner, drawn>>

\* The transaction of s is dropped: every row it wrote goes.
Rollback(s) ==
    /\ legs' = [l \in Leg |-> IF legs[l].tx = s THEN NoLeg ELSE legs[l]]
    /\ wpts' = [w \in Waypoint |-> IF wpts[w].tx = s THEN NoWpt ELSE wpts[w]]
    /\ UNCHANGED <<owner, drawn>>

\* The bound of the model: once every identifier is drawn an insert fails, as
\* any statement may (StatementFails).
InsertFails(s, ids) ==
    /\ ids \subseteq drawn
    /\ Rollback(s)
    /\ Answer(s, "refused")
    /\ UNCHANGED locals

Started(op) ==
    IF op = "createTrip" THEN "tripInsert"
    ELSE IF op = "deleteTrip" THEN "tripDelete" ELSE "checkTrip"

\* A free slot takes a request.
Receive(s) ==
    /\ pc[s] \in {"idle", "answered"}
    /\ \E r \in Incoming :
        /\ req' = [req EXCEPT ![s] = r]
        /\ pc' = [pc EXCEPT ![s] = Started(r.op)]
    /\ seqNo' = [seqNo EXCEPT ![s] = 0]
    /\ new' = [new EXCEPT ![s] = None]
    /\ todo' = [todo EXCEPT ![s] = <<>>]
    /\ live' = [live EXCEPT ![s] = TRUE]
    /\ out' = [out EXCEPT ![s] = "none"]
    /\ UNCHANGED tables

\* trips::create: one INSERT.
CreateTrip(s) ==
    /\ pc[s] = "tripInsert" /\ HasConn(s)
    /\ \/ InsertFails(s, Trip)
       \/ /\ \E t \in Trip \ drawn :
              /\ owner' = [owner EXCEPT ![t] = req[s].user]
              /\ drawn' = drawn \cup {t}
              /\ new' = [new EXCEPT ![s] = t]
          /\ CarriedOut(s)
          /\ UNCHANGED <<legs, wpts, seqNo, todo, live>>

\* get_by_id_for_user, the first statement of every nested route; import_gpx
\* then reads its body.
AfterCheck(r) ==
    IF r.op \in {"createLeg", "importGpx"} THEN "legSelect" ELSE "checkLeg"

CheckTrip(s) ==
    /\ pc[s] = "checkTrip" /\ HasConn(s)
    /\ \/ /\ ~Owns(req[s].user, req[s].trip)
          /\ Answer(s, "notFound")
       \/ /\ Owns(req[s].user, req[s].trip)
          /\ req[s].op = "importGpx" /\ req[s].file = None
          /\ Answer(s, "refused")
       \/ /\ Owns(req[s].user, req[s].trip)
          /\ req[s].op = "importGpx" => req[s].file # None
          /\ Goto(s, AfterCheck(req[s]))
    /\ UNCHANGED <<tables, locals>>

\* ensure_leg_for_trip, then create_waypoint validates its body.
CheckLeg(s) ==
    LET found == /\ req[s].leg \in LegsOf(req[s].trip, s)
                 /\ Owns(req[s].user, req[s].trip)
    IN  /\ pc[s] = "checkLeg" /\ HasConn(s)
        /\ \/ ~found /\ Answer(s, "notFound")
           \/ found /\ req[s].op = "createWpt" /\ Answer(s, "refused")
           \/ found /\ req[s].op = "createWpt" /\ Goto(s, "wptSelect")
           \/ found /\ req[s].op = "deleteWpt" /\ Goto(s, "wptDelete")
        /\ UNCHANGED <<tables, locals>>

\* create_leg and create_leg_in_tx: the snapshot of INSERT ... SELECT.  For
\* import_gpx this is also BEGIN.
SelectLegSeq(s) ==
    LET t == req[s].trip
    IN  /\ pc[s] = "legSelect" /\ HasConn(s)
        /\ \/ /\ ~Owns(req[s].user, t)
              /\ Answer(s, "notFound")
              /\ UNCHANGED locals
           \/ /\ Owns(req[s].user, t)
              /\ \E n \in NextLegSeq(t, s) : seqNo' = [seqNo EXCEPT ![s] = n]
              /\ Goto(s, "legInsert")
              /\ UNCHANGED <<new, todo, live>>
        /\ UNCHANGED tables

\* Its insert: it waits for an open transaction that wrote the same key, then
\* fails on a committed one or on a trip deleted since the snapshot.
InsertLeg(s) ==
    LET t == req[s].trip
        n == seqNo[s]
    IN  /\ pc[s] = "legInsert"
        /\ \A l \in LegSeqTaken(t, n) : legs[l].tx = Done
        /\ \/ InsertFails(s, Leg)
           \/ /\ ~LegSeqFree(t, n) \/ owner[t] = None
              /\ Answer(s, "refused")
              /\ UNCHANGED <<tables, locals>>
           \/ /\ LegSeqFree(t, n) /\ owner[t] # None
              /\ \E l \in Leg \ drawn :
                  /\ drawn' = drawn \cup {l}
                  /\ new' = [new EXCEPT ![s] = l]
                  /\ \/ /\ req[s].op = "createLeg"
                        /\ legs' = [legs EXCEPT ![l] = [trip |-> t, seq |-> n,
                                                  routes |-> 0, tx |-> Done]]
                        /\ CarriedOut(s)
                        /\ UNCHANGED todo
                     \/ /\ req[s].op = "importGpx"
                        /\ legs' = [legs EXCEPT ![l] = [trip |-> t, seq |-> n,
                                                  routes |-> 0, tx |-> s]]
                        /\ todo' = [todo EXCEPT ![s] = req[s].file]
                        /\ Goto(s, "items")
              /\ UNCHANGED <<owner, wpts, seqNo, live>>

\* create_waypoint: the snapshot of its INSERT ... SELECT.
SelectWptSeq(s) ==
    LET l == req[s].leg
    IN  /\ pc[s] = "wptSelect" /\ HasConn(s)
        /\ \/ /\ LegOwner(l) # req[s].user
              /\ Answer(s, "notFound")
              /\ UNCHANGED locals
           \/ /\ LegOwner(l) = req[s].user
              /\ \E n \in NextWptSeq(l, s) : seqNo' = [seqNo EXCEPT ![s] = n]
              /\ Goto(s, "wptInsert")
              /\ UNCHANGED <<new, todo, live>>
        /\ UNCHANGED tables

\* Its insert.
InsertWpt(s) ==
    LET l == req[s].leg
        n == seqNo[s]
    IN  /\ pc[s] = "wptInsert"
        /\ \/ InsertFails(s, Waypoint)
           \/ /\ ~WptSeqFree(l, n) \/ legs[l].trip = None
              /\ Answer(s, "refused")
              /\ UNCHANGED <<tables, locals>>
           \/ /\ WptSeqFree(l, n) /\ legs[l].trip # None
              /\ \E w \in Waypoint \ drawn :
                  /\ wpts' = [wpts EXCEPT ![w] =
                                [leg |-> l, seq |-> n, tx |-> Done]]
                  /\ drawn' = drawn \cup {w}
                  /\ new' = [new EXCEPT ![s] = w]
              /\ CarriedOut(s)
              /\ UNCHANGED <<owner, legs, seqNo, todo, live>>

\* delete_waypoint: by id and owner, whatever leg the path names.
DeleteWpt(s) ==
    LET w == req[s].wpt
        found == /\ wpts[w].leg # None /\ Sees(s, wpts[w])
                 /\ LegOwner(wpts[w].leg) = req[s].user
    IN  /\ pc[s] = "wptDelete" /\ HasConn(s)
        /\ \/ /\ found
              /\ wpts' = [wpts EXCEPT ![w] = NoWpt]
              /\ CarriedOut(s)
           \/ /\ ~found
              /\ Answer(s, "notFound")
              /\ UNCHANGED wpts
        /\ UNCHANGED <<owner, legs, drawn, locals>>

\* delete_for_user takes a connection ...
StartDeleteTrip(s) ==
    /\ pc[s] = "tripDelete" /\ HasConn(s)
    /\ Goto(s, "deleting")
    /\ UNCHANGED <<tables, locals>>

\* ... waits for the imports that lock the row, and deletes it; the foreign
\* keys cascade to its legs, their waypoints and their routes.
\* Faulty: waypoints.leg_id without ON DELETE CASCADE.
LeaveWaypoints(t) ==
    /\ owner' = [owner EXCEPT ![t] = None]
    /\ legs' = [l \in Leg |-> IF legs[l].trip = t THEN NoLeg ELSE legs[l]]
    /\ UNCHANGED wpts

\* Faulty: the legs go in a statement before the trip's.
LegsFirst(t) ==
    LET gone == {l \in Leg : legs[l].trip = t}
    IN  /\ legs' = [l \in Leg |-> IF l \in gone THEN NoLeg ELSE legs[l]]
        /\ wpts' = [w \in Waypoint |->
                      IF wpts[w].leg \in gone THEN NoWpt ELSE wpts[w]]
        /\ UNCHANGED owner

Cascade(t) ==
    LET gone == {l \in Leg : legs[l].trip = t}
    IN  /\ owner' = [owner EXCEPT ![t] = None]
        /\ legs' = [l \in Leg |-> IF l \in gone THEN NoLeg ELSE legs[l]]
        /\ wpts' = [w \in Waypoint |->
                      IF wpts[w].leg \in gone THEN NoWpt ELSE wpts[w]]

DeleteTrip(s) ==
    LET t == req[s].trip
    IN  /\ pc[s] = "deleting"
        /\ \/ /\ ~Owns(req[s].user, t)
              /\ Answer(s, "notFound")
              /\ UNCHANGED tables
           \/ /\ Owns(req[s].user, t) /\ ~Locked(t)
              /\ Cascade(t)
              /\ CarriedOut(s)
              /\ UNCHANGED drawn
        /\ UNCHANGED locals
-----------------------------------------------------------------------------
(* import_gpx after its leg is inserted.                                    *)

\* create_waypoint_in_tx for the next waypoint or named point of the file.
ImportWpt(s) ==
    LET l == new[s]
    IN  /\ pc[s] = "items" /\ todo[s] # <<>> /\ Head(todo[s]) = "wpt" /\ HasConn(s)
        /\ \/ InsertFails(s, Waypoint)
           \/ /\ LegOwner(l) # req[s].user
              /\ Rollback(s)
              /\ Answer(s, "notFound")
              /\ UNCHANGED locals
           \/ /\ LegOwner(l) = req[s].user
              /\ \E w \in Waypoint \ drawn, n \in NextWptSeq(l, s) :
                  /\ wpts' = [wpts EXCEPT ![w] =
                                [leg |-> l, seq |-> n, tx |-> s]]
                  /\ drawn' = drawn \cup {w}
              /\ todo' = [todo EXCEPT ![s] = Tail(todo[s])]
              /\ UNCHANGED <<owner, legs, req, pc, seqNo, new, live, out>>

\* create_route_in_tx for a route or track of at least two points.
ImportRoute(s) ==
    LET l == new[s]
    IN  /\ pc[s] = "items" /\ todo[s] # <<>> /\ Head(todo[s]) = "route" /\ HasConn(s)
        /\ legs' = [legs EXCEPT ![l] = [trip |-> legs[l].trip,
                                        seq |-> legs[l].seq,
                                        routes |-> legs[l].routes + 1,
                                        tx |-> s]]
        /\ todo' = [todo EXCEPT ![s] = Tail(todo[s])]
        /\ UNCHANGED <<owner, wpts, drawn, req, pc, seqNo, new, live, out>>

\* waypoints_imported = 0 and routes_imported = 0.
NothingImported(s) ==
    legs[new[s]].routes = 0 /\ \A w \in Waypoint : wpts[w].tx # s

ImportEnds(s) ==
    /\ pc[s] = "items" /\ todo[s] = <<>>
    /\ \/ /\ NothingImported(s)
          /\ Rollback(s)
          /\ Answer(s, "refused")
       \/ /\ ~NothingImported(s)
          /\ Goto(s, "commit")
          /\ UNCHANGED tables
    /\ UNCHANGED locals

Commit(s) ==
    /\ pc[s] = "commit"
    /\ legs' = [l \in Leg |->
                  IF legs[l].tx = s
                  THEN [trip |-> legs[l].trip, seq |-> legs[l].seq,
                        routes |-> legs[l].routes, tx |-> Done]
                  ELSE legs[l]]
    /\ wpts' = [w \in Waypoint |->
                  IF wpts[w].tx = s
                  THEN [leg |-> wpts[w].leg, seq |-> wpts[w].seq, tx |-> Done]
                  ELSE wpts[w]]
    /\ CarriedOut(s)
    /\ UNCHANGED <<owner, drawn, locals>>
-----------------------------------------------------------------------------
(* What the client and the pool do to a handler.                            *)

\* Any statement may fail and leave nothing behind: no connection within the
\* acquire timeout, or an error of PostgreSQL.  map_db_err turns it into 422
\* and `?` returns, which drops an open transaction.  A failure that comes
\* after the statement was carried out is in CarriedOut.
StatementFails(s) ==
    /\ pc[s] \notin {"idle", "answered"}
    /\ Rollback(s)
    /\ Answer(s, "refused")
    /\ UNCHANGED locals

\* A statement that PostgreSQL carries out even if its client goes away.
InFlight(s) ==
    \/ pc[s] \in {"deleting", "wptInsert", "commit"}
    \/ pc[s] = "legInsert" /\ req[s].op = "createLeg"

\* Faulty: the connection goes back to the pool with its transaction open.
LeaveOpen(s) ==
    /\ pc' = [pc EXCEPT ![s] = "idle"]
    /\ req' = [req EXCEPT ![s] = None]
    /\ UNCHANGED <<tables, locals, out>>

Vanish(s) ==
    /\ pc' = [pc EXCEPT ![s] = "idle"]
    /\ req' = [req EXCEPT ![s] = None]
    /\ Rollback(s)
    /\ UNCHANGED <<locals, out>>

\* The connection to the client closes, or the server stops: the handler's
\* future is dropped where it awaits.  For the tables this is also a handler
\* that loses its connection and answers while its statement goes on.
Abandon(s) ==
    /\ pc[s] \notin {"idle", "answered"} /\ live[s]
    /\ \/ Vanish(s)
       \/ /\ InFlight(s)
          /\ live' = [live EXCEPT ![s] = FALSE]
          /\ UNCHANGED <<tables, req, pc, seqNo, new, todo, out>>

Handle(s) ==
    \/ CreateTrip(s) \/ StartDeleteTrip(s) \/ DeleteTrip(s)
    \/ CheckTrip(s) \/ CheckLeg(s)
    \/ SelectLegSeq(s) \/ InsertLeg(s)
    \/ SelectWptSeq(s) \/ InsertWpt(s) \/ DeleteWpt(s)
    \/ ImportWpt(s) \/ ImportRoute(s) \/ ImportEnds(s) \/ Commit(s)

Next == \E s \in Slot :
    Receive(s) \/ Handle(s) \/ StatementFails(s) \/ Abandon(s)

\* The runtime polls every handler, PostgreSQL finishes every statement, and
\* its lock queue and sqlx's pool serve waiters in turn (hence strong
\* fairness: what a waiter needs may come and go).  Clients owe nothing.
Fairness == \A s \in Slot : SF_vars(Handle(s))

Spec == Init /\ [][Next]_vars
FairSpec == Spec /\ Fairness
-----------------------------------------------------------------------------
(* Safety.                                                                  *)

CommittedSeqs(t) ==
    {legs[l].seq : l \in {m \in Leg : legs[m].trip = t /\ legs[m].tx = Done}}

\* The legs of a trip are numbered 1, 2, 3, ... with no gap and no repeat, in
\* spite of concurrent MAX(seq)+1 inserts, of imports that roll back and of
\* trips deleted between a snapshot and its insert (trip.rs:295, 328).
LegsNumbered ==
    \A l \in Leg : legs[l].trip # None =>
        /\ LegSeqTaken(legs[l].trip, legs[l].seq) = {l}
        /\ legs[l].seq > 0
        /\ \A k \in 1 .. legs[l].seq - 1 : k \in CommittedSeqs(legs[l].trip)

\* The waypoints of a leg never share a number, whoever inserts them.
WptsDistinct ==
    \A w \in Waypoint : wpts[w].leg # None =>
        WptSeqTaken(wpts[w].leg, wpts[w].seq) = {w} /\ wpts[w].seq > 0

\* No row outlives its parent: a cascade never misses a leg or a waypoint that
\* another handler was inserting (migrations/0002_core_schema.sql:57-80).
NoOrphans ==
    /\ \A l \in Leg : legs[l].trip # None => owner[legs[l].trip] # None
    /\ \A w \in Waypoint :
        wpts[w].leg # None => legs[wpts[w].leg].trip # None

\* While an import is open nobody can delete its trip or its leg, so none of
\* its later inserts can fail for want of them (trips.rs:571-643).
ImportPinsTrip ==
    \A s \in Slot : pc[s] \in {"items", "commit"} =>
        LegOwner(new[s]) = req[s].user

\* Readers see an import whole or not at all: uncommitted rows belong to an
\* import still running, and a visible waypoint hangs off a visible leg.
NoPartialImport ==
    /\ \A l \in Leg : legs[l].tx # Done =>
        pc[legs[l].tx] \in {"items", "commit"} /\ new[legs[l].tx] = l
    /\ \A w \in Waypoint : wpts[w].leg # None =>
        wpts[w].tx = legs[wpts[w].leg].tx

\* What makes the four invariants above inductive.  Absent rows, rows and
\* identifiers agree; ...
RowsInv ==
    /\ \A t \in Trip : owner[t] # None => t \in drawn
    /\ \A l \in Leg : IF legs[l].trip = None THEN legs[l].tx = Done
                                            ELSE l \in drawn
    /\ \A w \in Waypoint : IF wpts[w].leg = None THEN wpts[w].tx = Done
                                                ELSE w \in drawn

\* ... an open import has written its leg, on a trip of its user; ...
OpenInv ==
    \A s \in Slot : pc[s] \in {"items", "commit"} =>
        /\ legs[new[s]].tx = s
        /\ legs[new[s]].trip = req[s].trip
        /\ owner[req[s].trip] = req[s].user

\* ... and what a handler read before its insert is still so when it inserts,
\* unless the trip has been deleted.
Ready(s) ==
    /\ pc[s] = "legInsert" =>
          /\ req[s].trip \in drawn /\ seqNo[s] > 0
          /\ owner[req[s].trip] \in {req[s].user, None}
          /\ owner[req[s].trip] # None =>
                \A k \in 1 .. seqNo[s] - 1 : k \in CommittedSeqs(req[s].trip)
    /\ pc[s] \in {"wptSelect", "wptInsert"} =>
          req[s].leg \in drawn /\ legs[req[s].leg].tx = Done
    /\ pc[s] = "wptInsert" => seqNo[s] > 0

PendingInv == \A s \in Slot : Ready(s)

StoreInv ==
    /\ RowsInv /\ OpenInv /\ PendingInv
    /\ LegsNumbered /\ WptsDistinct /\ NoOrphans /\ NoPartialImport

\* A leg is there in full: committed, with every insert of its file.
WholeLeg(s) == /\ new[s] \in Leg /\ todo[s] = <<>>
               /\ legs[new[s]].trip = req[s].trip /\ legs[new[s]].tx = Done

\* A leg or an import answered 201 has a whole leg, there for as long as its
\* trip is; one answered 404 has left nothing.  One answered 422 has left
\* nothing or, when the answer to its COMMIT was lost, a whole leg
\* (trip.rs:107, trips.rs:653): never a part of it, and never an open one.
AnswerMatchesTables ==
    \A s \in Slot :
        pc[s] = "answered" /\ req[s].op \in {"createLeg", "importGpx"} =>
            IF out[s] = "ok"
            THEN WholeLeg(s) \/ (new[s] \in Leg /\ owner[req[s].trip] = None)
            ELSE \/ new[s] # None => legs[new[s]].trip = None
                 \/ out[s] = "refused" /\ WholeLeg(s)

\* Who the rows of a leg belong to, before a step or after it.
Stakeholder(l) == IF legs[l].trip # None THEN LegOwner(l) ELSE LegOwner(l)'

WritesOwn(s) ==
    /\ \A t \in Trip : owner'[t] # owner[t] =>
          req[s].user \in {owner[t], owner'[t]}
    /\ \A l \in Leg : legs'[l] # legs[l] => Stakeholder(l) = req[s].user
    /\ \A w \in Waypoint : wpts'[w] # wpts[w] =>
          \E l \in Leg : /\ l \in {wpts[w].leg, wpts'[w].leg}
                         /\ Stakeholder(l) = req[s].user

\* A handler changes only rows of the user it serves (the user_id conditions
\* of every statement, and the two checks before it).
OnlyOwnerWrites ==
    [][\A s \in Slot : pc'[s] # pc[s] \/ todo'[s] # todo[s] =>
        WritesOwn(s)]_vars

\* The book of TripBook the committed rows stand for: each leg of a trip at
\* the place its number gives it.
Committed(l, t) == legs[l].trip = t /\ legs[l].tx = Done
LegAt(t, i) == CHOOSE l \in Leg : Committed(l, t) /\ legs[l].seq = i
Length(t) == Cardinality(CommittedSeqs(t))
Contents(l) == [wpts |-> {w \in Waypoint : wpts[w].leg = l},
                routes |-> legs[l].routes]
Page(t) == [owner |-> owner[t],
            legs |-> [i \in 1 .. Length(t) |-> Contents(LegAt(t, i))]]

Book == [t \in Trip |-> IF owner[t] = None THEN None ELSE Page(t)]
Closed == {t \in Trip : t \in drawn /\ owner[t] = None}

Abstract == INSTANCE TripBook WITH book <- Book, closed <- Closed,
                                   MaxRoutes <- MaxItems

\* However the statements of concurrent requests interleave, the committed
\* tables change as if each request ran by itself, at one moment.
ImplementsBook == Abstract!Spec

\* Liveness: no request waits for ever, not on the pool, not on an open
\* import's keys, not on its lock on the trip.
EveryRequestEnds ==
    \A s \in Slot : pc[s] \notin {"idle", "answered"}
                        ~> pc[s] \in {"idle", "answered"}
=============================================================================
