----------------------------- MODULE TripPoints -----------------------------
(***************************************************************************)
(* How the page of a trip gets new waypoints (app/trips/[id]/page.tsx): a   *)
(* click on the map and the dialog of components/trips/AddWaypointDialog,   *)
(* which looks for a leg, makes one when there is none, and then makes the  *)
(* waypoint; or a GPX file and ImportGpxDialog.  The calls are those of     *)
(* hooks/useWaypoints.ts.                                                   *)
(*                                                                         *)
(* Escape closes either dialog at any time; what was sent goes on.  The     *)
(* list of waypoints that the calls ask for again is in WaypointEdit.       *)
(***************************************************************************)
EXTENDS QueryClient, FiniteSets

CONSTANTS Place, File,
          Add, Imp,    \* confirmed adds, and imports, under way at a time
          MaxCalls,    \* bound: adds and imports confirmed in all
          MaxLegs,     \* bound: legs of the trip
          MaxRows      \* bound: waypoints made in all

LegsAssumption ==
    /\ MaxLegs \in Nat \ {0} /\ MaxRows \in Nat \ {0} /\ MaxCalls \in Nat
    /\ None \notin Nat /\ None \notin Imp

Leg == 1 .. MaxLegs
\* Waypoints; those of a file have no place of their own here.
Row == [id : 1 .. MaxRows, leg : Leg, at : Place \cup {None}]
\* A confirmed add: its place, the legs that were listed (None: awaited) or
\* the leg that was made, the newest leg the page had heard of, whether the
\* list was behind, its mutation.
Adding == [at : Place, leg : 0 .. MaxLegs \cup {None}, after : 0 .. MaxLegs,
           behind : BOOLEAN,
           m : Mutation({"leg", "point"}, Leg \cup {None}) \cup {None}]

VARIABLES
    legs,      \* the legs of the trip are 1 .. legs, in the order of seq
    rows,      \* its waypoints
    made,      \* how many there have been
    legsQuery, \* useTripLegs(): how many legs
    fresh,     \* it is younger than staleTime and not invalidated
    adding,    \* addingWaypoint: the map listens
    dialog,    \* addDialogOpen
    place,     \* pendingLon, pendingLat
    add,       \* the adds under way
    latest,    \* the one that last began to make a leg, and a waypoint
    file,      \* importGpxFile: its dialog is open
    imp,       \* the imports under way
    sent,      \* how many adds and imports there have been
    watch,     \* the import whose mutation importGpxMutation shows
    impError,  \* importGpxErrorMessage
    banner,    \* importSuccessBanner
    confirmed, \* the places that were confirmed
    newest     \* the newest leg that an answer told of

server == <<legs, rows, made>>
adder == <<adding, dialog, place>>
adds == <<add, latest>>
importer == <<file, watch, impError, banner>>
ghosts == <<confirmed, newest>>
vars == <<server, legsQuery, fresh, adder, adds, imp, sent, importer, ghosts>>

TypeOK ==
    /\ legs \in 0 .. MaxLegs
    /\ rows \subseteq Row /\ made \in 0 .. MaxRows
    /\ legsQuery \in Query(0 .. MaxLegs \cup {None}) /\ fresh \in BOOLEAN
    /\ adding \in BOOLEAN /\ dialog \in BOOLEAN /\ place \in Place \cup {None}
    /\ add \in [Add -> Adding \cup {None}]
    /\ latest \in [{"leg", "point"} -> Add \cup {None}]
    /\ file \in File \cup {None}
    /\ imp \in [Imp -> Mutation(File, Leg \cup {None}) \cup {None}]
    /\ sent \in 0 .. MaxCalls
    /\ watch \in Imp \cup {None} /\ impError \in BOOLEAN
    /\ banner \in File \cup {None}
    /\ confirmed \subseteq Place /\ newest \in 0 .. MaxLegs
-----------------------------------------------------------------------------
(* The list of legs.                                                        *)

\* invalidateQueries
Invalidate == legsQuery' = Asked(legsQuery) /\ fresh' = FALSE

Init ==
    /\ legs \in 0 .. 1 /\ rows = {} /\ made = 0
    /\ legsQuery = Opened /\ fresh = FALSE
    /\ adding = FALSE /\ dialog = FALSE /\ place = None
    /\ add = [a \in Add |-> None]
    /\ latest = [k \in {"leg", "point"} |-> None]
    /\ file = None /\ imp = [i \in Imp |-> None] /\ sent = 0
    /\ watch = None /\ impError = FALSE /\ banner = None
    /\ confirmed = {} /\ newest = 0

Waits(a) == add[a] # None /\ add[a].leg = None

\* The legs arrive, also at the adds that wait for them.
LegsCame ==
    /\ legsQuery.st = "answered"
    /\ legsQuery' = Arrived(legsQuery) /\ fresh' = TRUE
    /\ add' = [a \in Add |->
          IF Waits(a) THEN [add[a] EXCEPT !.leg = legsQuery.got,
                                          !.behind = legsQuery.behind]
          ELSE add[a]]
    /\ UNCHANGED <<server, adder, imp, sent, importer,
                   ghosts, latest>>

\* No one is told when an add fails: handleConfirmAddWaypoint throws into void.
LegsFail ==
    /\ legsQuery.st = "asked"
    /\ legsQuery' = Failed(legsQuery)
    /\ add' = [a \in Add |-> IF Waits(a) THEN None ELSE add[a]]
    /\ UNCHANGED <<server, fresh, adder, imp, sent, importer,
                   ghosts, latest>>

\* staleTime passes.
LegsAge ==
    /\ fresh
    /\ fresh' = FALSE
    /\ UNCHANGED <<server, legsQuery, adder, adds, imp, sent, importer, ghosts>>
-----------------------------------------------------------------------------
(* A click on the map.                                                      *)

\* + Add Waypoint, Cancel.
ToggleAdding ==
    /\ ~dialog /\ file = None
    /\ adding' = ~adding
    /\ UNCHANGED <<server, legsQuery, fresh, dialog, place, adds, imp,
                   sent, importer, ghosts>>

HandleMapClick(p) ==
    /\ ~dialog /\ file = None /\ adding
    /\ place' = p /\ dialog' = TRUE
    /\ UNCHANGED <<server, legsQuery, fresh, adding, adds, imp,
                   sent, importer, ghosts>>

\* addWaypointPending: not while the legs are awaited, and each of the two
\* mutations knows only of the last call of its mutateAsync.
AddPending == \E k \in {"leg", "point"} : latest[k] # None

HandleCancelAddWaypoint ==
    /\ dialog
    /\ dialog' = FALSE /\ adding' = FALSE
    /\ UNCHANGED <<server, legsQuery, fresh, place, adds, imp,
                   sent, importer, ghosts>>

\* fetchQuery: legs that are fresh are not asked for, and legs on their way
\* are awaited.
ResolveLeg(a) ==
    /\ add' = [add EXCEPT ![a] =
          [at |-> place, after |-> newest, m |-> None,
           leg |-> IF fresh THEN legsQuery.data ELSE None,
           behind |-> fresh /\ legsQuery.behind]]
    /\ legsQuery' = IF ~fresh /\ legsQuery.st = "idle" THEN Asked(legsQuery)
                    ELSE legsQuery

\* Save waypoint, with a name.
HandleConfirmAddWaypoint(a) ==
    /\ dialog /\ ~AddPending
    /\ sent < MaxCalls /\ add[a] = None
    /\ ResolveLeg(a)
    /\ sent' = sent + 1 /\ confirmed' = confirmed \cup {place}
    /\ UNCHANGED <<server, fresh, adder, latest, imp, importer, newest>>

\* createLeg of a trip without legs, or createWaypoint on the last leg.
Go(a) ==
    /\ add[a] # None /\ add[a].leg # None /\ add[a].m = None
    /\ LET k == IF add[a].leg = 0 THEN "leg" ELSE "point" IN
       /\ add' = [add EXCEPT ![a].m = Started(k)]
       /\ latest' = [latest EXCEPT ![k] = a]
    /\ UNCHANGED <<server, legsQuery, fresh, adder, imp, sent,
                   importer, ghosts>>

\* Faulty: the place that was clicked last.
LatestPlace(r) == place

\* pendingLon and pendingLat of the render that the dialog was confirmed in.
PlaceOf(r) == r.at

Told(l) == newest' = IF l > newest THEN l ELSE newest

\* useCreateLeg, useCreateWaypoint: onSettled.
AfterAdd(m) == Invalidate

\* The mutation of an add ends, watched or not.
Ended(a) ==
    [k \in {"leg", "point"} |-> IF latest[k] = a THEN None ELSE latest[k]]

AddReturns(a) ==
    /\ add[a] # None /\ add[a].m # None /\ add[a].m.st # "sent"
    /\ AfterAdd(add[a].m)
    /\ LET r == add[a] IN
       \/ /\ r.m.st = "error"
          /\ add' = [add EXCEPT ![a] = None]
          /\ latest' = Ended(a)
          /\ UNCHANGED <<adding, dialog, newest>>
       \/ /\ r.m.st = "ok" /\ r.m.arg = "leg"
          /\ add' = [add EXCEPT ![a].leg = r.m.ans, ![a].m = Started("point")]
          /\ latest' = [Ended(a) EXCEPT !["point"] = a]
          /\ Told(r.m.ans)
          /\ UNCHANGED <<adding, dialog>>
       \/ /\ r.m.st = "ok" /\ r.m.arg = "point"
          /\ add' = [add EXCEPT ![a] = None]
          /\ latest' = Ended(a)
          /\ dialog' = FALSE /\ adding' = FALSE
          /\ UNCHANGED newest
    /\ UNCHANGED <<server, place, imp, sent, importer, confirmed>>
-----------------------------------------------------------------------------
(* A GPX file.                                                              *)

\* A file of at most MAX_GPX_BYTES: a larger one is refused on the page.
HandleImportGpxFileInputChange(f) ==
    /\ ~dialog /\ file = None
    /\ file' = f /\ watch' = None /\ impError' = FALSE
    /\ UNCHANGED <<server, legsQuery, fresh, adder, adds, imp,
                   sent, banner, ghosts>>

\* reset: the mutation goes on, unwatched.
HandleImportGpxCancel ==
    /\ file # None
    /\ file' = None /\ watch' = None /\ impError' = FALSE
    /\ UNCHANGED <<server, legsQuery, fresh, adder, adds, imp,
                   sent, banner, ghosts>>

HandleImportGpxConfirm(i) ==
    /\ file # None /\ watch = None
    /\ sent < MaxCalls /\ imp[i] = None
    /\ imp' = [imp EXCEPT ![i] = Started(file)]
    /\ sent' = sent + 1 /\ watch' = i /\ impError' = FALSE
    /\ UNCHANGED <<server, legsQuery, fresh, adder, adds, file,
                   banner, ghosts>>

\* Faulty: a callback of useMutation, which a reset does not drop.
AnyOne(i) == TRUE

\* The callback of mutate() is called for the mutation that is watched.
IsWatched(i) == watch = i

\* Faulty: the legs are not invalidated.
RowsOnly(m) == UNCHANGED <<legsQuery, fresh>>

\* useImportGpx: onSuccess.
AfterImport(m) == IF m.st = "ok" THEN Invalidate
                  ELSE UNCHANGED <<legsQuery, fresh>>

ImportReturns(i) ==
    /\ imp[i] # None /\ imp[i].st # "sent"
    /\ AfterImport(imp[i])
    /\ IF imp[i].st = "ok" THEN
          /\ Told(imp[i].ans)
          /\ UNCHANGED impError
          /\ IF IsWatched(i)
             THEN file' = None /\ watch' = None /\ banner' = imp[i].arg
             ELSE UNCHANGED <<file, watch, banner>>
       ELSE
          /\ impError' = (impError \/ watch = i)
          /\ watch' = IF watch = i THEN None ELSE watch
          /\ UNCHANGED <<file, banner, newest>>
    /\ imp' = [imp EXCEPT ![i] = None]
    /\ UNCHANGED <<server, adder, adds, sent, confirmed>>

\* Four seconds pass, or its cross is clicked.
HideBanner ==
    /\ banner # None
    /\ banner' = None
    /\ UNCHANGED <<server, legsQuery, fresh, adder, adds, imp,
                   sent, file, watch, impError, ghosts>>
-----------------------------------------------------------------------------
(* The server.                                                              *)

ListLegs ==
    /\ legsQuery.st = "asked"
    /\ legsQuery' = Answered(legsQuery, legs)
    /\ UNCHANGED <<server, fresh, adder, adds, imp, sent, importer, ghosts>>

Insert(l, p) ==
    /\ made < MaxRows
    /\ made' = made + 1
    /\ rows' = rows \cup {[id |-> made + 1, leg |-> l, at |-> p]}

NewLeg == legs < MaxLegs /\ legs' = legs + 1

ServeAdd(a) ==
    /\ add[a] # None /\ add[a].m # None /\ add[a].m.st = "sent"
    /\ \/ /\ add[a].m.arg = "leg" /\ NewLeg
          /\ add' = [add EXCEPT ![a].m = Done(@, legs + 1)]
          /\ UNCHANGED <<rows, made>>
       \/ /\ add[a].m.arg = "point" /\ Insert(add[a].leg, PlaceOf(add[a]))
          /\ add' = [add EXCEPT ![a].m = Done(@, None)]
          /\ UNCHANGED legs
    /\ UNCHANGED <<legsQuery, fresh, adder, imp, sent, importer,
                   ghosts, latest>>

\* import_gpx: a leg with the waypoints of the file, in one transaction.
ServeImport(i) ==
    /\ imp[i] # None /\ imp[i].st = "sent"
    /\ NewLeg /\ Insert(legs + 1, None)
    /\ imp' = [imp EXCEPT ![i] = Done(@, legs + 1)]
    /\ UNCHANGED <<legsQuery, fresh, adder, adds, sent, importer, ghosts>>

\* A request is not served, is refused, or its answer is lost.
MissAdd(a) ==
    /\ add[a] # None /\ add[a].m # None /\ add[a].m.st # "error"
    /\ add' = [add EXCEPT ![a].m = Missed(@)]
    /\ UNCHANGED <<server, legsQuery, fresh, adder, imp, sent, importer,
                   ghosts, latest>>

MissImport(i) ==
    /\ imp[i] # None /\ imp[i].st # "error"
    /\ imp' = [imp EXCEPT ![i] = Missed(@)]
    /\ UNCHANGED <<server, legsQuery, fresh, adder, adds, sent, importer, ghosts>>

Next ==
    \/ LegsCame \/ LegsFail \/ LegsAge
    \/ ToggleAdding \/ HandleCancelAddWaypoint
    \/ \E p \in Place : HandleMapClick(p)
    \/ \E a \in Add : \/ HandleConfirmAddWaypoint(a) \/ Go(a) \/ AddReturns(a)
                      \/ ServeAdd(a) \/ MissAdd(a)
    \/ \E f \in File : HandleImportGpxFileInputChange(f)
    \/ HandleImportGpxCancel \/ HideBanner
    \/ \E i \in Imp : \/ HandleImportGpxConfirm(i) \/ ImportReturns(i)
                      \/ ServeImport(i) \/ MissImport(i)
    \/ ListLegs

Spec == Init /\ [][Next]_vars
-----------------------------------------------------------------------------
\* A waypoint is where the user clicked and confirmed, whatever was clicked
\* while its leg was looked for (page.tsx:216).
AddedWhereConfirmed == \A r \in rows : r.at \in confirmed \cup {None}

\* A waypoint is not put on a leg older than one the page had already heard
\* of, by an import or by an add (page.tsx:203, a list of legs kept for
\* staleTime), unless the page heard of it while the first list of legs was on
\* its way.
NotOnOlderLeg ==
    \A a \in Add :
        /\ add[a] # None
        /\ add[a].m # None
        /\ add[a].m.arg = "point" /\ ~add[a].behind
        => add[a].leg >= add[a].after

\* The dialog of a file closes on the success of that file only, and the
\* banner is about it (page.tsx:271).
ClosesOnOwnImport ==
    [][file # None /\ banner' # banner /\ banner' # None
       => file' = None /\ banner' = file]_vars
=============================================================================
