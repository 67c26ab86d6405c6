------------------------------ MODULE MapView ------------------------------
(***************************************************************************)
(* The map of a trip (components/Map.tsx) and the state its trip page and   *)
(* the viewport store (stores/mapStore.ts) feed it.                         *)
(*                                                                         *)
(* A rendering of the component runs its effects in the order they are      *)
(* written, each if something it depends on has changed.  The first one     *)
(* makes the map; it also runs, and so replaces the map, whenever the       *)
(* viewport or the list of waypoints changes.  With a PMTiles archive it    *)
(* waits for the header of the archive before it makes the map.             *)
(***************************************************************************)
EXTENDS Naturals

CONSTANTS Wps,      \* lists of waypoints
          Empty,    \* the one without any
          MaxRuns,  \* bound: runs of the first effect
          None

WpsAssumption ==
    /\ Empty \in Wps /\ None \notin Wps
    /\ MaxRuns \in Nat \ {0}

Run == 1 .. MaxRuns

\* What an effect may depend on: the list, whether it has been fetched, the
\* viewport in the store, whether a click adds a waypoint, mapReady.
Props == [wps : Wps, fetched : BOOLEAN, center : {0, 1}, adding : BOOLEAN,
          ready : BOOLEAN]

VARIABLES
    pmtiles, \* an archive is configured
    mounted, \* the page is open
    props,   \* the last rendering
    run,     \* the last run of the first effect; its map is the one shown
    st,      \* each run: waits for the header, its map loads, ..., is removed
    drawn,   \* the list its map shows, None before there is a source
    due,     \* setMapReady(true) is not rendered yet
    moving,  \* the map shown moves
    busy,    \* tiles or the source of the map shown are loading
    click,   \* the map with the click handler
    count,   \* initialWaypointCountCapturedRef: the list it was taken from
    fitted   \* hasFittedInitialWaypointsRef

refs == <<run, st, drawn, due, moving, busy, click, count, fitted>>
vars == <<pmtiles, mounted, props, refs>>

TypeOK ==
    /\ pmtiles \in BOOLEAN /\ mounted \in BOOLEAN
    /\ props \in Props
    /\ run \in Run
    /\ st \in [Run -> {"unused", "header", "loading", "loaded", "removed"}]
    /\ drawn \in [Run -> Wps \cup {None}]
    /\ due \in BOOLEAN /\ moving \in BOOLEAN /\ busy \in BOOLEAN
    /\ click \in Run \cup {None}
    /\ count \in Wps \cup {None}
    /\ fitted \in BOOLEAN
-----------------------------------------------------------------------------
(* The effects, as functions of the component's refs m and of the rendering *)
(* p they belong to.                                                        *)

Live(m) == m.st[m.run] \in {"loading", "loaded"}

\* isStyleLoaded(): false again while tiles or a source just set load.
StyleLoaded(m) == m.st[m.run] = "loaded" /\ ~m.busy

\* Effect 1, its cleanup: the map goes with its handlers.
Dispose(m) ==
    [m EXCEPT !.st[m.run] = IF Live(m) THEN "removed" ELSE @,
              !.click = None, !.busy = FALSE, !.moving = FALSE, !.due = FALSE]

\* Effect 1: without an archive the map is there at once.
Create(m) ==
    [m EXCEPT !.run = @ + 1,
              !.st[m.run + 1] = IF pmtiles THEN "header" ELSE "loading"]

\* Effect 2: the waypoints, if the style is loaded; it does not try again.
Draw(m, p) ==
    IF p.ready /\ StyleLoaded(m)
    THEN [m EXCEPT !.drawn[m.run] = p.wps, !.busy = TRUE]
    ELSE m

\* Effect 3: the click handler.
Listen(m, p) ==
    [m EXCEPT !.click = IF p.ready /\ Live(m) THEN m.run ELSE None]

\* Effects 4 and 5: the first list fetched; the view fits it, once.
Capture(m, p) ==
    IF p.fetched /\ m.count = None THEN [m EXCEPT !.count = p.wps] ELSE m

Fit(m, p) ==
    IF /\ p.ready /\ StyleLoaded(m)
       /\ ~m.fitted /\ m.count \notin {None, Empty} /\ p.wps # Empty
    THEN [m EXCEPT !.fitted = TRUE, !.moving = TRUE]
    ELSE m

\* The page computes initialCenter anew from each list that is not empty.
NewCenter(o, p) == o.wps # p.wps \/ o.center # p.center

\* The effects of a rendering p after o.
Effects(m, o, p) ==
    LET a == IF NewCenter(o, p) THEN Create(Dispose(m)) ELSE m
        b == IF o.ready # p.ready \/ o.wps # p.wps THEN Draw(a, p) ELSE a
        c == IF o.ready # p.ready \/ o.adding # p.adding
             THEN Listen(b, p) ELSE b
        d == Capture(c, p)
    IN  IF <<o.ready, o.wps, o.fetched>> # <<p.ready, p.wps, p.fetched>>
        THEN Fit(d, p) ELSE d

\* Faulty: the cleanup of effect 1 leaves mapReady.
KeepsReady(o, p) == p.ready

\* The cleanup of effect 1 says setMapReady(false).
ReadyAfter(o, p) == p.ready /\ ~NewCenter(o, p)

\* A rendering with what was due, and the one that setMapReady(false) makes follow.
Render(m, o) ==
    LET p == [o EXCEPT !.ready = @ \/ m.due]
        q == [p EXCEPT !.ready = ReadyAfter(props, p)]
        n == Effects(Effects([m EXCEPT !.due = FALSE], props, p), p, q)
    IN  /\ props' = q
        /\ NewCenter(props, p) => run < MaxRuns
        /\ run' = n.run /\ st' = n.st /\ drawn' = n.drawn
        /\ due' = n.due /\ moving' = n.moving /\ busy' = n.busy
        /\ click' = n.click /\ count' = n.count /\ fitted' = n.fitted

Refs == [run |-> run, st |-> st, drawn |-> drawn, due |-> due,
         moving |-> moving, busy |-> busy, click |-> click, count |-> count,
         fitted |-> fitted]
-----------------------------------------------------------------------------
\* What the page mounts with: nothing fetched, or what the cache holds.
First(c) == [wps : Wps, fetched : {TRUE}, center : {c}, adding : {FALSE},
             ready : {FALSE}]
            \cup [wps : {Empty}, fetched : {FALSE}, center : {c},
                  adding : {FALSE}, ready : {FALSE}]

FirstCount(p) == IF p.fetched THEN p.wps ELSE None

Init ==
    /\ pmtiles \in BOOLEAN /\ mounted = TRUE
    /\ props \in First(0) /\ count = FirstCount(props)
    /\ run = 1
    /\ due = FALSE /\ moving = FALSE /\ busy = FALSE
    /\ click = None /\ fitted = FALSE
    /\ st = [r \in Run |-> IF r > 1 THEN "unused"
                           ELSE IF pmtiles THEN "header" ELSE "loading"]
    /\ drawn = [r \in Run |-> None]

\* The list is fetched, or fetched anew.
Fetched(w) ==
    /\ mounted
    /\ w # props.wps \/ ~props.fetched
    /\ Render(Refs, [props EXCEPT !.wps = w, !.fetched = TRUE])
    /\ UNCHANGED <<pmtiles, mounted>>

\* The user, or flyTo, moves the map, which may need other tiles.
Move ==
    /\ mounted /\ Live(Refs)
    /\ moving' = TRUE /\ busy' = TRUE
    /\ UNCHANGED <<pmtiles, mounted, props, run, st, drawn, due, click, count,
                   fitted>>

\* moveend puts the viewport in the store.
MoveEnd ==
    /\ mounted /\ moving
    /\ Render(Refs, [props EXCEPT !.center = 1 - @])
    /\ UNCHANGED <<pmtiles, mounted>>

\* The page starts or stops adding waypoints: another onMapClick.
SetAdding ==
    /\ mounted
    /\ Render(Refs, [props EXCEPT !.adding = ~@])
    /\ UNCHANGED <<pmtiles, mounted>>

\* The load event of the map, which is not sent once it is removed.
Load ==
    /\ mounted /\ st[run] = "loading" /\ ~busy
    /\ st' = [st EXCEPT ![run] = "loaded"]
    /\ due' = TRUE
    /\ UNCHANGED <<pmtiles, mounted, props, run, drawn, moving, busy, click,
                   count, fitted>>

\* React renders for setMapReady(true) alone.
Ready ==
    /\ due
    /\ Render(Refs, props)
    /\ UNCHANGED <<pmtiles, mounted>>

SourceLoads ==
    /\ busy
    /\ busy' = FALSE
    /\ UNCHANGED <<pmtiles, mounted, props, run, st, drawn, due, moving, click,
                   count, fitted>>

\* Faulty: only a page that has gone stops a map from being made.
NotOpen(r) == ~mounted

\* Its cleanup has run.
Disposed(r) == ~mounted \/ r # run

\* getHeader() ends: well or not, only the basemap of the map depends on it.
Header(r) ==
    /\ st[r] = "header"
    /\ st' = [st EXCEPT ![r] = IF Disposed(r) THEN "removed" ELSE "loading"]
    /\ UNCHANGED <<pmtiles, mounted, props, run, drawn, due, moving, busy, click,
                   count, fitted>>

\* The page is left, and opened again.
Unmount ==
    /\ mounted
    /\ mounted' = FALSE
    /\ st' = Dispose(Refs).st
    /\ click' = None /\ busy' = FALSE /\ moving' = FALSE /\ due' = FALSE
    /\ UNCHANGED <<pmtiles, props, run, drawn, count, fitted>>

Mount ==
    /\ ~mounted /\ run < MaxRuns
    /\ mounted' = TRUE
    /\ props' \in First(props.center) /\ count' = FirstCount(props')
    /\ run' = run + 1 /\ st' = Create(Refs).st
    /\ fitted' = FALSE
    /\ UNCHANGED <<pmtiles, drawn, due, moving, busy, click>>

Next ==
    \/ \E w \in Wps : Fetched(w)
    \/ Move \/ MoveEnd \/ SetAdding \/ Load \/ Ready \/ SourceLoads
    \/ \E r \in Run : Header(r)
    \/ Unmount \/ Mount

Spec == Init /\ [][Next]_vars
-----------------------------------------------------------------------------
\* Whatever the order in which headers arrive and the page changes or closes,
\* there is one map at most, the one that the component knows, and none when
\* the page is closed (Map.tsx:224).
OneLiveMap ==
    \A r \in Run : st[r] \in {"loading", "loaded"} => mounted /\ r = run

\* The map is loaded, its rendering done, and nobody moves it.
Shown == mounted /\ st[run] = "loaded" /\ ~due /\ ~moving

\* "Given a trip with one or more waypoints, when I open the map for that
\* trip, then each waypoint appears at its stored coordinates"
\* (docs/user-stories/v0.1/US-008-waypoints-on-map.md:17): the map shows the
\* list the page has, though the effect that draws it gives up when tiles
\* are loading (Map.tsx:379), as when the user moves a map just loaded; and
\* it hears clicks, which no map hears that has gone.
ShownMapWorks ==
    /\ Shown => drawn[run] = props.wps /\ click = run
    /\ click # None => st[click] \in {"loading", "loaded"}
=============================================================================
