--------------------------- MODULE MCWaypointEdit ----------------------------
(***************************************************************************)
(* What the trip page edits, for TLC: a waypoint, in two sizes, and the     *)
(* trip.  One size is two tabs whose calls are not retried, the other one   *)
(* tab, alone, whose calls are retried twice; the trip is saved by one tab  *)
(* whose calls are retried once.  The waypoint and the trip share no state, *)
(* so a behaviour is of one of the three, at, while the rest stays as it    *)
(* began.                                                                   *)
(***************************************************************************)
EXTENDS WaypointEdit, TLC

CONSTANTS OnePage, SomeNote, OneStamp,  \* for the tab alone
          TripName, TripDate, TripStamp

VARIABLES at, row1, by1, view1, fetch1, list1, call1, srv1, seen1, late1,
          trip, writer, copy, draft, asked, got, save, ans, put, landing

inTabs == <<row, by, view, fetch, list, call, srv, seen, late>>
inOne == <<row1, by1, view1, fetch1, list1, call1, srv1, seen1, late1>>
inTrip == <<trip, writer, copy, draft, asked, got, save, ans, put, landing>>

Alone == INSTANCE WaypointEdit WITH
    Page <- OnePage, Note <- SomeNote, Stamp <- OneStamp, Retries <- 2,
    row <- row1, by <- by1, view <- view1, fetch <- fetch1, list <- list1,
    call <- call1, srv <- srv1, seen <- seen1, late <- late1

Trip == INSTANCE TripEdit WITH
    Page <- OnePage, Name <- TripName, Date <- TripDate, Stamp <- TripStamp,
    Retries <- 1,
    row <- trip, by <- writer, view <- copy, fetch <- asked, call <- save,
    srv <- put, late <- landing

ASSUME TripAssumption == Trip!NoneAssumption

\* Where a part is not looked at, one of its initial states is enough.
MCInit ==
    /\ at \in {"tabs", "alone", "trip"}
    /\ Init /\ Alone!Init /\ Trip!Init
    /\ at # "alone" => row1.notes = None
    /\ at # "trip" => trip = CHOOSE r \in Trip!Row : TRUE

MCNext ==
    /\ \/ at = "tabs" /\ Next /\ UNCHANGED <<inOne, inTrip>>
       \/ at = "alone" /\ Alone!Next /\ UNCHANGED <<inTabs, inTrip>>
       \/ at = "trip" /\ Trip!Next /\ UNCHANGED <<inTabs, inOne>>
    /\ UNCHANGED at

MCSpec == MCInit /\ [][MCNext]_<<at, inTabs, inOne, inTrip>>

Symmetry == Permutations(Page) \cup Permutations(Call)

\* OwnWritesShow of the tab alone: also after retries of what was done.
RetriedWritesShow == Alone!OwnWritesShow

\* That of TripEdit.
OwnSavesShow == Trip!OwnSavesShow
=============================================================================
