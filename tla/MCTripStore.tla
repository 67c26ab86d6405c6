----------------------------- MODULE MCTripStore -----------------------------
(***************************************************************************)
(* TripStore for TLC: the GPX files a client may send and the symmetry of   *)
(* the identifiers.                                                         *)
(***************************************************************************)
EXTENDS TripStore, TLC

\* No content; a route; a waypoint; both.
MCFile == {<<>>, <<"route">>, <<"wpt", "route">>}
OneFile == {<<"wpt", "route">>}

Symmetry == Permutations(User) \cup Permutations(Trip) \cup Permutations(Leg)
              \cup Permutations(Waypoint) \cup Permutations(Slot)
=============================================================================
