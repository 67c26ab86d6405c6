----------------------------- MODULE MCTripEdit -----------------------------
(***************************************************************************)
(* TripEdit for TLC.                                                        *)
(***************************************************************************)
EXTENDS TripEdit, TLC

Symmetry == Permutations(Page) \cup Permutations(Call)
              \cup Permutations(Name) \cup Permutations(Stamp)
=============================================================================
