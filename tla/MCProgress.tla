----------------------------- MODULE MCProgress -----------------------------
(***************************************************************************)
(* TripStore for the liveness run.  A behaviour has either as many          *)
(* connections as handlers, so that handlers wait for each other's keys and *)
(* rows, or one that they all wait for (and then one leg is enough).        *)
(***************************************************************************)
EXTENDS TripStore

OneFile == {<<"wpt", "route">>}
OneLeg == {CHOOSE l \in Leg : TRUE}

VARIABLE scarce  \* whether there is one connection

allVars == <<vars, scarce>>

Scarce == INSTANCE TripStore WITH PoolSize <- 1, Leg <- OneLeg

EitherInit == \/ scarce = FALSE /\ Init
              \/ scarce = TRUE /\ Scarce!Init
EitherNext == /\ \/ ~scarce /\ Next
                 \/ scarce /\ Scarce!Next
              /\ UNCHANGED scarce
EitherHandle(s) == /\ \/ ~scarce /\ Handle(s)
                      \/ scarce /\ Scarce!Handle(s)
                   /\ UNCHANGED scarce

EitherSpec == /\ EitherInit
              /\ [][EitherNext]_allVars
              /\ \A s \in Slot : SF_allVars(EitherHandle(s))
=============================================================================
