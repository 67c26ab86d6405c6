------------------------------- MODULE MCRig --------------------------------
(***************************************************************************)
(* The rig page for TLC: the profile with its editors, and the gear of one  *)
(* rig.  Each has rows, a query and calls of its own, and what the profile  *)
(* does to a rig is to its gear a deletion from elsewhere; so, as in        *)
(* MCPages, a behaviour works in one of them, at, while the other stays as  *)
(* it began.                                                               *)
(***************************************************************************)
EXTENDS QueryClient, TLC

CONSTANTS Call, Thing, Text, Bad, Field,
          MaxCalls, MaxRigs  \* bounds: mutations of each part, rigs in all

VARIABLES
    at,
    rigs, used, query, editor, draft, from, says, prompt, dialog, form, call,
    sent,
    rig, gear, drawn, gearQuery, adding, editing, dropping, gearForm,
    gearCall, stage, watch, gearSent

inRig == <<rigs, used, query, editor, draft, from, says, prompt, dialog,
           form, call, sent>>
inGear == <<rig, gear, drawn, gearQuery, adding, editing, dropping, gearForm,
            gearCall, stage, watch, gearSent>>

vars == <<at, inRig, inGear>>

Rig == INSTANCE RigPage

Gear == INSTANCE GearList WITH
    Item <- Thing, Val <- Text,
    query <- gearQuery, form <- gearForm, call <- gearCall, sent <- gearSent

ASSUME RigAssumption == Rig!FieldAssumption /\ Gear!GearAssumption
-----------------------------------------------------------------------------
Init ==
    /\ at \in {"rig", "gear"}
    /\ Rig!Init /\ (at # "rig" => used = 0)
    /\ Gear!Init /\ (at # "gear" => drawn = {})

Next ==
    /\ \/ at = "rig" /\ Rig!Next /\ UNCHANGED inGear
       \/ at = "gear" /\ Gear!Next /\ UNCHANGED inRig
    /\ UNCHANGED at

Spec == Init /\ [][Next]_vars

Symmetry == Permutations(Call) \cup Permutations(Thing) \cup Permutations(Text)
-----------------------------------------------------------------------------
TypeOK == IF at = "rig" THEN Rig!TypeOK ELSE Gear!TypeOK

SavesOwnRig == Rig!SavesOwnRig
NoGearWithoutRig == Gear!NoGearWithoutRig
RefusalsAreTrue == Gear!RefusalsAreTrue
\* With nothing under way the rig page shows what there is.
RestShowsRows == Rig!RestShowsRigs /\ Gear!RestShowsGear
=============================================================================
