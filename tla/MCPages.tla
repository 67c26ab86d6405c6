------------------------------ MODULE MCPages -------------------------------
(***************************************************************************)
(* The pages of the web client for TLC: how the page of a trip gets         *)
(* waypoints and events, its map and its field log, the list of trips, and  *)
(* the assistant of the planner.                                           *)
(*                                                                         *)
(* These parts share no state: each has rows, queries and calls of its own. *)
(* Interleaving them would add nothing to what each can do, so a behaviour  *)
(* works in one of them, at, while the others stay as they began.           *)
(***************************************************************************)
EXTENDS QueryClient, TLC

CONSTANTS
    Call, Thing, Text, Empty,
    OneDay,                           \* of the field log
    Required, Optional, Note,         \* types of events
    ApiRequired, ApiOptional,         \* those that other clients log
    \* bounds of the parts
    MaxCalls, MaxLegs, MaxRows, MaxTime, MaxTrips, MaxGo, MaxOpens, MaxRuns,
    MaxTurns, MaxTokens,
    ApiRows, ApiTime, ApiCalls        \* the same with other clients

VARIABLES
    at,
    legs, points, pointsMade, legsQuery, fresh, adding, addDialog, place, add,
    latest, added, file, imp, watch, impError, banner, confirmed, newest,
    events, eventsMade, eventsQuery, eventDialog, form, eventCall, eventSent,
    trips, used, tripsQuery, stale, where, dialog, tripCall, mine, landing,
    tripSent, went,
    logs, trip, logsQuery, sheet, opens, asks, logCall, logSent, online,
    paused, untold,
    pmtiles, mounted, props, run, st, drawn, due, moving, loading,
    click, count, fitted,
    messages, busy, error, stream, asked, whole

inPoints == <<legs, points, pointsMade, legsQuery, fresh, adding, addDialog,
              place, add, latest, added, file, imp, watch, impError,
              banner, confirmed, newest>>
inEvents == <<events, eventsMade, eventsQuery, eventDialog, form, eventCall,
              eventSent>>
inTrips == <<trips, used, tripsQuery, stale, where, dialog, tripCall, mine,
             landing, tripSent, went>>
inLogs == <<logs, trip, logsQuery, sheet, opens, asks, logCall, logSent,
            online, paused, untold>>
inMap == <<pmtiles, mounted, props, run, st, drawn, due, moving, loading, click,
           count, fitted>>
inChat == <<messages, busy, error, stream, asked, whole>>

vars == <<at, inPoints, inEvents, inTrips, inLogs, inMap, inChat>>
-----------------------------------------------------------------------------
Points == INSTANCE TripPoints WITH
    Place <- Thing, File <- Thing, Add <- Call, Imp <- Call,
    rows <- points, made <- pointsMade,
    dialog <- addDialog, sent <- added

\* Through the dialog; and by other clients, who may name any time.
Events == INSTANCE TripEvents WITH
    Others <- FALSE,
    rows <- events, made <- eventsMade, query <- eventsQuery,
    open <- eventDialog, call <- eventCall, sent <- eventSent

Api == INSTANCE TripEvents WITH
    Required <- ApiRequired, Optional <- ApiOptional,
    MaxTime <- ApiTime, MaxRows <- ApiRows, MaxCalls <- ApiCalls,
    Others <- TRUE,
    rows <- events, made <- eventsMade, query <- eventsQuery,
    open <- eventDialog, call <- eventCall, sent <- eventSent

Trips == INSTANCE TripList WITH
    query <- tripsQuery, call <- tripCall, sent <- tripSent

Logs == INSTANCE FieldLogs WITH
    Day <- OneDay,
    query <- logsQuery, call <- logCall, sent <- logSent

Map == INSTANCE MapView WITH
    Wps <- Text \cup {Empty}, busy <- loading

Chat == INSTANCE Assistant

ASSUME PagesAssumption ==
    /\ Points!LegsAssumption /\ Events!OthersAssumption
    /\ Api!OthersAssumption /\ Trips!TripsAssumption
    /\ Logs!LogsAssumption /\ Map!WpsAssumption /\ Chat!BoundsAssumption
-----------------------------------------------------------------------------
Init ==
    /\ at \in {"points", "events", "api", "trips", "logs", "map", "chat"}
    /\ Points!Init /\ (at # "points" => legs = 0)
    /\ IF at = "api" THEN Api!Init ELSE Events!Init
    /\ Trips!Init /\ (at # "trips" => used = 0)
    /\ Logs!Init /\ (at # "logs" => \A d \in OneDay : logs[d] = None)
    /\ Map!Init /\ (at # "map" => ~pmtiles /\ ~props.fetched)
    /\ Chat!Init

Next ==
    /\ \/ /\ at = "points" /\ Points!Next
          /\ UNCHANGED <<inEvents, inTrips, inLogs, inMap, inChat>>
       \/ /\ at = "events" /\ Events!Next
          /\ UNCHANGED <<inPoints, inTrips, inLogs, inMap, inChat>>
       \/ /\ at = "api" /\ Api!Next
          /\ UNCHANGED <<inPoints, inTrips, inLogs, inMap, inChat>>
       \/ /\ at = "trips" /\ Trips!Next
          /\ UNCHANGED <<inPoints, inEvents, inLogs, inMap, inChat>>
       \/ /\ at = "logs" /\ Logs!Next
          /\ UNCHANGED <<inPoints, inEvents, inTrips, inMap, inChat>>
       \/ /\ at = "map" /\ Map!Next
          /\ UNCHANGED <<inPoints, inEvents, inTrips, inLogs, inChat>>
       \/ /\ at = "chat" /\ Chat!Next
          /\ UNCHANGED <<inPoints, inEvents, inTrips, inLogs, inMap>>
    /\ UNCHANGED at

Spec == Init /\ [][Next]_vars

Symmetry == Permutations(Call) \cup Permutations(Thing) \cup Permutations(Text)
-----------------------------------------------------------------------------
TypeOK ==
    CASE at = "points" -> Points!TypeOK
      [] at = "events" -> Events!TypeOK
      [] at = "api" -> Api!TypeOK
      [] at = "trips" -> Trips!TypeOK
      [] at = "logs" -> Logs!TypeOK
      [] at = "map" -> Map!TypeOK
      [] at = "chat" -> Chat!TypeOK

AddedWhereConfirmed == Points!AddedWhereConfirmed
NotOnOlderLeg == Points!NotOnOlderLeg
ClosesOnOwnImport == Points!ClosesOnOwnImport
\* Other clients write behind the back of the page.
RestShowsEvents == at # "api" => Events!RestShowsEvents
RestShowsTrips == Trips!RestShowsTrips
TripsAppear == Trips!TripsAppear
RestShowsLogs == Logs!RestShowsLogs
FailuresAreTold == Logs!FailuresAreTold
OneLiveMap == Map!OneLiveMap
ShownMapWorks == Map!ShownMapWorks
AnswersBelong == Chat!AnswersBelong
AnswersWhole == Chat!AnswersWhole
FailureLeavesQuestion == Chat!FailureLeavesQuestion
BusyHasStream == Chat!BusyHasStream
=============================================================================
