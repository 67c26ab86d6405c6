----------------------------- MODULE PagesProofs -----------------------------
(***************************************************************************)
(* Theorems about the pages that MCPages puts side by side: TripPoints,     *)
(* TripEvents, TripList, FieldLogs, MapView and Assistant, for any places,  *)
(* files, days, texts, types of events, and for any number of calls,        *)
(* retries, legs, rows, pages, runs, turns and tokens.                      *)
(***************************************************************************)
EXTENDS MCPages, Integers, Sequences, SequenceTheorems, TLAPS
-----------------------------------------------------------------------------
(* New waypoints.  The newest leg that the page was told of is there; a list *)
(* of legs that is fresh or on its way back is not older than that, unless   *)
(* it was invalidated on its way.                                           *)
LegsKnown ==
    /\ newest <= legs
    /\ legsQuery.st = "answered"
         => /\ legsQuery.got \in 0 .. MaxLegs
            /\ legsQuery.got >= newest \/ legsQuery.behind
    /\ fresh => /\ legsQuery.data \in 0 .. MaxLegs
                /\ legsQuery.data >= newest \/ legsQuery.behind

(* A confirmed add has a place that was confirmed, and its leg, once it has  *)
(* one, is not older than what the page knew when it began.                 *)
AddKnows(r) ==
    /\ r.at \in confirmed
    /\ r.after <= newest
    /\ r.leg # None => r.leg >= r.after \/ r.behind
    /\ r.m # None => r.leg # None
    /\ r.m # None /\ r.m.arg = "point" => r.leg # 0
    /\ r.m # None /\ r.m.st = "ok" /\ r.m.arg = "leg"
         => r.m.ans \in Points!Leg /\ r.m.ans >= r.after /\ r.m.ans <= legs

(* An import that succeeded brought the leg it made; the one that is watched *)
(* is of the file whose dialog is open.                                     *)
ImportKnows(m) == m.st = "ok" => m.ans \in Points!Leg /\ m.ans <= legs

WatchesOwn ==
    watch # None => /\ file # None
                    /\ imp[watch] # None => imp[watch].arg = file

AddsKnow == \A a \in Call : add[a] # None => AddKnows(add[a])
ImportsKnow == \A i \in Call : imp[i] # None => ImportKnows(imp[i])

PointsInv ==
    /\ Points!TypeOK /\ LegsKnown /\ AddsKnow /\ ImportsKnow /\ WatchesOwn
    /\ addDialog => place \in Thing
    /\ Points!AddedWhereConfirmed

ImportCall == Points!Mutation(Thing, Points!Leg \cup {None})
AddCall == Points!Mutation({"leg", "point"}, Points!Leg \cup {None})
-----------------------------------------------------------------------------
LEMMA PointsStart == Points!Init => PointsInv
  <1> SUFFICES ASSUME Points!Init PROVE PointsInv
    OBVIOUS
  <1> USE PagesAssumption DEF Points!LegsAssumption, Points!Init
  <1>1. legs \in 0 .. MaxLegs /\ pointsMade \in 0 .. MaxRows
        /\ added \in 0 .. MaxCalls /\ newest \in 0 .. MaxLegs
    OBVIOUS
  <1>2. legsQuery \in Points!Query(0 .. MaxLegs \cup {None})
    BY DEF Points!Opened, Points!Query
  <1>3. add \in [Call -> Points!Adding \cup {None}]
        /\ imp \in [Call -> ImportCall \cup {None}]
        /\ latest \in [{"leg", "point"} -> Call \cup {None}]
    OBVIOUS
  <1>4. Points!TypeOK
    BY <1>1, <1>2, <1>3, Zenon DEF Points!TypeOK, ImportCall
  <1>5. LegsKnown
    BY <1>1 DEF LegsKnown, Points!Opened
  <1>6. QED
    BY <1>4, <1>5 DEF PointsInv, AddsKnow, ImportsKnow, WatchesOwn,
                      Points!AddedWhereConfirmed

LEMMA AddMissed ==
    ASSUME NEW m \in AddCall
    PROVE  /\ Points!Missed(m) \in AddCall /\ Points!Missed(m).arg = m.arg
           /\ Points!Missed(m).st # "ok"
  <1> USE DEF AddCall, Points!Mutation, Points!Missed, Points!Started
  <1>1. CASE m.tries < Retries
    <2>1. m.tries + 1 \in 0 .. Retries
      BY <1>1, RetriesAssumption
    <2>2. QED BY <1>1, <2>1
  <1>2. CASE ~(m.tries < Retries)
    <2>1. Points!Missed(m) = [m EXCEPT !.st = "error", !.ans = None]
      BY <1>2
    <2>2. QED BY <2>1
  <1>3. QED BY <1>1, <1>2

LEMMA ImportMissed ==
    ASSUME NEW m \in ImportCall
    PROVE  /\ Points!Missed(m) \in ImportCall /\ Points!Missed(m).arg = m.arg
           /\ Points!Missed(m).st # "ok"
  <1> USE DEF ImportCall, Points!Mutation, Points!Missed, Points!Started
  <1>1. CASE m.tries < Retries
    <2>1. m.tries + 1 \in 0 .. Retries
      BY <1>1, RetriesAssumption
    <2>2. QED BY <1>1, <2>1
  <1>2. CASE ~(m.tries < Retries)
    <2>1. Points!Missed(m) = [m EXCEPT !.st = "error", !.ans = None]
      BY <1>2
    <2>2. QED BY <2>1
  <1>3. QED BY <1>1, <1>2

(* One add changes, or goes; what the page knows does not become less.       *)
LEMMA AddsStep ==
    ASSUME PointsInv, NEW a \in Call, NEW r,
           r = None \/ (r \in Points!Adding /\ AddKnows(r)'),
           add' = [add EXCEPT ![a] = r],
           confirmed \subseteq confirmed', newest' \in Nat, newest <= newest',
           legs' \in Nat, legs <= legs'
    PROVE  add' \in [Call -> Points!Adding \cup {None}] /\ AddsKnow'
  <1> USE DEF PointsInv, Points!TypeOK
  <1>1. add' \in [Call -> Points!Adding \cup {None}]
    OBVIOUS
  <1>2. ASSUME NEW b \in Call, add'[b] # None PROVE AddKnows(add[b])'
    <2>1. CASE b = a
      <3>1. add'[b] = r /\ AddKnows(r)'
        BY <1>2, <2>1
      <3>2. QED BY <3>1 DEF AddKnows
    <2>2. CASE b # a
      <3>1. PICK s \in Points!Adding : s = add[b] /\ s = add'[b]
        BY <1>2, <2>2
      <3>2. AddKnows(s)
        BY <1>2, <2>2, <3>1 DEF AddsKnow
      <3>3. s.after \in Nat /\ newest \in Nat /\ legs \in Nat
        BY PagesAssumption DEF Points!Adding, Points!LegsAssumption
      <3>4. s.at \in confirmed' /\ s.after <= newest'
        BY <3>2, <3>3 DEF AddKnows
      <3>5. ASSUME s.m # None, s.m.st = "ok", s.m.arg = "leg"
            PROVE  s.m.ans \in Points!Leg /\ s.m.ans <= legs'
        <4>1. s.m.ans \in Points!Leg /\ s.m.ans <= legs
          BY <3>2, <3>5 DEF AddKnows
        <4>2. s.m.ans \in Nat
          BY <4>1, PagesAssumption DEF Points!Leg, Points!LegsAssumption
        <4>3. QED BY <3>3, <4>1, <4>2
      <3>6. AddKnows(s)'
        BY <3>2, <3>4, <3>5 DEF AddKnows
      <3>7. QED BY <3>1, <3>6 DEF AddKnows
    <2>3. QED BY <2>1, <2>2
  <1>3. QED BY <1>1, <1>2 DEF AddsKnow

(* Steps of the dialogs, which leave the calls and the server alone.         *)
LEMMA PointsPageSteps ==
    ASSUME PointsInv,
           \/ Points!LegsAge \/ Points!ToggleAdding
           \/ Points!HandleCancelAddWaypoint \/ Points!HideBanner
           \/ \E p \in Thing : Points!HandleMapClick(p)
           \/ \E f \in Thing : Points!HandleImportGpxFileInputChange(f)
           \/ Points!HandleImportGpxCancel
    PROVE  PointsInv'
  <1> USE DEF PointsInv, Points!TypeOK, Points!server, Points!adder,
              Points!adds, Points!importer, Points!ghosts
  <1> USE DEF Points!LegsAge, Points!ToggleAdding,
              Points!HandleCancelAddWaypoint, Points!HideBanner,
              Points!HandleMapClick, Points!HandleImportGpxFileInputChange,
              Points!HandleImportGpxCancel
  <1>1. UNCHANGED <<legs, points, pointsMade, legsQuery, add, latest, imp,
                    added, confirmed, newest>>
    OBVIOUS
  <1>2. /\ fresh' \in BOOLEAN /\ adding' \in BOOLEAN /\ addDialog' \in BOOLEAN
        /\ impError' \in BOOLEAN
    OBVIOUS
  <1>3. /\ place' \in Thing \cup {None} /\ file' \in Thing \cup {None}
        /\ watch' \in Call \cup {None} /\ banner' \in Thing \cup {None}
    OBVIOUS
  <1>4. Points!TypeOK'
    BY <1>1, <1>2, <1>3
  <1>5. LegsKnown'
    BY <1>1 DEF LegsKnown
  <1>6. AddsKnow' /\ ImportsKnow'
    BY <1>1 DEF AddsKnow, AddKnows, ImportsKnow, ImportKnows
  <1>7. WatchesOwn'
    BY <1>1 DEF WatchesOwn
  <1>8. addDialog' => place' \in Thing
    OBVIOUS
  <1>9. QED
    BY <1>1, <1>4, <1>5, <1>6, <1>7, <1>8 DEF Points!AddedWhereConfirmed

LEMMA ListLegsStep == ASSUME PointsInv, Points!ListLegs PROVE PointsInv'
  <1> USE DEF PointsInv, Points!TypeOK, Points!ListLegs, Points!server,
              Points!adder, Points!adds, Points!importer, Points!ghosts
  <1>1. /\ legsQuery' \in Points!Query(0 .. MaxLegs \cup {None})
        /\ legsQuery'.got = legs /\ legsQuery'.data = legsQuery.data
        /\ legsQuery'.behind = legsQuery.behind
    BY DEF Points!Answered, Points!Query
  <1>2. Points!TypeOK'
    BY <1>1
  <1>3. LegsKnown'
    BY <1>1, PagesAssumption DEF LegsKnown, Points!LegsAssumption
  <1>4. QED
    BY <1>2, <1>3 DEF AddsKnow, AddKnows, ImportsKnow, ImportKnows,
                      WatchesOwn, Points!AddedWhereConfirmed

(* Where the imports, their dialog, and the waypoints are left alone.        *)
LEMMA ImportsFrame ==
    ASSUME PointsInv, UNCHANGED imp, legs' \in Nat, legs <= legs'
    PROVE  ImportsKnow'
  <1> SUFFICES ASSUME NEW i \in Call, imp[i] # None PROVE ImportKnows(imp[i])'
    BY DEF ImportsKnow
  <1>1. ImportKnows(imp[i])
    BY DEF PointsInv, ImportsKnow
  <1>2. legs \in Nat
    BY DEF PointsInv, Points!TypeOK
  <1>3. imp[i].st = "ok" => imp[i].ans \in Nat
    BY <1>1 DEF ImportKnows, Points!Leg
  <1>4. QED
    BY <1>1, <1>2, <1>3 DEF ImportKnows

LEMMA PointsFrame ==
    ASSUME PointsInv, Points!TypeOK', LegsKnown', AddsKnow',
           UNCHANGED <<imp, file, watch, points, place>>,
           addDialog' => addDialog,
           legs' \in Nat, legs <= legs', confirmed \subseteq confirmed'
    PROVE  PointsInv'
  <1>1. ImportsKnow'
    BY ImportsFrame
  <1>2. WatchesOwn'
    BY DEF PointsInv, WatchesOwn
  <1>3. Points!AddedWhereConfirmed'
    BY DEF PointsInv, Points!AddedWhereConfirmed
  <1>4. QED
    BY <1>1, <1>2, <1>3 DEF PointsInv

LEMMA Between ==
    ASSUME NEW n \in Nat, NEW x \in 0 .. n PROVE x \in Nat
  OBVIOUS

LEMMA AtLeast ==
    ASSUME NEW x \in Nat, NEW y \in Nat, NEW z \in Nat, x <= y, z >= y
    PROVE  z >= x
  OBVIOUS

(* Legs are counted.                                                         *)
LEMMA LegNumbers ==
    ASSUME PointsInv
    PROVE  newest \in Nat /\ legs \in Nat /\ MaxLegs \in Nat /\ legs <= legs
  <1>1. newest \in 0 .. MaxLegs /\ legs \in 0 .. MaxLegs
    BY DEF PointsInv, Points!TypeOK
  <1>2. MaxLegs \in Nat
    BY PagesAssumption DEF Points!LegsAssumption
  <1>3. QED BY <1>1, <1>2

(* What an add that waited for the legs becomes.                             *)
LEMMA WaitingAdds ==
    ASSUME PointsInv, UNCHANGED <<legs, newest, confirmed>>,
           \A a \in Call :
              \/ add'[a] = add[a] \/ add'[a] = None
              \/ /\ Points!Waits(a)
                 /\ \E l \in 0 .. MaxLegs, b \in BOOLEAN :
                       /\ l >= newest \/ b
                       /\ add'[a] = [add[a] EXCEPT !.leg = l, !.behind = b],
           DOMAIN add' = Call, add' = [a \in Call |-> add'[a]]
    PROVE  add' \in [Call -> Points!Adding \cup {None}] /\ AddsKnow'
  <1>1. ASSUME NEW a \in Call
        PROVE  /\ add'[a] \in Points!Adding \cup {None}
               /\ add'[a] # None => AddKnows(add[a])'
    <2>0. newest \in Nat /\ MaxLegs \in Nat
      BY LegNumbers
    <2>1. CASE add'[a] = add[a]
      BY <2>1 DEF PointsInv, Points!TypeOK, AddsKnow, AddKnows
    <2>2. CASE add'[a] = None
      BY <2>2
    <2>3. ASSUME Points!Waits(a), NEW l \in 0 .. MaxLegs, NEW b \in BOOLEAN,
                 l >= newest \/ b,
                 add'[a] = [add[a] EXCEPT !.leg = l, !.behind = b]
          PROVE  /\ add'[a] \in Points!Adding
                 /\ add'[a] # None => AddKnows(add[a])'
      <3>1. PICK s \in Points!Adding : s = add[a] /\ s.leg = None
        BY <2>3 DEF Points!Waits, PointsInv, Points!TypeOK
      <3>2. AddKnows(s) /\ s.m = None
        BY <2>3, <3>1 DEF Points!Waits, PointsInv, AddsKnow, AddKnows
      <3>3. PICK t \in Points!Adding :
               t = add'[a] /\ t = [s EXCEPT !.leg = l, !.behind = b]
        BY <2>0, <2>3, <3>1 DEF Points!Adding
      <3>4. /\ s.at = t.at /\ s.after = t.after /\ s.m = t.m
            /\ t.leg = l /\ t.behind = b
        BY <3>3 DEF Points!Adding
      <3>5. s.after \in 0 .. MaxLegs
        BY DEF Points!Adding
      <3>6. l >= s.after \/ b
        <4>1. s.after <= newest
          BY <3>2 DEF AddKnows
        <4>2. s.after \in Nat /\ l \in Nat /\ newest \in Nat
          BY <2>0, <3>5, Between, Zenon
        <4>3. CASE l >= newest
          BY <4>1, <4>2, <4>3, AtLeast, Zenon
        <4>4. QED BY <2>3, <4>3
      <3>7. QED BY <3>2, <3>3, <3>4, <3>6 DEF AddKnows
    <2>4. QED BY <2>1, <2>2, <2>3
  <1>2. QED BY <1>1 DEF AddsKnow

LEMMA LegsCameStep == ASSUME PointsInv, Points!LegsCame PROVE PointsInv'
  <1> USE DEF Points!LegsCame, Points!server, Points!adder, Points!importer,
              Points!ghosts
  <1>0. legs' \in Nat /\ legs <= legs'
    <2>1. legs' = legs
      OBVIOUS
    <2>2. QED BY <2>1, LegNumbers, Zenon
  <1>1. /\ legsQuery.got \in 0 .. MaxLegs /\ legsQuery.behind \in BOOLEAN
        /\ legsQuery.got >= newest \/ legsQuery.behind
    BY DEF PointsInv, LegsKnown, Points!TypeOK, Points!Query
  <1>2. add' \in [Call -> Points!Adding \cup {None}] /\ AddsKnow'
    <2>1. /\ DOMAIN add' = Call /\ add' = [a \in Call |-> add'[a]]
          /\ \A a \in Call :
              \/ add'[a] = add[a]
              \/ /\ Points!Waits(a)
                 /\ \E l \in 0 .. MaxLegs, b \in BOOLEAN :
                       /\ l >= newest \/ b
                       /\ add'[a] = [add[a] EXCEPT !.leg = l, !.behind = b]
      BY <1>1
    <2>2. QED BY <2>1, WaitingAdds
  <1>3. /\ legsQuery' \in Points!Query(0 .. MaxLegs \cup {None})
        /\ legsQuery'.st = "idle" /\ legsQuery'.data = legsQuery.got
        /\ legsQuery'.behind = legsQuery.behind
    BY DEF Points!Arrived, Points!Query, PointsInv, Points!TypeOK
  <1>4. Points!TypeOK'
    BY <1>2, <1>3 DEF PointsInv, Points!TypeOK
  <1>5. LegsKnown'
    BY <1>1, <1>3 DEF PointsInv, LegsKnown
  <1>6. QED
    BY <1>0, <1>2, <1>4, <1>5, PointsFrame

LEMMA LegsFailStep == ASSUME PointsInv, Points!LegsFail PROVE PointsInv'
  <1> USE DEF Points!LegsFail, Points!server, Points!adder, Points!importer,
              Points!ghosts
  <1>0. legs' \in Nat /\ legs <= legs'
    BY DEF PointsInv, Points!TypeOK
  <1>1. add' \in [Call -> Points!Adding \cup {None}] /\ AddsKnow'
    <2>0. add' = [a \in Call |-> IF Points!Waits(a) THEN None ELSE add[a]]
      OBVIOUS
    <2>1. /\ DOMAIN add' = Call /\ add' = [a \in Call |-> add'[a]]
          /\ \A a \in Call : add'[a] = add[a] \/ add'[a] = None
      BY <2>0, Zenon
    <2>2. QED BY <2>1, WaitingAdds
  <1>2. /\ legsQuery' \in Points!Query(0 .. MaxLegs \cup {None})
        /\ legsQuery'.st = "idle" /\ legsQuery'.data = legsQuery.data
        /\ legsQuery'.behind = legsQuery.behind
    BY DEF Points!Failed, Points!Query, PointsInv, Points!TypeOK
  <1>3. Points!TypeOK'
    BY <1>1, <1>2 DEF PointsInv, Points!TypeOK
  <1>4. LegsKnown'
    BY <1>2 DEF PointsInv, LegsKnown
  <1>5. QED
    BY <1>0, <1>1, <1>3, <1>4, PointsFrame

(* Asking for the legs again, or not, does not make them known.              *)
LEMMA AskedLegs ==
    ASSUME PointsInv, legsQuery' \in {legsQuery, Points!Asked(legsQuery)}
    PROVE  /\ legsQuery' \in Points!Query(0 .. MaxLegs \cup {None})
           /\ legsQuery'.data = legsQuery.data
           /\ legsQuery'.st = "answered"
                => /\ legsQuery.st = "answered"
                   /\ legsQuery'.got = legsQuery.got
                   /\ legsQuery'.behind \/ legsQuery' = legsQuery
  <1>1. CASE legsQuery' = legsQuery
    BY <1>1 DEF PointsInv, Points!TypeOK
  <1>2. CASE legsQuery' = Points!Asked(legsQuery)
    <2>1. /\ legsQuery' \in Points!Query(0 .. MaxLegs \cup {None})
          /\ legsQuery'.data = legsQuery.data
          /\ legsQuery'.st = "answered" => /\ legsQuery.st = "answered"
                                           /\ legsQuery'.got = legsQuery.got
                                           /\ legsQuery'.behind
      BY <1>2 DEF PointsInv, Points!TypeOK, Points!Asked, Points!Marked,
                  Points!Query
    <2>2. QED BY <2>1
  <1>3. QED BY <1>1, <1>2

(* A list of legs that a call finds on its way back is behind from then on.  *)
LEMMA JoinedLegs ==
    ASSUME PointsInv, legsQuery' = Points!Asked(legsQuery), ~fresh',
           newest' <= legs'
    PROVE  /\ legsQuery' \in Points!Query(0 .. MaxLegs \cup {None})
           /\ LegsKnown'
  <1>1. /\ legsQuery' \in Points!Query(0 .. MaxLegs \cup {None})
        /\ legsQuery'.st = "answered" => /\ legsQuery.st = "answered"
                                         /\ legsQuery'.got = legsQuery.got
                                         /\ legsQuery'.behind
    BY DEF PointsInv, Points!TypeOK, Points!Asked, Points!Marked,
           Points!Query
  <1>2. QED BY <1>1 DEF PointsInv, LegsKnown

LEMMA ConfirmAddStep ==
    ASSUME PointsInv, NEW a \in Call, Points!HandleConfirmAddWaypoint(a)
    PROVE  PointsInv'
  <1> USE DEF Points!HandleConfirmAddWaypoint, Points!server, Points!adder,
              Points!importer
  <1> USE PagesAssumption DEF Points!LegsAssumption
  <1>0. /\ newest \in Nat /\ legs \in Nat /\ newest \in 0 .. MaxLegs
        /\ added \in 0 .. MaxCalls
    BY DEF PointsInv, Points!TypeOK
  <1>1. place \in Thing
    BY DEF PointsInv
  <1> DEFINE b == fresh /\ legsQuery.behind
  <1>2. PICK l \in 0 .. MaxLegs \cup {None} :
           /\ l = IF fresh THEN legsQuery.data ELSE None
           /\ l # None => l >= newest \/ b
    BY DEF PointsInv, LegsKnown
  <1>3. PICK r : r = [at |-> place, after |-> newest, m |-> None, leg |-> l,
                      behind |-> b]
    OBVIOUS
  <1>4. r \in Points!Adding
    <2>1. b \in BOOLEAN
      BY DEF PointsInv, Points!TypeOK, Points!Query
    <2>2. QED BY <1>0, <1>1, <1>2, <1>3, <2>1 DEF Points!Adding
  <1>5. /\ add' = [add EXCEPT ![a] = r] /\ confirmed' = confirmed \cup {place}
        /\ newest' = newest /\ legs' = legs
    BY <1>2, <1>3 DEF Points!ResolveLeg
  <1>6. add' \in [Call -> Points!Adding \cup {None}] /\ AddsKnow'
    <2>1. /\ r.at = place /\ r.after = newest /\ r.m = None /\ r.leg = l
          /\ l # None => l >= newest \/ r.behind
      BY <1>0, <1>2, <1>3
    <2>2. AddKnows(r)'
      BY <1>0, <1>5, <2>1 DEF AddKnows
    <2>3. /\ confirmed \subseteq confirmed' /\ newest' \in Nat
          /\ newest <= newest' /\ legs' \in Nat /\ legs <= legs'
      BY <1>0, <1>5
    <2>4. QED BY <1>4, <1>5, <2>2, <2>3, AddsStep
  <1>7. legsQuery' \in {legsQuery, Points!Asked(legsQuery)}
    BY DEF Points!ResolveLeg
  <1>8. Points!TypeOK'
    <2>1. legsQuery' \in Points!Query(0 .. MaxLegs \cup {None})
      BY <1>7, AskedLegs
    <2>2. added' \in 0 .. MaxCalls /\ confirmed' \subseteq Thing
      BY <1>0, <1>1, <1>5 DEF PointsInv, Points!TypeOK
    <2>3. QED BY <1>6, <2>1, <2>2 DEF PointsInv, Points!TypeOK
  <1>9. LegsKnown'
    <2>1. CASE legsQuery' = legsQuery
      BY <1>5, <2>1 DEF PointsInv, LegsKnown
    <2>2. CASE legsQuery' = Points!Asked(legsQuery) /\ ~fresh
      <3>1. newest' <= legs' /\ ~fresh'
        BY <1>5, <2>2 DEF PointsInv, LegsKnown
      <3>2. QED BY <2>2, <3>1, JoinedLegs
    <2>3. QED BY <2>1, <2>2 DEF Points!ResolveLeg
  <1>10. QED
    BY <1>0, <1>6, <1>8, <1>9, PointsFrame

LEMMA GoStep ==
    ASSUME PointsInv, NEW a \in Call, Points!Go(a)
    PROVE  PointsInv'
  <1> USE DEF Points!Go, Points!server, Points!adder, Points!importer,
              Points!ghosts
  <1> USE PagesAssumption DEF Points!LegsAssumption
  <1>0. newest \in Nat /\ legs \in Nat
    BY DEF PointsInv, Points!TypeOK
  <1>1. PICK s \in Points!Adding : s = add[a] /\ s.leg # None
    BY DEF PointsInv, Points!TypeOK
  <1>2. AddKnows(s)
    BY <1>1 DEF PointsInv, AddsKnow
  <1> DEFINE k == IF s.leg = 0 THEN "leg" ELSE "point"
  <1>3. Points!Started(k) \in AddCall /\ Points!Started(k).arg = k
        /\ Points!Started(k).st = "sent"
    BY RetriesAssumption DEF AddCall, Points!Started, Points!Mutation
  <1>4. PICK r : r = [s EXCEPT !.m = Points!Started(k)]
    OBVIOUS
  <1>5. /\ r \in Points!Adding
        /\ r.at = s.at /\ r.after = s.after /\ r.leg = s.leg
        /\ r.behind = s.behind /\ r.m.arg = k /\ r.m.st = "sent"
    BY <1>3, <1>4 DEF Points!Adding, AddCall
  <1>6. AddKnows(r)'
    BY <1>1, <1>2, <1>5 DEF AddKnows
  <1>7. /\ add' = [add EXCEPT ![a] = r]
        /\ latest' \in [{"leg", "point"} -> Call \cup {None}]
    BY <1>1, <1>4 DEF PointsInv, Points!TypeOK
  <1>8. add' \in [Call -> Points!Adding \cup {None}] /\ AddsKnow'
    <2>1. /\ confirmed \subseteq confirmed' /\ newest' \in Nat
          /\ newest <= newest' /\ legs' \in Nat /\ legs <= legs'
      BY <1>0
    <2>2. QED BY <1>5, <1>6, <1>7, <2>1, AddsStep
  <1>9. Points!TypeOK'
    BY <1>7, <1>8 DEF PointsInv, Points!TypeOK
  <1>10. LegsKnown'
    BY DEF PointsInv, LegsKnown
  <1>11. QED
    BY <1>0, <1>8, <1>9, <1>10, PointsFrame

(* What a mutation of an add becomes.                                        *)
LEMMA AddMoves ==
    ASSUME PointsInv, NEW a \in Call, add[a] # None, add[a].m # None,
           NEW m \in AddCall, add' = [add EXCEPT ![a].m = m],
           m.arg = add[a].m.arg,
           m.st = "ok" /\ m.arg = "leg"
             => \/ m.ans = add[a].m.ans /\ add[a].m.st = "ok"
                \/ m.ans = legs + 1 /\ m.ans <= legs' /\ m.ans <= MaxLegs,
           UNCHANGED <<newest, confirmed>>, legs' \in Nat, legs <= legs'
    PROVE  add' \in [Call -> Points!Adding \cup {None}] /\ AddsKnow'
  <1> USE PagesAssumption DEF Points!LegsAssumption
  <1>0. newest \in Nat /\ legs \in Nat
    BY DEF PointsInv, Points!TypeOK
  <1>1. PICK s \in Points!Adding : s = add[a] /\ s.m # None
    BY DEF PointsInv, Points!TypeOK
  <1>2. AddKnows(s)
    BY <1>1 DEF PointsInv, AddsKnow
  <1>3. PICK r : r = [s EXCEPT !.m = m]
    OBVIOUS
  <1>4. /\ r \in Points!Adding /\ r.at = s.at /\ r.after = s.after
        /\ r.leg = s.leg /\ r.m = m /\ s.after \in Nat
        /\ r.behind = s.behind
    BY <1>3 DEF Points!Adding, AddCall
  <1>5. add' = [add EXCEPT ![a] = r]
    BY <1>1, <1>3 DEF PointsInv, Points!TypeOK
  <1>6. ASSUME m.st = "ok", m.arg = "leg"
        PROVE  m.ans \in Points!Leg /\ m.ans >= s.after /\ m.ans <= legs'
    <2>1. CASE m.ans = add[a].m.ans /\ add[a].m.st = "ok"
      <3>1. m.ans \in Points!Leg /\ m.ans >= s.after /\ m.ans <= legs
        BY <1>1, <1>2, <1>6, <2>1 DEF AddKnows
      <3>2. m.ans \in Nat
        BY <3>1 DEF Points!Leg
      <3>3. QED BY <1>0, <3>1, <3>2
    <2>2. CASE m.ans = legs + 1 /\ m.ans <= legs' /\ m.ans <= MaxLegs
      <3>1. s.after <= newest /\ newest <= legs
        BY <1>2 DEF AddKnows, PointsInv, LegsKnown
      <3>2. QED BY <1>0, <1>4, <2>2, <3>1 DEF Points!Leg
    <2>3. QED BY <1>6, <2>1, <2>2
  <1>7. AddKnows(r)'
    BY <1>1, <1>2, <1>4, <1>6 DEF AddKnows
  <1>8. confirmed \subseteq confirmed' /\ newest' \in Nat /\ newest <= newest'
    BY <1>0
  <1>9. QED BY <1>4, <1>5, <1>7, <1>8, AddsStep

LEMMA MissAddStep ==
    ASSUME PointsInv, NEW a \in Call, Points!MissAdd(a)
    PROVE  PointsInv'
  <1> USE DEF Points!MissAdd, Points!server, Points!adder, Points!importer,
              Points!ghosts
  <1>1. PICK k \in AddCall : k = add[a].m
    BY DEF PointsInv, Points!TypeOK, Points!Adding, AddCall
  <1>2. PICK m : m = Points!Missed(k)
    OBVIOUS
  <1>3. m \in AddCall /\ m.arg = k.arg /\ m.st # "ok"
    BY <1>2, AddMissed
  <1>4. legs' \in Nat /\ legs <= legs'
    BY DEF PointsInv, Points!TypeOK
  <1>5. add' = [add EXCEPT ![a].m = m]
    BY <1>1, <1>2
  <1>6. add' \in [Call -> Points!Adding \cup {None}] /\ AddsKnow'
    BY <1>1, <1>3, <1>4, <1>5, AddMoves
  <1>7. Points!TypeOK'
    BY <1>6 DEF PointsInv, Points!TypeOK
  <1>8. LegsKnown'
    BY DEF PointsInv, LegsKnown
  <1>9. QED BY <1>4, <1>6, <1>7, <1>8, PointsFrame

LEMMA ServeAddStep ==
    ASSUME PointsInv, NEW a \in Call, Points!ServeAdd(a)
    PROVE  PointsInv'
  <1> USE PagesAssumption DEF Points!LegsAssumption
  <1>1. PICK k \in AddCall : k = add[a].m
    BY DEF PointsInv, Points!TypeOK, Points!Adding, AddCall, Points!ServeAdd
  <1>2. PICK s \in Points!Adding : s = add[a] /\ AddKnows(s)
    BY DEF PointsInv, Points!TypeOK, Points!ServeAdd, AddsKnow
  <1>3. legs \in 0 .. MaxLegs /\ pointsMade \in 0 .. MaxRows /\ newest <= legs
        /\ newest \in Nat
    BY DEF PointsInv, Points!TypeOK, LegsKnown
  <1>4. UNCHANGED <<legsQuery, fresh, adding, addDialog, place, latest, imp,
                    added, file, watch, impError, banner, confirmed, newest>>
    BY DEF Points!ServeAdd, Points!adder, Points!importer, Points!ghosts
  <1>5. CASE k.arg = "leg"
    <2>1. /\ legs' = legs + 1 /\ legs < MaxLegs
          /\ add' = [add EXCEPT ![a].m = Points!Done(@, legs + 1)]
          /\ UNCHANGED <<points, pointsMade>>
      BY <1>1, <1>5 DEF Points!ServeAdd, Points!NewLeg
    <2>2. PICK m : m = Points!Done(k, legs + 1)
      OBVIOUS
    <2>3. m \in AddCall /\ m.arg = k.arg /\ m.ans = legs + 1
      <3>1. legs + 1 \in Points!Leg
        BY <1>3, <2>1 DEF Points!Leg
      <3>2. QED BY <2>2, <3>1 DEF Points!Done, AddCall, Points!Mutation
    <2>4. add' = [add EXCEPT ![a].m = m]
      BY <1>1, <2>1, <2>2
    <2>5. legs' \in 0 .. MaxLegs /\ legs <= legs' /\ m.ans <= legs'
          /\ m.ans <= MaxLegs
      BY <1>3, <2>1, <2>3
    <2>6. add' \in [Call -> Points!Adding \cup {None}] /\ AddsKnow'
      <3>1. add[a] # None /\ add[a].m # None /\ legs' \in Nat
        BY <2>5 DEF Points!ServeAdd
      <3>2. QED BY <1>1, <1>4, <2>3, <2>4, <2>5, <3>1, AddMoves
    <2>7. Points!TypeOK'
      BY <1>4, <2>1, <2>5, <2>6 DEF PointsInv, Points!TypeOK
    <2>8. LegsKnown'
      BY <1>3, <1>4, <2>1 DEF PointsInv, LegsKnown
    <2>9. legs' \in Nat
      BY <2>5
    <2>10. QED BY <1>4, <2>1, <2>5, <2>6, <2>7, <2>8, <2>9, PointsFrame
  <1>6. CASE k.arg = "point"
    <2>1. /\ legs' = legs
          /\ pointsMade < MaxRows /\ pointsMade' = pointsMade + 1
          /\ points' = points \cup {[id |-> pointsMade + 1, leg |-> s.leg,
                                     at |-> s.at]}
          /\ add' = [add EXCEPT ![a].m = Points!Done(@, None)]
      BY <1>1, <1>2, <1>6 DEF Points!ServeAdd, Points!Insert, Points!PlaceOf
    <2>2. PICK m : m = Points!Done(k, None)
      OBVIOUS
    <2>3. m \in AddCall /\ m.arg = k.arg
      BY <2>2 DEF Points!Done, AddCall, Points!Mutation
    <2>4. add' = [add EXCEPT ![a].m = m]
      BY <1>1, <2>1, <2>2
    <2>5. legs' \in Nat /\ legs <= legs'
      BY <1>3, <2>1
    <2>6. add' \in [Call -> Points!Adding \cup {None}] /\ AddsKnow'
      <3>1. add[a] # None /\ add[a].m # None /\ m.arg # "leg"
        BY <1>6, <2>3 DEF Points!ServeAdd
      <3>2. QED BY <1>1, <1>4, <2>3, <2>4, <2>5, <3>1, AddMoves
    <2>7. /\ s.at \in Thing /\ s.at \in confirmed /\ s.leg \in Points!Leg
      <3>1. s.m # None /\ s.m.arg = "point"
        BY <1>1, <1>2, <1>6 DEF Points!ServeAdd
      <3>2. QED BY <1>2, <3>1 DEF AddKnows, Points!Adding, Points!Leg
    <2>8. pointsMade' \in 0 .. MaxRows /\ points' \subseteq Points!Row
      <3>1. pointsMade + 1 \in 1 .. MaxRows
        BY <1>3, <2>1
      <3>2. QED BY <2>1, <2>7, <3>1
               DEF PointsInv, Points!TypeOK, Points!Row
    <2>9. Points!TypeOK'
      BY <1>4, <2>1, <2>6, <2>8 DEF PointsInv, Points!TypeOK
    <2>10. LegsKnown'
      BY <1>4, <2>1 DEF PointsInv, LegsKnown
    <2>11. ImportsKnow'
      BY <1>4, <2>5, ImportsFrame
    <2>12. WatchesOwn'
      BY <1>4 DEF PointsInv, WatchesOwn
    <2>13. Points!AddedWhereConfirmed'
      BY <1>4, <2>1, <2>7 DEF PointsInv, Points!AddedWhereConfirmed
    <2>14. QED BY <1>4, <2>6, <2>9, <2>10, <2>11, <2>12, <2>13 DEF PointsInv
  <1>7. QED BY <1>1, <1>5, <1>6 DEF AddCall, Points!Mutation

LEMMA AddReturnsStep ==
    ASSUME PointsInv, NEW a \in Call, Points!AddReturns(a)
    PROVE  PointsInv'
  <1> USE PagesAssumption DEF Points!LegsAssumption
  <1>1. PICK k \in AddCall : k = add[a].m
    BY DEF PointsInv, Points!TypeOK, Points!Adding, AddCall, Points!AddReturns
  <1>2. PICK s \in Points!Adding : s = add[a] /\ AddKnows(s) /\ s.m = k
    BY <1>1 DEF PointsInv, Points!TypeOK, Points!AddReturns, AddsKnow
  <1>3. legs \in 0 .. MaxLegs /\ newest \in 0 .. MaxLegs /\ newest <= legs
        /\ k # None /\ k.st # "sent"
    BY <1>1 DEF PointsInv, Points!TypeOK, LegsKnown, Points!AddReturns
  <1>4. UNCHANGED <<legs, points, pointsMade, place, imp, added, file, watch,
                    impError, banner, confirmed>>
    BY DEF Points!AddReturns, Points!server, Points!importer
  <1>5. legsQuery' = Points!Asked(legsQuery) /\ fresh' = FALSE
    BY DEF Points!AddReturns, Points!AfterAdd, Points!Invalidate
  <1>6. newest' <= legs' => /\ LegsKnown'
                            /\ legsQuery' \in
                                 Points!Query(0 .. MaxLegs \cup {None})
    BY <1>5, JoinedLegs
  <1>7. latest' \in [{"leg", "point"} -> Call \cup {None}]
    <2>1. latest \in [{"leg", "point"} -> Call \cup {None}]
      BY DEF PointsInv, Points!TypeOK
    <2>2. Points!Ended(a) \in [{"leg", "point"} -> Call \cup {None}]
      BY <2>1 DEF Points!Ended
    <2>3. \/ latest' = Points!Ended(a)
          \/ latest' = [Points!Ended(a) EXCEPT !["point"] = a]
      BY DEF Points!AddReturns
    <2>4. QED BY <2>2, <2>3
  <1>8. CASE k.st = "ok" /\ k.arg = "leg"
    <2>1. /\ add' = [add EXCEPT ![a].leg = k.ans,
                                ![a].m = Points!Started("point")]
          /\ newest' = IF k.ans > newest THEN k.ans ELSE newest
          /\ adding' = adding /\ addDialog' = addDialog
      BY <1>1, <1>8 DEF Points!AddReturns, Points!Told
    <2>2. k.ans \in Points!Leg /\ k.ans >= s.after /\ k.ans <= legs
          /\ k.ans \in Nat /\ k.ans # None /\ k.ans # 0 /\ s.after \in Nat
          /\ s.after <= newest /\ s.at \in confirmed
      BY <1>2, <1>3, <1>8 DEF AddKnows, Points!Leg, Points!Adding
    <2>3. newest' \in 0 .. MaxLegs /\ newest <= newest' /\ newest' <= legs'
      BY <1>3, <1>4, <2>1, <2>2
    <2>4. PICK m : m = Points!Started("point")
      OBVIOUS
    <2>5. m \in AddCall /\ m.arg = "point" /\ m.st = "sent"
      BY <2>4, RetriesAssumption DEF Points!Started, AddCall, Points!Mutation
    <2>6. PICK r : r = [s EXCEPT !.leg = k.ans, !.m = m]
      OBVIOUS
    <2>7. /\ r \in Points!Adding /\ r.at = s.at /\ r.after = s.after
          /\ r.leg = k.ans /\ r.m = m
      <3>1. k.ans \in 0 .. MaxLegs \cup {None}
        BY <2>2 DEF Points!Leg
      <3>2. QED BY <2>5, <2>6, <3>1 DEF Points!Adding, AddCall
    <2>8. AddKnows(r)'
      BY <1>3, <1>4, <2>2, <2>3, <2>5, <2>7 DEF AddKnows
    <2>9. add' = [add EXCEPT ![a] = r]
      BY <1>2, <2>1, <2>4, <2>6 DEF PointsInv, Points!TypeOK
    <2>10. add' \in [Call -> Points!Adding \cup {None}] /\ AddsKnow'
      <3>1. legs' \in Nat /\ legs <= legs' /\ newest' \in Nat
            /\ confirmed \subseteq confirmed'
        BY <1>3, <1>4, <2>3
      <3>2. QED BY <2>3, <2>7, <2>8, <2>9, <3>1, AddsStep
    <2>11. Points!TypeOK'
      BY <1>4, <1>5, <1>6, <1>7, <2>1, <2>3, <2>10
         DEF PointsInv, Points!TypeOK
    <2>12. legs' \in Nat /\ legs <= legs' /\ LegsKnown'
      BY <1>3, <1>4, <1>6, <2>3
    <2>13. QED BY <1>4, <2>1, <2>10, <2>11, <2>12, PointsFrame
  <1>9. CASE ~(k.st = "ok" /\ k.arg = "leg")
    <2>1. add' = [add EXCEPT ![a] = None] /\ newest' = newest
          /\ (addDialog' => addDialog) /\ adding' \in BOOLEAN
          /\ addDialog' \in BOOLEAN
      <3>1. adding \in BOOLEAN /\ addDialog \in BOOLEAN
        BY DEF PointsInv, Points!TypeOK
      <3>2. /\ add' = [add EXCEPT ![a] = None] /\ newest' = newest
            /\ \/ adding' = adding /\ addDialog' = addDialog
               \/ adding' = FALSE /\ addDialog' = FALSE
        BY <1>1, <1>9 DEF Points!AddReturns
      <3>3. CASE adding' = adding /\ addDialog' = addDialog
        BY <3>1, <3>2, <3>3
      <3>4. CASE adding' = FALSE /\ addDialog' = FALSE
        <4>1. ~addDialog'
          BY <3>4
        <4>2. QED BY <3>2, <3>4, <4>1
      <3>5. QED BY <3>2, <3>3, <3>4
    <2>2. legs' \in Nat /\ legs <= legs' /\ newest' \in Nat
          /\ newest <= newest' /\ confirmed \subseteq confirmed' /\ LegsKnown'
      BY <1>3, <1>4, <1>6, <2>1
    <2>3. add' \in [Call -> Points!Adding \cup {None}] /\ AddsKnow'
      BY <2>1, <2>2, AddsStep
    <2>4. Points!TypeOK'
      <3>1. newest' \in 0 .. MaxLegs
        BY <1>3, <2>1
      <3>2. QED
        BY <1>3, <1>4, <1>5, <1>6, <1>7, <2>1, <2>3, <3>1
           DEF PointsInv, Points!TypeOK
    <2>5. QED BY <1>4, <2>1, <2>2, <2>3, <2>4, PointsFrame
  <1>10. QED BY <1>8, <1>9

(* Steps of the imports leave the adds alone.                                *)
LEMMA AddsFrame ==
    ASSUME PointsInv, UNCHANGED <<add, confirmed>>, legs' \in Nat,
           legs <= legs', newest' \in Nat, newest <= newest'
    PROVE  AddsKnow'
  <1> SUFFICES ASSUME NEW a \in Call, add[a] # None PROVE AddKnows(add[a])'
    BY DEF AddsKnow
  <1>1. PICK s \in Points!Adding : s = add[a] /\ AddKnows(s)
    BY DEF PointsInv, Points!TypeOK, AddsKnow
  <1>2. legs \in Nat /\ newest \in Nat /\ s.after \in Nat
    BY PagesAssumption
       DEF PointsInv, Points!TypeOK, Points!Adding, Points!LegsAssumption
  <1>3. ASSUME s.m # None, s.m.st = "ok", s.m.arg = "leg"
        PROVE  /\ s.m.ans \in Points!Leg /\ s.m.ans >= s.after
               /\ s.m.ans <= legs'
    <2>1. s.m.ans \in Nat /\ s.m.ans <= legs
      BY <1>1, <1>3 DEF AddKnows, Points!Leg
    <2>2. QED BY <1>1, <1>2, <1>3, <2>1 DEF AddKnows
  <1>4. AddKnows(s)'
    BY <1>1, <1>2, <1>3 DEF AddKnows
  <1>5. QED BY <1>1, <1>4 DEF AddKnows

(* One import changes, or goes.                                              *)
LEMMA ImportsStep ==
    ASSUME PointsInv, NEW i \in Call, NEW m,
           m = None \/ (m \in ImportCall /\ ImportKnows(m)'),
           imp' = [imp EXCEPT ![i] = m], legs' \in Nat, legs <= legs'
    PROVE  imp' \in [Call -> ImportCall \cup {None}] /\ ImportsKnow'
  <1> USE DEF PointsInv, Points!TypeOK
  <1>1. imp' \in [Call -> ImportCall \cup {None}]
    BY DEF ImportCall
  <1>2. ASSUME NEW b \in Call, imp'[b] # None PROVE ImportKnows(imp[b])'
    <2>1. CASE b = i
      <3>1. imp'[b] = m /\ ImportKnows(m)'
        BY <1>2, <2>1
      <3>2. QED BY <3>1 DEF ImportKnows
    <2>2. CASE b # i
      <3>1. PICK s \in ImportCall : s = imp[b] /\ s = imp'[b]
        BY <1>2, <2>2 DEF ImportCall
      <3>2. ImportKnows(s)
        BY <1>2, <3>1 DEF ImportsKnow
      <3>3. legs \in Nat /\ (s.st = "ok" => s.ans \in Nat)
        BY <3>2, PagesAssumption
           DEF ImportKnows, Points!LegsAssumption, Points!Leg
      <3>4. ImportKnows(s)'
        BY <3>2, <3>3 DEF ImportKnows
      <3>5. QED BY <3>1, <3>4 DEF ImportKnows
    <2>3. QED BY <2>1, <2>2
  <1>3. QED BY <1>1, <1>2 DEF ImportsKnow

LEMMA ConfirmImportStep ==
    ASSUME PointsInv, NEW i \in Call, Points!HandleImportGpxConfirm(i)
    PROVE  PointsInv'
  <1> USE PagesAssumption DEF Points!LegsAssumption
  <1> USE DEF Points!HandleImportGpxConfirm, Points!server, Points!adder,
              Points!adds, Points!ghosts
  <1>1. /\ legs' \in Nat /\ legs <= legs' /\ newest' \in Nat
        /\ newest <= newest'
    BY DEF PointsInv, Points!TypeOK
  <1>2. PICK m : m = Points!Started(file)
    OBVIOUS
  <1>3. m \in ImportCall /\ m.arg = file /\ m.st = "sent"
    BY <1>2, RetriesAssumption
       DEF Points!Started, ImportCall, Points!Mutation, PointsInv,
           Points!TypeOK
  <1>4. imp' = [imp EXCEPT ![i] = m]
    BY <1>2
  <1>5. imp' \in [Call -> ImportCall \cup {None}] /\ ImportsKnow'
    <2>1. ImportKnows(m)'
      BY <1>3 DEF ImportKnows
    <2>2. QED BY <1>1, <1>3, <1>4, <2>1, ImportsStep
  <1>6. Points!TypeOK'
    <2>1. added' \in 0 .. MaxCalls
      BY DEF PointsInv, Points!TypeOK
    <2>2. QED BY <1>5, <2>1 DEF PointsInv, Points!TypeOK, ImportCall
  <1>7. LegsKnown'
    BY DEF PointsInv, LegsKnown
  <1>8. AddsKnow'
    BY <1>1, AddsFrame
  <1>9. WatchesOwn'
    <2>1. watch' = i /\ file' # None /\ imp'[i] = m /\ file' = file
      BY <1>4 DEF PointsInv, Points!TypeOK
    <2>2. QED BY <1>3, <2>1 DEF WatchesOwn
  <1>10. Points!AddedWhereConfirmed' /\ (addDialog' => place' \in Thing)
    BY DEF PointsInv, Points!AddedWhereConfirmed
  <1>11. QED BY <1>5, <1>6, <1>7, <1>8, <1>9, <1>10 DEF PointsInv

LEMMA ImportReturnsStep ==
    ASSUME PointsInv, NEW i \in Call, Points!ImportReturns(i)
    PROVE  PointsInv'
  <1> USE PagesAssumption DEF Points!LegsAssumption
  <1>1. PICK k \in ImportCall : k = imp[i] /\ ImportKnows(k) /\ k.st # "sent"
    BY DEF PointsInv, Points!TypeOK, ImportCall, Points!ImportReturns,
           ImportsKnow
  <1>2. legs \in 0 .. MaxLegs /\ newest \in 0 .. MaxLegs /\ newest <= legs
    BY DEF PointsInv, Points!TypeOK, LegsKnown
  <1>3. /\ UNCHANGED <<legs, points, pointsMade, place, add, latest, added,
                       adding, addDialog, confirmed>>
        /\ imp' = [imp EXCEPT ![i] = None]
    BY DEF Points!ImportReturns, Points!server, Points!adder, Points!adds
  <1>4. /\ newest' \in 0 .. MaxLegs /\ newest <= newest' /\ newest' <= legs
        /\ k.st # "ok" => newest' = newest
    <2>1. CASE k.st = "ok"
      <3>1. newest' = IF k.ans > newest THEN k.ans ELSE newest
        BY <1>1, <2>1 DEF Points!ImportReturns, Points!Told
      <3>2. k.ans \in Nat /\ k.ans <= legs
        BY <1>1, <2>1 DEF ImportKnows, Points!Leg
      <3>3. QED BY <1>2, <2>1, <3>1, <3>2
    <2>2. CASE k.st # "ok"
      BY <1>1, <1>2, <2>2 DEF Points!ImportReturns
    <2>3. QED BY <2>1, <2>2
  <1>5. /\ legsQuery' \in Points!Query(0 .. MaxLegs \cup {None})
        /\ fresh' \in BOOLEAN /\ LegsKnown'
    <2>1. CASE k.st = "ok"
      <3>1. legsQuery' = Points!Asked(legsQuery) /\ fresh' = FALSE
        BY <1>1, <2>1
           DEF Points!ImportReturns, Points!AfterImport, Points!Invalidate
      <3>2. newest' <= legs'
        BY <1>3, <1>4
      <3>3. QED BY <3>1, <3>2, JoinedLegs
    <2>2. CASE k.st # "ok"
      <3>1. UNCHANGED <<legsQuery, fresh>>
        BY <1>1, <2>2 DEF Points!ImportReturns, Points!AfterImport
      <3>2. QED BY <1>3, <1>4, <2>2, <3>1
                DEF PointsInv, Points!TypeOK, LegsKnown
    <2>3. QED BY <2>1, <2>2
  <1>6. /\ file' \in {file, None} /\ watch' \in {watch, None}
        /\ banner' \in {banner, k.arg} /\ impError' \in BOOLEAN
        /\ watch' # None => watch' # i /\ watch' = watch /\ file' = file
    BY <1>1 DEF Points!ImportReturns, Points!IsWatched, PointsInv,
                Points!TypeOK
  <1>7. /\ legs' \in Nat /\ legs <= legs' /\ newest' \in Nat
    BY <1>2, <1>3, <1>4
  <1>8. AddsKnow'
    BY <1>3, <1>4, <1>7, AddsFrame
  <1>9. imp' \in [Call -> ImportCall \cup {None}] /\ ImportsKnow'
    BY <1>3, <1>7, ImportsStep
  <1>10. Points!TypeOK'
    <2>1. /\ file' \in Thing \cup {None} /\ watch' \in Call \cup {None}
          /\ banner' \in Thing \cup {None}
      BY <1>1, <1>6 DEF PointsInv, Points!TypeOK, ImportCall, Points!Mutation
    <2>2. QED BY <1>3, <1>4, <1>5, <1>6, <1>9, <2>1
              DEF PointsInv, Points!TypeOK, ImportCall
  <1>11. WatchesOwn'
    <2>1. SUFFICES ASSUME watch' # None
                   PROVE  /\ file' # None
                          /\ imp'[watch'] # None
                               => imp'[watch'].arg = file'
      BY DEF WatchesOwn
    <2>2. watch' # i /\ watch' = watch /\ file' = file /\ watch \in Call
      BY <1>6, <2>1 DEF PointsInv, Points!TypeOK
    <2>3. imp'[watch'] = imp[watch]
      BY <1>3, <2>2 DEF PointsInv, Points!TypeOK
    <2>4. QED BY <2>1, <2>2, <2>3 DEF PointsInv, WatchesOwn
  <1>12. Points!AddedWhereConfirmed' /\ (addDialog' => place' \in Thing)
    BY <1>3 DEF PointsInv, Points!AddedWhereConfirmed
  <1>13. QED
    BY <1>5, <1>8, <1>9, <1>10, <1>11, <1>12 DEF PointsInv

(* What an import becomes while it is under way.                             *)
LEMMA ImportMoves ==
    ASSUME PointsInv, NEW i \in Call, NEW m \in ImportCall, imp[i] # None,
           imp' = [imp EXCEPT ![i] = m], m.arg = imp[i].arg,
           ImportKnows(m)', legs' \in Nat, legs <= legs',
           UNCHANGED <<file, watch>>
    PROVE  /\ imp' \in [Call -> ImportCall \cup {None}]
           /\ ImportsKnow' /\ WatchesOwn'
  <1>1. imp' \in [Call -> ImportCall \cup {None}] /\ ImportsKnow'
    BY ImportsStep
  <1>2. WatchesOwn'
    <2>1. SUFFICES ASSUME watch # None, imp'[watch] # None
                   PROVE  imp'[watch].arg = file
      BY DEF WatchesOwn, PointsInv
    <2>2. watch \in Call
      BY <2>1 DEF PointsInv, Points!TypeOK
    <2>3. CASE watch = i
      BY <2>1, <2>2, <2>3 DEF PointsInv, Points!TypeOK, WatchesOwn
    <2>4. CASE watch # i
      BY <2>1, <2>2, <2>4 DEF PointsInv, Points!TypeOK, WatchesOwn
    <2>5. QED BY <2>3, <2>4
  <1>3. QED BY <1>1, <1>2

LEMMA MissImportStep ==
    ASSUME PointsInv, NEW i \in Call, Points!MissImport(i)
    PROVE  PointsInv'
  <1> USE DEF Points!MissImport, Points!server, Points!adder,
              Points!adds, Points!importer, Points!ghosts
  <1>1. PICK k \in ImportCall : k = imp[i]
    BY DEF PointsInv, Points!TypeOK, ImportCall
  <1>2. PICK m : m = Points!Missed(k)
    OBVIOUS
  <1>3. m \in ImportCall /\ m.arg = k.arg /\ m.st # "ok"
    BY <1>2, ImportMissed
  <1>4. legs' \in Nat /\ legs <= legs' /\ newest' \in Nat /\ newest <= newest'
    BY DEF PointsInv, Points!TypeOK
  <1>5. /\ imp' \in [Call -> ImportCall \cup {None}]
        /\ ImportsKnow' /\ WatchesOwn'
    <2>1. imp' = [imp EXCEPT ![i] = m] /\ ImportKnows(m)'
      BY <1>1, <1>2, <1>3 DEF ImportKnows
    <2>2. QED BY <1>1, <1>3, <1>4, <2>1, ImportMoves
  <1>6. Points!TypeOK'
    BY <1>5 DEF PointsInv, Points!TypeOK, ImportCall
  <1>7. LegsKnown'
    BY DEF PointsInv, LegsKnown
  <1>8. AddsKnow'
    BY <1>4, AddsFrame
  <1>9. Points!AddedWhereConfirmed' /\ (addDialog' => place' \in Thing)
    BY DEF PointsInv, Points!AddedWhereConfirmed
  <1>10. QED BY <1>5, <1>6, <1>7, <1>8, <1>9 DEF PointsInv

LEMMA ServeImportStep ==
    ASSUME PointsInv, NEW i \in Call, Points!ServeImport(i)
    PROVE  PointsInv'
  <1> USE PagesAssumption DEF Points!LegsAssumption
  <1>1. PICK k \in ImportCall : k = imp[i]
    BY DEF PointsInv, Points!TypeOK, ImportCall, Points!ServeImport
  <1>2. legs \in 0 .. MaxLegs /\ pointsMade \in 0 .. MaxRows /\ newest <= legs
        /\ newest \in Nat
    BY DEF PointsInv, Points!TypeOK, LegsKnown
  <1>3. UNCHANGED <<legsQuery, fresh, adding, addDialog, place, add, latest,
                    added, file, watch, impError, banner, confirmed, newest>>
    BY DEF Points!ServeImport, Points!adder, Points!adds, Points!importer,
           Points!ghosts
  <1>4. /\ legs < MaxLegs /\ legs' = legs + 1 /\ pointsMade < MaxRows
        /\ pointsMade' = pointsMade + 1 /\ imp[i] # None
        /\ points' = points \cup {[id |-> pointsMade + 1, leg |-> legs + 1,
                                   at |-> None]}
        /\ imp' = [imp EXCEPT ![i] = Points!Done(@, legs + 1)]
    BY DEF Points!ServeImport, Points!NewLeg, Points!Insert
  <1>5. PICK m : m = Points!Done(k, legs + 1)
    OBVIOUS
  <1>6. legs + 1 \in Points!Leg /\ pointsMade + 1 \in 1 .. MaxRows
    BY <1>2, <1>4 DEF Points!Leg
  <1>7. m \in ImportCall /\ m.arg = k.arg /\ m.ans = legs + 1
    BY <1>5, <1>6 DEF Points!Done, ImportCall, Points!Mutation
  <1>8. /\ legs' \in Nat /\ legs <= legs' /\ newest' \in Nat
        /\ newest <= newest'
    BY <1>2, <1>3, <1>4
  <1>9. /\ imp' \in [Call -> ImportCall \cup {None}]
        /\ ImportsKnow' /\ WatchesOwn'
    <2>1. imp' = [imp EXCEPT ![i] = m]
      BY <1>1, <1>4, <1>5
    <2>2. ImportKnows(m)'
      BY <1>2, <1>4, <1>6, <1>7 DEF ImportKnows
    <2>3. UNCHANGED <<file, watch>>
      BY <1>3
    <2>4. QED BY <1>1, <1>4, <1>7, <1>8, <2>1, <2>2, <2>3, ImportMoves
  <1>10. Points!TypeOK'
    <2>1. legs' \in 0 .. MaxLegs /\ pointsMade' \in 0 .. MaxRows
      BY <1>2, <1>4
    <2>2. points' \subseteq Points!Row
      BY <1>4, <1>6 DEF PointsInv, Points!TypeOK, Points!Row
    <2>3. QED BY <1>3, <1>9, <2>1, <2>2
              DEF PointsInv, Points!TypeOK, ImportCall
  <1>11. LegsKnown'
    BY <1>2, <1>3, <1>4 DEF PointsInv, LegsKnown
  <1>12. AddsKnow'
    BY <1>3, <1>8, AddsFrame
  <1>13. Points!AddedWhereConfirmed' /\ (addDialog' => place' \in Thing)
    BY <1>3, <1>4 DEF PointsInv, Points!AddedWhereConfirmed
  <1>14. QED BY <1>9, <1>10, <1>11, <1>12, <1>13 DEF PointsInv

LEMMA PointsStep == PointsInv /\ [Points!Next]_(Points!vars) => PointsInv'
  <1> SUFFICES ASSUME PointsInv, [Points!Next]_(Points!vars) PROVE PointsInv'
    OBVIOUS
  <1>1. CASE UNCHANGED Points!vars
    <2>1. UNCHANGED <<legs, points, pointsMade, legsQuery, fresh, adding,
                      addDialog, place, add, latest, imp, added, file,
                      watch, impError, banner, confirmed, newest>>
      BY <1>1 DEF Points!vars, Points!server, Points!adder, Points!adds,
                  Points!importer, Points!ghosts
    <2>2. QED
      BY <2>1 DEF PointsInv, Points!TypeOK, LegsKnown, AddsKnow, AddKnows,
                  ImportsKnow, ImportKnows, WatchesOwn,
                  Points!AddedWhereConfirmed
  <1>2. CASE Points!Next
    <2>1. CASE \/ Points!LegsAge \/ Points!ToggleAdding
               \/ Points!HandleCancelAddWaypoint \/ Points!HideBanner
               \/ \E p \in Thing : Points!HandleMapClick(p)
               \/ \E f \in Thing : Points!HandleImportGpxFileInputChange(f)
               \/ Points!HandleImportGpxCancel
      BY <2>1, PointsPageSteps
    <2>2. CASE \/ Points!LegsCame \/ Points!LegsFail \/ Points!ListLegs
      BY <2>2, LegsCameStep, LegsFailStep, ListLegsStep
    <2>3. ASSUME NEW a \in Call,
                 \/ Points!HandleConfirmAddWaypoint(a) \/ Points!Go(a)
                 \/ Points!AddReturns(a) \/ Points!ServeAdd(a)
                 \/ Points!MissAdd(a)
          PROVE  PointsInv'
      BY <2>3, ConfirmAddStep, GoStep, AddReturnsStep, ServeAddStep,
         MissAddStep
    <2>4. ASSUME NEW i \in Call,
                 \/ Points!HandleImportGpxConfirm(i)
                 \/ Points!ImportReturns(i) \/ Points!ServeImport(i)
                 \/ Points!MissImport(i)
          PROVE  PointsInv'
      BY <2>4, ConfirmImportStep, ImportReturnsStep, ServeImportStep,
         MissImportStep
    <2>5. QED BY <1>2, <2>1, <2>2, <2>3, <2>4, Zenon DEF Points!Next
  <1>3. QED BY <1>1, <1>2

LEMMA PointsAlways == Points!Spec => []PointsInv
  BY PointsStart, PointsStep, PTL DEF Points!Spec

(* NotOnOlderLeg and the closing of the dialog follow.                       *)
LEMMA PointsPromise ==
    PointsInv => Points!AddedWhereConfirmed /\ Points!NotOnOlderLeg
  <1> SUFFICES ASSUME PointsInv, NEW a \in Call, add[a] # None,
                      add[a].m # None, add[a].m.arg = "point",
                      ~add[a].behind
               PROVE  add[a].leg >= add[a].after
    BY DEF PointsInv, Points!NotOnOlderLeg
  <1>1. AddKnows(add[a])
    BY DEF PointsInv, AddsKnow
  <1>2. QED BY <1>1 DEF AddKnows

LEMMA BannerStep ==
    PointsInv /\ [Points!Next]_(Points!vars)
      => (file # None /\ banner' # banner /\ banner' # None
            => file' = None /\ banner' = file)
  <1> SUFFICES ASSUME PointsInv, [Points!Next]_(Points!vars), file # None,
                      banner' # banner, banner' # None
               PROVE  file' = None /\ banner' = file
    OBVIOUS
  <1>1. \E i \in Call : Points!ImportReturns(i)
    <2>1. ~UNCHANGED Points!vars /\ ~Points!HideBanner
      BY DEF Points!vars, Points!importer, Points!HideBanner
    <2>2. ~(Points!LegsCame \/ Points!LegsFail \/ Points!LegsAge)
      BY DEF Points!LegsCame, Points!LegsFail, Points!LegsAge,
             Points!importer
    <2>3. ~(Points!ToggleAdding \/ Points!HandleCancelAddWaypoint
            \/ Points!ListLegs \/ Points!HandleImportGpxCancel)
      BY DEF Points!ToggleAdding, Points!HandleCancelAddWaypoint,
             Points!ListLegs, Points!HandleImportGpxCancel, Points!importer
    <2>4. ASSUME NEW p \in Thing
          PROVE  ~(Points!HandleMapClick(p)
                   \/ Points!HandleImportGpxFileInputChange(p))
      BY DEF Points!HandleMapClick, Points!HandleImportGpxFileInputChange,
             Points!importer
    <2>5. ASSUME NEW a \in Call
          PROVE  ~(Points!HandleConfirmAddWaypoint(a) \/ Points!Go(a)
                   \/ Points!AddReturns(a) \/ Points!ServeAdd(a)
                   \/ Points!MissAdd(a) \/ Points!HandleImportGpxConfirm(a)
                   \/ Points!ServeImport(a) \/ Points!MissImport(a))
      BY DEF Points!HandleConfirmAddWaypoint, Points!Go, Points!AddReturns,
             Points!ServeAdd, Points!MissAdd, Points!HandleImportGpxConfirm,
             Points!ServeImport, Points!MissImport, Points!importer
    <2>6. QED
      BY <2>1, <2>2, <2>3, <2>4, <2>5, Zenon DEF Points!Next
  <1>2. PICK i \in Call : Points!ImportReturns(i)
    BY <1>1
  <1>3. watch = i /\ file' = None /\ banner' = imp[i].arg /\ imp[i] # None
    BY <1>2 DEF Points!ImportReturns, Points!IsWatched
  <1>4. imp[watch] # None => imp[watch].arg = file
    BY <1>3, PagesAssumption
       DEF PointsInv, WatchesOwn, Points!TypeOK, Points!LegsAssumption
  <1>5. QED BY <1>3, <1>4
-----------------------------------------------------------------------------
(* Events.  With no call under way, a list that came back is what is there,  *)
(* and so is the list that is shown, unless the last fetch failed or it was  *)
(* invalidated on its way.                                                  *)
EventsRead == {Events!RowToEvent(r) : r \in events}
NoEventCalls == \A c \in Call : eventCall[c] = None

EventsFollow ==
    NoEventCalls =>
        /\ eventsQuery.st = "answered" /\ ~eventsQuery.behind
             => eventsQuery.got = EventsRead
        /\ Events!Settled(eventsQuery) /\ ~eventsQuery.behind
           /\ eventsQuery.data # None
             => eventsQuery.data = EventsRead

EventsInv == Events!TypeOK /\ EventsFollow

EventCall == Events!Mutation(Events!Arg, {None})
EventQuery == [data : (SUBSET Events!Row) \cup {None},
               got : (SUBSET Events!Row) \cup {None},
               st : {"idle", "asked", "answered"}, err : BOOLEAN,
               behind : BOOLEAN]

LEMMA EventsStart == Events!Init => EventsInv
  <1> SUFFICES ASSUME Events!Init PROVE EventsInv
    OBVIOUS
  <1> USE PagesAssumption DEF Events!OthersAssumption, Events!Init
  <1>1. /\ eventsMade \in 0 .. MaxRows /\ eventSent \in 0 .. MaxCalls
        /\ events \in SUBSET Events!Row
    OBVIOUS
  <1>2. eventsQuery \in EventQuery
    BY DEF Events!Opened, EventQuery
  <1>3. form \in Events!Form
    <2>1. 1 \in Events!Time
      BY DEF Events!Time
    <2>2. [t \in Required \cup Optional |-> "empty"]
            \in [Required \cup Optional -> Events!Field]
      BY DEF Events!Field
    <2>3. QED BY <2>1, <2>2, Zenon DEF Events!Blank, Events!Form
  <1>4. eventCall \in [Call -> EventCall \cup {None}] /\ eventDialog \in BOOLEAN
    OBVIOUS
  <1>5. Events!TypeOK
    BY <1>1, <1>2, <1>3, <1>4, Zenon DEF Events!TypeOK, EventCall, EventQuery
  <1>6. EventsFollow
    BY DEF EventsFollow, Events!Opened, Events!Settled
  <1>7. QED BY <1>5, <1>6 DEF EventsInv

LEMMA EventMissed ==
    ASSUME NEW m \in EventCall
    PROVE  Events!Missed(m) \in EventCall
  <1> USE DEF EventCall, Events!Mutation, Events!Missed, Events!Started
  <1>1. CASE m.tries < Retries
    <2>1. m.tries + 1 \in 0 .. Retries
      BY <1>1, RetriesAssumption
    <2>2. QED BY <1>1, <2>1
  <1>2. CASE ~(m.tries < Retries)
    <2>1. Events!Missed(m) = [m EXCEPT !.st = "error", !.ans = None]
      BY <1>2
    <2>2. QED BY <2>1
  <1>3. QED BY <1>1, <1>2

(* What the dialog sends is an event that the API takes.                     *)
LEMMA EventLogged ==
    ASSUME Events!TypeOK, Events!IsFormValid, form.at # None
    PROVE  [kind |-> "log", type |-> form.type, at |-> form.at,
            payload |-> Events!BuildPayload] \in Events!Arg
  <1>1. form.type \in Events!EventType /\ form.at \in Events!Time
    BY DEF Events!TypeOK, Events!Form, Events!IsFormValid
  <1>2. Events!BuildPayload \in Events!Payload \cup {None}
    <2>1. CASE form.type = Note
      BY <2>1 DEF Events!BuildPayload
    <2>2. CASE form.type # Note
      <3>1. form.type \in Required \cup Optional
        BY <1>1, <2>2 DEF Events!EventType
      <3>2. form.field[form.type] \in Events!Field
        BY <3>1 DEF Events!TypeOK, Events!Form
      <3>3. [type |-> form.type, field |-> form.field[form.type]]
              \in Events!Payload
        BY <1>1, <2>2, <3>2 DEF Events!Payload
      <3>4. QED BY <2>2, <3>3 DEF Events!BuildPayload
    <2>3. QED BY <2>1, <2>2
  <1>3. QED BY <1>1, <1>2 DEF Events!Arg

LEMMA EventBegun ==
    ASSUME Events!TypeOK, NEW a \in Events!Arg, Events!Begin(a)
    PROVE  /\ eventCall' \in [Call -> EventCall \cup {None}]
           /\ eventSent' \in 0 .. MaxCalls /\ ~NoEventCalls'
  <1> USE DEF Events!Begin, Events!TypeOK
  <1>1. eventSent' \in 0 .. MaxCalls
    BY PagesAssumption DEF Events!OthersAssumption
  <1>2. Events!Started(a) \in EventCall /\ Events!Started(a) # None
    BY RetriesAssumption, PagesAssumption
       DEF Events!Started, EventCall, Events!Mutation,
           Events!OthersAssumption
  <1>3. PICK c \in Call : eventCall' = [eventCall EXCEPT ![c] =
                                           Events!Started(a)]
    OBVIOUS
  <1>4. eventCall' \in [Call -> EventCall \cup {None}]
    BY <1>2, <1>3 DEF EventCall
  <1>5. eventCall'[c] # None
    BY <1>2, <1>3
  <1>6. QED BY <1>1, <1>4, <1>5 DEF NoEventCalls

(* The row of an event, as the server reads it.                              *)
LEMMA EventRead ==
    ASSUME events \subseteq Events!Row
    PROVE  EventsRead \subseteq Events!Row
  BY DEF EventsRead, Events!RowToEvent, Events!Row

LEMMA EventCreated ==
    ASSUME Events!TypeOK,
           NEW type \in Events!EventType, NEW t \in Events!Time,
           NEW end \in Events!Time \cup {None},
           NEW p \in Events!Payload \cup {None},
           Events!Create(type, t, end, p)
    PROVE  events' \subseteq Events!Row /\ eventsMade' \in 0 .. MaxRows
  <1> USE DEF Events!Create
  <1>0. MaxRows \in Nat /\ MaxTime \in Nat
    BY PagesAssumption DEF Events!OthersAssumption
  <1>1. eventsMade \in 0 .. MaxRows /\ eventsMade < MaxRows
    BY DEF Events!TypeOK
  <1>2. PICK r : r = [id |-> eventsMade + 1, type |-> type, at |-> t,
                      end |-> end, payload |-> p]
    OBVIOUS
  <1>3. r \in Events!Row
    <2>1. eventsMade + 1 \in 1 .. MaxRows
      BY <1>0, <1>1
    <2>2. QED BY <1>2, <2>1 DEF Events!Row
  <1>4. events' = events \cup {r} /\ eventsMade' = eventsMade + 1
    BY <1>2
  <1>5. QED BY <1>0, <1>1, <1>3, <1>4 DEF Events!TypeOK

LEMMA EventDeleted ==
    ASSUME Events!TypeOK, NEW id, Events!Delete(id)
    PROVE  events' \subseteq Events!Row /\ eventsMade' \in 0 .. MaxRows
  BY DEF Events!Delete, Events!TypeOK

(* Without other clients, the steps of the page keep both.                   *)
LEMMA EventDialogSteps ==
    ASSUME EventsInv,
           Events!OpenDialog \/ Events!Cancel \/ Events!Fill
    PROVE  EventsInv'
  <1>1. UNCHANGED <<events, eventsMade, eventsQuery, eventCall, eventSent>>
    BY DEF Events!OpenDialog, Events!Cancel, Events!Fill
  <1>2. eventDialog' \in BOOLEAN
    BY DEF Events!OpenDialog, Events!Cancel, Events!Fill, EventsInv,
           Events!TypeOK
  <1>3. form' \in Events!Form
    <2>1. CASE Events!OpenDialog
      BY <2>1 DEF Events!OpenDialog, EventsInv, Events!TypeOK
    <2>2. CASE Events!Cancel
      <3>1. 1 \in Events!Time
        BY PagesAssumption DEF Events!Time, Events!OthersAssumption
      <3>2. [t \in Required \cup Optional |-> "empty"]
              \in [Required \cup Optional -> Events!Field]
        BY DEF Events!Field
      <3>3. Events!Blank \in Events!Form
        BY <3>1, <3>2, Zenon DEF Events!Blank, Events!Form
      <3>4. QED BY <2>2, <3>3 DEF Events!Cancel
    <2>3. CASE Events!Fill
      BY <2>3 DEF Events!Fill, EventsInv, Events!TypeOK, Events!Form
    <2>4. QED BY <2>1, <2>2, <2>3
  <1>4. Events!TypeOK'
    BY <1>1, <1>2, <1>3 DEF EventsInv, Events!TypeOK
  <1>5. EventsRead' = EventsRead
    BY <1>1 DEF EventsRead, Events!RowToEvent, Events!Reads
  <1>6. EventsFollow'
    BY <1>1, <1>5 DEF EventsInv, EventsFollow, NoEventCalls
  <1>7. QED BY <1>4, <1>6 DEF EventsInv

LEMMA EventBeginSteps ==
    ASSUME EventsInv,
           Events!HandleSubmit \/ \E id \in 1 .. MaxRows :
                                     Events!HandleDelete(id)
    PROVE  EventsInv'
  <1>1. UNCHANGED <<events, eventsMade, eventsQuery, eventDialog, form>>
    BY DEF Events!HandleSubmit, Events!HandleDelete, Events!dialog
  <1>2. PICK a \in Events!Arg : Events!Begin(a)
    <2>1. CASE Events!HandleSubmit
      BY <2>1, EventLogged DEF Events!HandleSubmit, EventsInv
    <2>2. ASSUME NEW id \in 1 .. MaxRows, Events!HandleDelete(id)
          PROVE  \E a \in Events!Arg : Events!Begin(a)
      <3>1. [kind |-> "delete", id |-> id] \in Events!Arg
        BY DEF Events!Arg
      <3>2. QED BY <2>2, <3>1 DEF Events!HandleDelete
    <2>3. QED BY <2>1, <2>2
  <1>3. /\ eventCall' \in [Call -> EventCall \cup {None}]
        /\ eventSent' \in 0 .. MaxCalls /\ ~NoEventCalls'
    BY <1>2, EventBegun DEF EventsInv
  <1>4. Events!TypeOK'
    BY <1>1, <1>3 DEF EventsInv, Events!TypeOK, EventCall
  <1>5. QED BY <1>3, <1>4 DEF EventsInv, EventsFollow

LEMMA EventFetchSteps ==
    ASSUME EventsInv,
           \/ Events!Fetched \/ Events!FetchFails \/ Events!Refetch
           \/ Events!List
    PROVE  EventsInv'
  <1>1. UNCHANGED <<events, eventsMade, eventDialog, form, eventCall,
                    eventSent>>
    BY DEF Events!Fetched, Events!FetchFails, Events!Refetch, Events!List,
           Events!dialog
  <1>2. EventsRead' = EventsRead /\ EventsRead \subseteq Events!Row
        /\ eventsQuery \in EventQuery
    BY <1>1, EventRead
       DEF EventsRead, Events!RowToEvent, Events!Reads, EventsInv,
           Events!TypeOK, EventQuery
  <1>3. /\ eventsQuery' \in EventQuery
        /\ eventsQuery'.st = "answered" => eventsQuery'.got = EventsRead
        /\ Events!Settled(eventsQuery') =>
              /\ eventsQuery.st = "answered"
              /\ eventsQuery'.data = eventsQuery.got
              /\ eventsQuery'.behind = eventsQuery.behind
    <2>1. CASE Events!Fetched
      <3>1. eventsQuery' = [eventsQuery EXCEPT !.data = eventsQuery.got,
                               !.st = "idle", !.got = None, !.err = FALSE]
            /\ eventsQuery.st = "answered"
        BY <2>1 DEF Events!Fetched, Events!Arrived
      <3>2. QED BY <1>2, <3>1 DEF EventQuery
    <2>2. CASE Events!FetchFails
      BY <1>2, <2>2 DEF Events!FetchFails, Events!Failed, EventQuery,
                        Events!Settled
    <2>3. CASE Events!Refetch
      BY <1>2, <2>3 DEF Events!Refetch, Events!Asked, EventQuery,
                        Events!Settled
    <2>4. CASE Events!List
      <3>1. eventsQuery' = [eventsQuery EXCEPT !.st = "answered",
                                               !.got = EventsRead]
        BY <2>4 DEF Events!List, Events!Answered, EventsRead
      <3>2. QED BY <1>2, <3>1 DEF EventQuery, Events!Settled
    <2>5. QED BY <2>1, <2>2, <2>3, <2>4
  <1>4. Events!TypeOK'
    BY <1>1, <1>3 DEF EventsInv, Events!TypeOK, EventQuery
  <1>5. NoEventCalls' <=> NoEventCalls
    BY <1>1 DEF NoEventCalls
  <1>6. EventsFollow'
    <2>1. Events!Settled(eventsQuery)' <=> Events!Settled(eventsQuery')
      BY DEF Events!Settled
    <2>2. QED BY <1>2, <1>3, <1>5, <2>1 DEF EventsFollow, EventsInv
  <1>7. QED BY <1>4, <1>6 DEF EventsInv

LEMMA EventReturnStep ==
    ASSUME EventsInv, NEW c \in Call, Events!Return(c)
    PROVE  EventsInv'
  <1> USE DEF Events!Return
  <1>1. UNCHANGED <<events, eventsMade, form, eventSent>>
    OBVIOUS
  <1>2. eventsQuery \in EventQuery
    BY DEF EventsInv, Events!TypeOK, EventQuery
  <1>3. /\ eventsQuery' \in EventQuery /\ eventsQuery'.st # "idle"
        /\ eventsQuery'.st = "answered" => eventsQuery'.behind
    BY <1>2 DEF Events!AfterCall, Events!Asked, Events!Marked, EventQuery
  <1>4. eventCall' \in [Call -> EventCall \cup {None}]
    BY DEF EventsInv, Events!TypeOK, EventCall
  <1>5. Events!TypeOK'
    BY <1>1, <1>3, <1>4 DEF EventsInv, Events!TypeOK, EventQuery, EventCall
  <1>6. EventsFollow'
    BY <1>3 DEF EventsFollow, Events!Settled
  <1>7. QED BY <1>5, <1>6 DEF EventsInv

LEMMA EventCallSteps ==
    ASSUME EventsInv, NEW c \in Call, Events!Serve(c) \/ Events!Miss(c)
    PROVE  EventsInv'
  <1>1. UNCHANGED <<eventsQuery, eventDialog, form, eventSent>>
    BY DEF Events!Serve, Events!Miss, Events!dialog
  <1>2. PICK k \in EventCall : k = eventCall[c]
    BY DEF EventsInv, Events!TypeOK, EventCall, Events!Serve, Events!Miss
  <1>3. PICK m \in EventCall : eventCall' = [eventCall EXCEPT ![c] = m]
    <2>1. CASE Events!Serve(c)
      <3>1. Events!Done(k, None) \in EventCall
        BY DEF Events!Done, EventCall, Events!Mutation
      <3>2. QED BY <1>2, <2>1, <3>1 DEF Events!Serve
    <2>2. CASE Events!Miss(c)
      <3>1. Events!Missed(k) \in EventCall
        BY EventMissed
      <3>2. QED BY <1>2, <2>2, <3>1 DEF Events!Miss
    <2>3. QED BY <2>1, <2>2
  <1>4. eventCall' \in [Call -> EventCall \cup {None}] /\ eventCall'[c] = m
    BY <1>3 DEF EventsInv, Events!TypeOK, EventCall
  <1>5. events' \subseteq Events!Row /\ eventsMade' \in 0 .. MaxRows
    <2>1. CASE Events!Miss(c)
      BY <2>1 DEF Events!Miss, EventsInv, Events!TypeOK
    <2>2. CASE Events!Serve(c)
      <3>1. k.arg \in Events!Arg
        BY DEF EventCall, Events!Mutation
      <3>2. CASE k.arg.kind = "log" /\ Events!Create(k.arg.type, k.arg.at,
                                                    None, k.arg.payload)
        <4>1. /\ k.arg.type \in Events!EventType
              /\ k.arg.at \in Events!Time
              /\ k.arg.payload \in Events!Payload \cup {None}
          BY <3>1, <3>2 DEF Events!Arg
        <4>2. QED BY <3>2, <4>1, EventCreated DEF EventsInv
      <3>3. CASE k.arg.kind = "delete" /\ Events!Delete(k.arg.id)
        BY <3>3, EventDeleted DEF EventsInv
      <3>4. QED BY <1>2, <2>2, <3>2, <3>3 DEF Events!Serve
    <2>3. QED BY <2>1, <2>2
  <1>6. Events!TypeOK'
    BY <1>1, <1>4, <1>5 DEF EventsInv, Events!TypeOK, EventCall
  <1>7. EventsFollow'
    BY <1>4, PagesAssumption
       DEF EventsFollow, NoEventCalls, EventCall, Events!OthersAssumption
  <1>8. QED BY <1>6, <1>7 DEF EventsInv

LEMMA EventsStep == EventsInv /\ [Events!Next]_(Events!vars) => EventsInv'
  <1> SUFFICES ASSUME EventsInv, [Events!Next]_(Events!vars)
               PROVE  EventsInv'
    OBVIOUS
  <1>1. CASE UNCHANGED Events!vars
    <2>1. UNCHANGED <<events, eventsMade, eventsQuery, eventDialog, form,
                      eventCall, eventSent>>
      BY <1>1 DEF Events!vars, Events!dialog
    <2>2. EventsRead' = EventsRead
      BY <2>1 DEF EventsRead, Events!RowToEvent, Events!Reads
    <2>3. QED
      BY <2>1, <2>2 DEF EventsInv, Events!TypeOK, EventsFollow, NoEventCalls
  <1>2. CASE Events!Next
    <2>1. ~Events!Other
      BY DEF Events!Other
    <2>2. CASE Events!OpenDialog \/ Events!Cancel \/ Events!Fill
      BY <2>2, EventDialogSteps
    <2>3. CASE Events!HandleSubmit \/ \E id \in 1 .. MaxRows :
                                         Events!HandleDelete(id)
      BY <2>3, EventBeginSteps
    <2>4. CASE \/ Events!Fetched \/ Events!FetchFails \/ Events!Refetch
               \/ Events!List
      BY <2>4, EventFetchSteps
    <2>5. ASSUME NEW c \in Call,
                 Events!Return(c) \/ Events!Serve(c) \/ Events!Miss(c)
          PROVE  EventsInv'
      BY <2>5, EventReturnStep, EventCallSteps
    <2>6. QED
      BY <1>2, <2>1, <2>2, <2>3, <2>4, <2>5, Zenon DEF Events!Next
  <1>3. QED BY <1>1, <1>2

LEMMA EventsAlways == Events!Spec => []EventsInv
  BY EventsStart, EventsStep, PTL DEF Events!Spec
-----------------------------------------------------------------------------
(* The same events with other clients, who make and move them at any time:   *)
(* the list may be behind.                                                  *)
ApiCall == Api!Mutation(Api!Arg, {None})
ApiQuery == [data : (SUBSET Api!Row) \cup {None},
             got : (SUBSET Api!Row) \cup {None},
             st : {"idle", "asked", "answered"}, err : BOOLEAN,
             behind : BOOLEAN]

ApiTable == events \subseteq Api!Row /\ eventsMade \in 0 .. ApiRows

LEMMA ApiBlank == Api!Blank \in Api!Form
  <1>1. 1 \in Api!Time
    BY PagesAssumption DEF Api!Time, Api!OthersAssumption
  <1>2. [t \in ApiRequired \cup ApiOptional |-> "empty"]
          \in [ApiRequired \cup ApiOptional -> Api!Field]
    BY DEF Api!Field
  <1>3. QED BY <1>1, <1>2, Zenon DEF Api!Blank, Api!Form

LEMMA ApiStart == Api!Init => Api!TypeOK
  <1> SUFFICES ASSUME Api!Init PROVE Api!TypeOK
    OBVIOUS
  <1> USE PagesAssumption DEF Api!OthersAssumption, Api!Init
  <1>1. /\ eventsMade \in 0 .. ApiRows /\ eventSent \in 0 .. ApiCalls
        /\ events \in SUBSET Api!Row
    OBVIOUS
  <1>2. eventsQuery \in ApiQuery
    BY DEF Api!Opened, ApiQuery
  <1>3. eventCall \in [Call -> ApiCall \cup {None}] /\ eventDialog \in BOOLEAN
    OBVIOUS
  <1>4. QED
    BY <1>1, <1>2, <1>3, ApiBlank, Zenon DEF Api!TypeOK, ApiCall, ApiQuery

LEMMA ApiMissed ==
    ASSUME NEW m \in ApiCall
    PROVE  Api!Missed(m) \in ApiCall
  <1> USE DEF ApiCall, Api!Mutation, Api!Missed, Api!Started
  <1>1. CASE m.tries < Retries
    <2>1. m.tries + 1 \in 0 .. Retries
      BY <1>1, RetriesAssumption
    <2>2. QED BY <1>1, <2>1
  <1>2. CASE ~(m.tries < Retries)
    <2>1. Api!Missed(m) = [m EXCEPT !.st = "error", !.ans = None]
      BY <1>2
    <2>2. QED BY <2>1
  <1>3. QED BY <1>1, <1>2

LEMMA ApiLogged ==
    ASSUME Api!TypeOK, Api!IsFormValid, form.at # None
    PROVE  [kind |-> "log", type |-> form.type, at |-> form.at,
            payload |-> Api!BuildPayload] \in Api!Arg
  <1>1. form.type \in Api!EventType /\ form.at \in Api!Time
    BY DEF Api!TypeOK, Api!Form, Api!IsFormValid
  <1>2. Api!BuildPayload \in Api!Payload \cup {None}
    <2>1. CASE form.type = Note
      BY <2>1 DEF Api!BuildPayload
    <2>2. CASE form.type # Note
      <3>1. form.type \in ApiRequired \cup ApiOptional
        BY <1>1, <2>2 DEF Api!EventType
      <3>2. form.field[form.type] \in Api!Field
        BY <3>1 DEF Api!TypeOK, Api!Form
      <3>3. [type |-> form.type, field |-> form.field[form.type]]
              \in Api!Payload
        BY <1>1, <2>2, <3>2 DEF Api!Payload
      <3>4. QED BY <2>2, <3>3 DEF Api!BuildPayload
    <2>3. QED BY <2>1, <2>2
  <1>3. QED BY <1>1, <1>2 DEF Api!Arg

LEMMA ApiBegun ==
    ASSUME Api!TypeOK, NEW a \in Api!Arg, Api!Begin(a)
    PROVE  /\ eventCall' \in [Call -> ApiCall \cup {None}]
           /\ eventSent' \in 0 .. ApiCalls
  <1>1. Api!Started(a) \in ApiCall
    BY RetriesAssumption DEF Api!Started, ApiCall, Api!Mutation
  <1>2. QED
    BY <1>1, PagesAssumption
       DEF Api!Begin, Api!TypeOK, ApiCall, Api!OthersAssumption

(* The statements of the repository.                                        *)
LEMMA ApiBounds == ApiRows \in Nat
  BY PagesAssumption DEF Api!OthersAssumption

LEMMA ApiCreated ==
    ASSUME Api!TypeOK, NEW type \in Api!EventType, NEW t \in Api!Time,
           NEW end \in Api!Time \cup {None},
           NEW p \in Api!Payload \cup {None},
           Api!Create(type, t, end, p)
    PROVE  ApiTable'
  <1> USE ApiBounds DEF Api!Create
  <1>1. eventsMade \in 0 .. ApiRows /\ eventsMade < ApiRows
    BY DEF Api!TypeOK
  <1>2. PICK r : r = [id |-> eventsMade + 1, type |-> type, at |-> t,
                      end |-> end, payload |-> p]
    OBVIOUS
  <1>3. r \in Api!Row
    <2>1. eventsMade + 1 \in 1 .. ApiRows
      BY <1>1
    <2>2. QED BY <1>2, <2>1 DEF Api!Row
  <1>4. events' = events \cup {r} /\ eventsMade' = eventsMade + 1
    BY <1>2
  <1>5. QED BY <1>1, <1>3, <1>4 DEF ApiTable, Api!TypeOK

LEMMA ApiUpdated ==
    ASSUME Api!TypeOK, NEW id, NEW t \in Api!Time \cup {None},
           NEW end \in Api!Time \cup {None},
           NEW p \in Api!Payload \cup {None},
           Api!Update(id, t, end, p)
    PROVE  ApiTable'
  <1>1. PICK r \in events :
           /\ events' = (events \ {r}) \cup {Api!Updated(r, t, end, p)}
           /\ eventsMade' = eventsMade
    BY DEF Api!Update
  <1>2. r \in Api!Row
    BY DEF Api!TypeOK
  <1>3. PICK u : u = Api!Updated(r, t, end, p)
    OBVIOUS
  <1>4. u \in Api!Row
    BY <1>2, <1>3 DEF Api!Updated, Api!Row
  <1>5. QED BY <1>1, <1>3, <1>4 DEF ApiTable, Api!TypeOK

LEMMA ApiDeleted ==
    ASSUME Api!TypeOK, NEW id, Api!Delete(id)
    PROVE  ApiTable'
  BY DEF Api!Delete, ApiTable, Api!TypeOK

LEMMA ApiTableStep ==
    ASSUME Api!TypeOK, ApiTable',
           UNCHANGED <<eventsQuery, eventDialog, form, eventSent>>,
           eventCall' \in [Call -> ApiCall \cup {None}]
    PROVE  Api!TypeOK'
  BY DEF ApiTable, Api!TypeOK, ApiCall

LEMMA ApiOtherStep == ASSUME Api!TypeOK, Api!Other PROVE Api!TypeOK'
  <1>1. /\ UNCHANGED <<eventsQuery, eventDialog, form, eventSent>>
        /\ eventCall' \in [Call -> ApiCall \cup {None}]
    BY DEF Api!Other, Api!dialog, Api!TypeOK, ApiCall
  <1>2. ApiTable'
    <2>1. PICK end \in Api!Time \cup {None}, p \in Api!Payload \cup {None} :
             \/ \E type \in Api!EventType, t \in Api!Time :
                   Api!Create(type, t, end, p)
             \/ \E id \in 1 .. ApiRows, t \in Api!Time \cup {None} :
                   Api!Update(id, t, end, p)
             \/ \E id \in 1 .. ApiRows : Api!Delete(id)
      BY DEF Api!Other
    <2>2. QED BY <2>1, ApiCreated, ApiUpdated, ApiDeleted
  <1>3. QED BY <1>1, <1>2, ApiTableStep

LEMMA ApiCallSteps ==
    ASSUME Api!TypeOK, NEW c \in Call, Api!Serve(c) \/ Api!Miss(c)
    PROVE  Api!TypeOK'
  <1>1. UNCHANGED <<eventsQuery, eventDialog, form, eventSent>>
    BY DEF Api!Serve, Api!Miss, Api!dialog
  <1>2. PICK k \in ApiCall : k = eventCall[c]
    BY DEF Api!TypeOK, ApiCall, Api!Serve, Api!Miss
  <1>3. PICK m \in ApiCall : eventCall' = [eventCall EXCEPT ![c] = m]
    <2>1. CASE Api!Serve(c)
      <3>1. Api!Done(k, None) \in ApiCall
        BY DEF Api!Done, ApiCall, Api!Mutation
      <3>2. QED BY <1>2, <2>1, <3>1 DEF Api!Serve
    <2>2. CASE Api!Miss(c)
      <3>1. Api!Missed(k) \in ApiCall
        BY ApiMissed
      <3>2. QED BY <1>2, <2>2, <3>1 DEF Api!Miss
    <2>3. QED BY <2>1, <2>2
  <1>4. eventCall' \in [Call -> ApiCall \cup {None}]
    BY <1>3 DEF Api!TypeOK, ApiCall
  <1>5. ApiTable'
    <2>1. CASE Api!Miss(c)
      BY <2>1 DEF Api!Miss, ApiTable, Api!TypeOK
    <2>2. CASE Api!Serve(c)
      <3>1. k.arg \in Api!Arg
        BY DEF ApiCall, Api!Mutation
      <3>2. CASE k.arg.kind = "log" /\ Api!Create(k.arg.type, k.arg.at,
                                                  None, k.arg.payload)
        <4>1. /\ k.arg.type \in Api!EventType
              /\ k.arg.at \in Api!Time
              /\ k.arg.payload \in Api!Payload \cup {None}
          BY <3>1, <3>2 DEF Api!Arg
        <4>2. QED BY <3>2, <4>1, ApiCreated
      <3>3. CASE k.arg.kind = "delete" /\ Api!Delete(k.arg.id)
        BY <3>3, ApiDeleted
      <3>4. QED BY <1>2, <2>2, <3>2, <3>3 DEF Api!Serve
    <2>3. QED BY <2>1, <2>2
  <1>6. QED BY <1>1, <1>4, <1>5, ApiTableStep

LEMMA ApiPageStep ==
    ASSUME Api!TypeOK, UNCHANGED <<events, eventsMade>>,
           eventsQuery' \in ApiQuery, eventDialog' \in BOOLEAN,
           form' \in Api!Form,
           eventCall' \in [Call -> ApiCall \cup {None}],
           eventSent' \in 0 .. ApiCalls
    PROVE  Api!TypeOK'
  BY DEF Api!TypeOK, ApiQuery, ApiCall

LEMMA ApiPageSteps ==
    ASSUME Api!TypeOK,
           \/ Api!OpenDialog \/ Api!Cancel \/ Api!Fill \/ Api!HandleSubmit
           \/ \E id \in 1 .. ApiRows : Api!HandleDelete(id)
           \/ Api!Fetched \/ Api!FetchFails \/ Api!Refetch \/ Api!List
           \/ \E c \in Call : Api!Return(c)
    PROVE  Api!TypeOK'
  <1>1. /\ eventDialog \in BOOLEAN /\ form \in Api!Form
        /\ eventsQuery \in ApiQuery /\ events \subseteq Api!Row
        /\ eventCall \in [Call -> ApiCall \cup {None}]
        /\ eventSent \in 0 .. ApiCalls
    BY DEF Api!TypeOK, ApiQuery, ApiCall
  <1>2. CASE Api!OpenDialog \/ Api!Cancel
    BY <1>1, <1>2, ApiBlank, ApiPageStep DEF Api!OpenDialog, Api!Cancel
  <1>3. CASE Api!Fill
    <2>1. form' \in Api!Form
      BY <1>1, <1>3 DEF Api!Fill, Api!Form
    <2>2. QED BY <1>1, <1>3, <2>1, ApiPageStep DEF Api!Fill
  <1>4. CASE Api!HandleSubmit \/ \E id \in 1 .. ApiRows :
                                    Api!HandleDelete(id)
    <2>1. PICK a \in Api!Arg : Api!Begin(a)
      <3>1. CASE Api!HandleSubmit
        BY <3>1, ApiLogged DEF Api!HandleSubmit
      <3>2. ASSUME NEW id \in 1 .. ApiRows, Api!HandleDelete(id)
            PROVE  \E a \in Api!Arg : Api!Begin(a)
        <4>1. [kind |-> "delete", id |-> id] \in Api!Arg
          BY DEF Api!Arg
        <4>2. QED BY <3>2, <4>1 DEF Api!HandleDelete
      <3>3. QED BY <1>4, <3>1, <3>2
    <2>2. /\ eventCall' \in [Call -> ApiCall \cup {None}]
          /\ eventSent' \in 0 .. ApiCalls
      BY <2>1, ApiBegun
    <2>3. UNCHANGED <<events, eventsMade, eventsQuery, eventDialog, form>>
      BY <1>4 DEF Api!HandleSubmit, Api!HandleDelete, Api!dialog
    <2>4. QED BY <1>1, <2>2, <2>3, ApiPageStep
  <1>5. CASE Api!Fetched \/ Api!FetchFails \/ Api!Refetch \/ Api!List
    <2>1. UNCHANGED <<events, eventsMade, eventDialog, form, eventCall,
                      eventSent>>
      BY <1>5 DEF Api!Fetched, Api!FetchFails, Api!Refetch, Api!List,
                  Api!dialog
    <2>2. PICK read \in SUBSET Api!Row :
             read = {Api!RowToEvent(r) : r \in events}
      BY <1>1 DEF Api!RowToEvent, Api!Row
    <2>3. eventsQuery' \in ApiQuery
      <3>1. CASE Api!Fetched
        BY <1>1, <3>1 DEF Api!Fetched, Api!Arrived, ApiQuery
      <3>2. CASE Api!FetchFails
        BY <1>1, <3>2 DEF Api!FetchFails, Api!Failed, ApiQuery
      <3>3. CASE Api!Refetch
        BY <1>1, <3>3 DEF Api!Refetch, Api!Asked, ApiQuery
      <3>4. CASE Api!List
        <4>1. eventsQuery' = [eventsQuery EXCEPT !.st = "answered",
                                                 !.got = read]
          BY <2>2, <3>4 DEF Api!List, Api!Answered
        <4>2. QED BY <1>1, <4>1 DEF ApiQuery
      <3>5. QED BY <1>5, <3>1, <3>2, <3>3, <3>4
    <2>4. QED BY <1>1, <2>1, <2>3, ApiPageStep
  <1>6. ASSUME NEW c \in Call, Api!Return(c) PROVE Api!TypeOK'
    <2>1. /\ UNCHANGED <<events, eventsMade, form, eventSent>>
          /\ eventDialog' \in BOOLEAN
      BY <1>6 DEF Api!Return
    <2>2. eventsQuery' \in ApiQuery
      BY <1>1, <1>6 DEF Api!Return, Api!AfterCall, Api!Asked, Api!Marked,
                          ApiQuery
    <2>3. eventCall' \in [Call -> ApiCall \cup {None}]
      BY <1>1, <1>6 DEF Api!Return
    <2>4. QED BY <1>1, <2>1, <2>2, <2>3, ApiPageStep
  <1>7. QED BY <1>2, <1>3, <1>4, <1>5, <1>6

LEMMA ApiStep == Api!TypeOK /\ [Api!Next]_(Api!vars) => Api!TypeOK'
  <1> SUFFICES ASSUME Api!TypeOK, [Api!Next]_(Api!vars) PROVE Api!TypeOK'
    OBVIOUS
  <1>1. CASE UNCHANGED Api!vars
    BY <1>1 DEF Api!vars, Api!dialog, Api!TypeOK
  <1>2. CASE Api!Next
    <2>1. CASE \/ Api!OpenDialog \/ Api!Cancel \/ Api!Fill
               \/ Api!HandleSubmit
               \/ \E id \in 1 .. ApiRows : Api!HandleDelete(id)
               \/ Api!Fetched \/ Api!FetchFails \/ Api!Refetch \/ Api!List
               \/ \E c \in Call : Api!Return(c)
      BY <2>1, ApiPageSteps
    <2>2. ASSUME NEW c \in Call, Api!Serve(c) \/ Api!Miss(c)
          PROVE  Api!TypeOK'
      BY <2>2, ApiCallSteps
    <2>3. QED
      BY <1>2, <2>1, <2>2, ApiOtherStep, Zenon DEF Api!Next
  <1>3. QED BY <1>1, <1>2

LEMMA ApiAlways == Api!Spec => []Api!TypeOK
  BY ApiStart, ApiStep, PTL DEF Api!Spec
-----------------------------------------------------------------------------
(* The list of trips.  It is marked stale only while another page is shown.  *)
(* With no call under way, a list that came back is what there is, and so is *)
(* the list that is kept, unless it is marked, its last fetch failed, or it  *)
(* was invalidated on its way.                                              *)
NoTripCalls == \A c \in Call : tripCall[c] = None

TripsFollow ==
    /\ where = Trips!TripsPage => ~stale
    /\ NoTripCalls =>
         /\ tripsQuery.st = "answered" /\ ~tripsQuery.behind
              => tripsQuery.got = trips
         /\ Trips!Settled(tripsQuery) /\ ~stale /\ ~tripsQuery.behind
            /\ tripsQuery.data # None
              => tripsQuery.data = trips

\* A call that succeeded names its trip.
TripsNamed == \A c \in Call : tripCall[c] # None /\ tripCall[c].st = "ok"
                                => tripCall[c].ans \in Trips!Id

TripsInv == Trips!TypeOK /\ TripsFollow /\ TripsNamed

TripCall == Trips!Mutation(Trips!Arg, Trips!Id \cup {None})
TripQuery == Trips!Query((SUBSET Trips!Entry) \cup {None})

LEMMA TripBounds ==
    /\ MaxCalls \in Nat /\ MaxTrips \in Nat \ {0} /\ MaxGo \in Nat
    /\ None \notin TripCall
    /\ Trips!TripsPage \notin Trips!Id
  BY PagesAssumption
     DEF Trips!TripsAssumption, TripCall, Trips!TripsPage, Trips!Id

LEMMA TripsStart == Trips!Init => TripsInv
  <1> SUFFICES ASSUME Trips!Init PROVE TripsInv
    OBVIOUS
  <1> USE TripBounds DEF Trips!Init
  <1>1. /\ used \in 0 .. MaxTrips /\ trips \subseteq Trips!Id
        /\ where \in Trips!Page /\ dialog \in BOOLEAN /\ stale \in BOOLEAN
    <2>1. used \in 0 .. MaxTrips
      OBVIOUS
    <2>2. trips \subseteq Trips!Id
      BY <2>1 DEF Trips!Id
    <2>3. where \in Trips!Page
      BY DEF Trips!Page
    <2>4. QED BY <2>1, <2>2, <2>3
  <1>2. tripsQuery \in TripQuery
    BY DEF Trips!Opened, TripQuery, Trips!Query
  <1>3. tripCall \in [Call -> TripCall \cup {None}]
    OBVIOUS
  <1>4. mine \subseteq Call /\ landing \subseteq Trips!Id
        /\ tripSent \in 0 .. MaxCalls /\ went \in 0 .. MaxGo
    OBVIOUS
  <1>5. Trips!TypeOK
    BY <1>1, <1>2, <1>3, <1>4, Zenon DEF Trips!TypeOK, TripCall, TripQuery
  <1>6. TripsFollow
    BY DEF TripsFollow, Trips!Opened, Trips!Settled
  <1>7. TripsNamed
    BY DEF TripsNamed
  <1>8. QED BY <1>5, <1>6, <1>7 DEF TripsInv

LEMMA TripMissed ==
    ASSUME NEW m \in TripCall
    PROVE  Trips!Missed(m) \in TripCall /\ Trips!Missed(m).st # "ok"
  <1> USE DEF TripCall, Trips!Mutation, Trips!Missed, Trips!Started
  <1>1. CASE m.tries < Retries
    <2>1. m.tries + 1 \in 0 .. Retries
      BY <1>1, RetriesAssumption
    <2>2. QED BY <1>1, <2>1
  <1>2. CASE ~(m.tries < Retries)
    <2>1. Trips!Missed(m) = [m EXCEPT !.st = "error", !.ans = None]
      BY <1>2
    <2>2. QED BY <2>1
  <1>3. QED BY <1>1, <1>2

(* A page is gone to with a list q that is marked, or not.  A list at rest   *)
(* that is marked is not shown as it is.                                    *)
LEMMA TripsTo ==
    ASSUME TripsInv, NEW page \in Trips!Page, NEW q \in TripQuery,
           NEW old \in BOOLEAN, Trips!To(page, q, old),
           where = Trips!TripsPage => ~old
    PROVE  /\ where' = page /\ tripsQuery' \in TripQuery /\ stale' \in BOOLEAN
           /\ dialog' \in BOOLEAN /\ mine' \subseteq Call
           /\ where' = Trips!TripsPage => ~stale'
           /\ \/ tripsQuery' = q /\ stale' = old
              \/ /\ tripsQuery' = q /\ stale' = FALSE
                 /\ ~old \/ q.st # "idle"
              \/ tripsQuery' = Trips!Asked(q) /\ q.st = "idle"
  <1> USE DEF Trips!To
  <1>1. dialog \in BOOLEAN /\ mine \subseteq Call
    BY DEF TripsInv, Trips!TypeOK
  <1>2. Trips!Asked(q) \in TripQuery
    BY DEF Trips!Asked, Trips!Marked, TripQuery, Trips!Query
  <1>3. CASE page = where
    BY <1>1, <1>3
  <1>4. CASE page # where
    <2>1. CASE page # Trips!TripsPage
      BY <1>4, <2>1
    <2>2. CASE page = Trips!TripsPage
      <3>1. dialog' = FALSE /\ mine' = {} /\ stale' = FALSE
        BY <1>4, <2>2
      <3>2. CASE q.st # "idle"
        BY <1>4, <2>2, <3>1, <3>2
      <3>3. CASE q.st = "idle" /\ old
        BY <1>2, <1>4, <2>2, <3>1, <3>3
      <3>4. CASE q.st = "idle" /\ ~old
        BY <1>2, <1>4, <2>2, <3>1, <3>4
      <3>5. QED BY <3>2, <3>3, <3>4
    <2>3. QED BY <2>1, <2>2
  <1>5. QED BY <1>3, <1>4

(* Steps that go from one page to another, and no call begins or ends.       *)
LEMMA TripsGoSteps ==
    ASSUME TripsInv,
           \/ \E page \in Trips!Page : Trips!Go(page)
           \/ \E i \in Trips!Id : Trips!Land(i)
    PROVE  TripsInv'
  <1>1. PICK q \in TripQuery : q = tripsQuery
    BY DEF TripsInv, Trips!TypeOK, TripQuery
  <1>2. PICK old \in BOOLEAN : old = stale
    BY DEF TripsInv, Trips!TypeOK
  <1>3. PICK page \in Trips!Page : Trips!To(page, q, old)
    <2>1. ASSUME NEW page \in Trips!Page, Trips!Go(page)
          PROVE  Trips!To(page, q, old)
      BY <1>1, <1>2, <2>1 DEF Trips!Go
    <2>2. ASSUME NEW i \in Trips!Id, Trips!Land(i)
          PROVE  i \in Trips!Page /\ Trips!To(i, q, old)
      BY <1>1, <1>2, <2>2 DEF Trips!Land, Trips!Page, Trips!Entry
    <2>3. QED BY <2>1, <2>2
  <1>4. /\ UNCHANGED <<trips, used, tripCall, tripSent>>
        /\ landing' \subseteq Trips!Id /\ went' \in 0 .. MaxGo
    BY TripBounds DEF Trips!Go, Trips!Land, TripsInv, Trips!TypeOK
  <1>5. where = Trips!TripsPage => ~old
    BY <1>2 DEF TripsInv, TripsFollow
  <1>6. /\ where' = page /\ tripsQuery' \in TripQuery /\ stale' \in BOOLEAN
        /\ dialog' \in BOOLEAN /\ mine' \subseteq Call
        /\ where' = Trips!TripsPage => ~stale'
        /\ \/ tripsQuery' = q /\ (stale' = old \/ ~old \/ q.st # "idle")
           \/ tripsQuery' = Trips!Asked(q) /\ q.st = "idle"
    BY <1>3, <1>5, TripsTo
  <1>7. Trips!TypeOK'
    BY <1>4, <1>6 DEF TripsInv, Trips!TypeOK, TripQuery
  <1>8. NoTripCalls' =>
          /\ tripsQuery'.st = "answered" /\ ~tripsQuery'.behind
               => tripsQuery'.got = trips'
          /\ Trips!Settled(tripsQuery)' /\ ~stale' /\ ~tripsQuery'.behind
             /\ tripsQuery'.data # None
               => tripsQuery'.data = trips'
    <2>1. CASE tripsQuery' = q /\ (stale' = old \/ ~old \/ q.st # "idle")
      BY <1>1, <1>2, <1>4, <2>1
         DEF TripsInv, TripsFollow, NoTripCalls, Trips!Settled
    <2>2. CASE tripsQuery' = Trips!Asked(q) /\ q.st = "idle"
      BY <2>2 DEF Trips!Settled, Trips!Asked, TripQuery, Trips!Query
    <2>3. QED BY <1>6, <2>1, <2>2
  <1>9. TripsFollow'
    BY <1>6, <1>8 DEF TripsFollow
  <1>10. TripsNamed'
    BY <1>4 DEF TripsInv, TripsNamed
  <1>11. QED BY <1>7, <1>9, <1>10 DEF TripsInv

LEMMA TripsDialogStep ==
    ASSUME TripsInv, NEW b \in BOOLEAN, Trips!Dialog(b)
    PROVE  TripsInv'
  <1>1. /\ UNCHANGED <<trips, used, tripsQuery, stale, where, tripCall, mine,
                       landing, tripSent, went>>
        /\ dialog' \in BOOLEAN
    BY DEF Trips!Dialog
  <1>2. Trips!TypeOK'
    BY <1>1 DEF TripsInv, Trips!TypeOK
  <1>3. TripsFollow' /\ TripsNamed'
    BY <1>1 DEF TripsInv, TripsFollow, TripsNamed, NoTripCalls, Trips!Settled
  <1>4. QED BY <1>2, <1>3 DEF TripsInv

LEMMA TripsFetchSteps ==
    ASSUME TripsInv,
           \/ Trips!Fetched \/ Trips!FetchFails \/ Trips!Refetch
           \/ Trips!List
    PROVE  TripsInv'
  <1>1. UNCHANGED <<trips, used, where, dialog, tripCall, mine, landing,
                    tripSent, went>>
    BY DEF Trips!Fetched, Trips!FetchFails, Trips!Refetch, Trips!List,
           Trips!screen
  <1>2. PICK q \in TripQuery : q = tripsQuery
    BY DEF TripsInv, Trips!TypeOK, TripQuery
  <1>3. trips \in (SUBSET Trips!Entry)
    BY DEF TripsInv, Trips!TypeOK, Trips!Entry
  <1>4. /\ tripsQuery' \in TripQuery /\ stale' \in {stale, FALSE}
        /\ tripsQuery'.st = "answered" => tripsQuery'.got = trips
        /\ Trips!Settled(tripsQuery)' => /\ q.st = "answered"
                                         /\ tripsQuery'.data = q.got
                                         /\ tripsQuery'.behind = q.behind
    <2>1. CASE Trips!Fetched
      <3>1. /\ tripsQuery' = [q EXCEPT !.data = q.got, !.st = "idle",
                                       !.got = None, !.err = FALSE]
            /\ q.st = "answered" /\ stale' = FALSE
        BY <1>2, <2>1 DEF Trips!Fetched, Trips!Arrived
      <3>2. QED BY <3>1 DEF TripQuery, Trips!Query
    <2>2. CASE Trips!FetchFails
      BY <1>2, <2>2 DEF Trips!FetchFails, Trips!Failed, TripQuery,
                        Trips!Query, Trips!Settled, TripsInv, TripsFollow
    <2>3. CASE Trips!Refetch
      BY <1>2, <2>3 DEF Trips!Refetch, Trips!Asked, TripQuery, Trips!Query,
                        Trips!Settled, TripsInv, TripsFollow
    <2>4. CASE Trips!List
      BY <1>2, <1>3, <2>4
         DEF Trips!List, Trips!Answered, TripQuery, Trips!Query,
             Trips!Settled, TripsInv, TripsFollow
    <2>5. QED BY <2>1, <2>2, <2>3, <2>4
  <1>5. Trips!TypeOK'
    BY <1>1, <1>4 DEF TripsInv, Trips!TypeOK, TripQuery
  <1>6. NoTripCalls' <=> NoTripCalls
    BY <1>1 DEF NoTripCalls
  <1>7. TripsFollow'
    <2>1. where' = Trips!TripsPage => ~stale'
      BY <1>1, <1>4 DEF TripsInv, TripsFollow, Trips!TypeOK
    <2>2. ASSUME NoTripCalls', Trips!Settled(tripsQuery)',
                 ~tripsQuery'.behind
          PROVE  tripsQuery'.data = trips'
      BY <1>1, <1>2, <1>4, <1>6, <2>2 DEF TripsInv, TripsFollow
    <2>3. QED BY <1>1, <1>4, <2>1, <2>2 DEF TripsFollow
  <1>8. TripsNamed'
    BY <1>1 DEF TripsInv, TripsNamed
  <1>9. QED BY <1>5, <1>7, <1>8 DEF TripsInv

(* A call begins, and there is a call then.                                  *)
LEMMA TripBegun ==
    ASSUME TripsInv, NEW a \in Trips!Arg, Trips!Begin(a)
    PROVE  /\ tripCall' \in [Call -> TripCall \cup {None}]
           /\ mine' \subseteq Call /\ tripSent' \in 0 .. MaxCalls
           /\ ~NoTripCalls' /\ TripsNamed'
  <1> USE DEF Trips!Begin
  <1>1. tripSent' \in 0 .. MaxCalls
    BY TripBounds DEF TripsInv, Trips!TypeOK
  <1>2. /\ Trips!Started(a) \in TripCall /\ Trips!Started(a) # None
        /\ Trips!Started(a).st = "sent"
    BY RetriesAssumption, TripBounds
       DEF Trips!Started, TripCall, Trips!Mutation
  <1>3. PICK c \in Call :
           /\ tripCall' = [tripCall EXCEPT ![c] = Trips!Started(a)]
           /\ mine' = mine \cup {c}
    OBVIOUS
  <1>4. tripCall' \in [Call -> TripCall \cup {None}]
    BY <1>2, <1>3 DEF TripsInv, Trips!TypeOK, TripCall
  <1>5. tripCall'[c] # None
    BY <1>2, <1>3, <1>4 DEF TripsInv, Trips!TypeOK
  <1>6. TripsNamed'
    BY <1>2, <1>3 DEF TripsInv, Trips!TypeOK, TripsNamed
  <1>7. mine' \subseteq Call
    BY <1>3 DEF TripsInv, Trips!TypeOK
  <1>8. QED BY <1>1, <1>4, <1>5, <1>6, <1>7 DEF NoTripCalls

LEMMA TripSubmitStep == ASSUME TripsInv, Trips!Submit PROVE TripsInv'
  <1>1. PICK q \in TripQuery : q = tripsQuery
    BY DEF TripsInv, Trips!TypeOK, TripQuery
  <1>2. UNCHANGED <<trips, used, stale, where, dialog, landing, went>>
        /\ where = Trips!TripsPage
    BY DEF Trips!Submit
  <1>3. PICK t : t = Trips!Temp(tripSent + 1)
    OBVIOUS
  <1>4. PICK p : p = Trips!Cancelled(q)
    OBVIOUS
  <1>5. p \in TripQuery /\ p.data = q.data
    BY <1>4 DEF Trips!Cancelled, TripQuery, Trips!Query
  <1>6. /\ Trips!Begin([kind |-> "create", temp |-> t, snap |-> p.data])
        /\ tripsQuery' = Trips!Written(p, IF p.data = None THEN None
                                          ELSE p.data \cup {t})
    BY <1>1, <1>3, <1>4 DEF Trips!Submit
  <1>7. t \in Trips!Entry
    <2>1. tripSent < MaxCalls /\ tripSent \in 0 .. MaxCalls
      BY <1>6 DEF Trips!Begin, TripsInv, Trips!TypeOK
    <2>2. tripSent + 1 \in 1 .. MaxCalls
      BY <2>1, TripBounds
    <2>3. QED BY <1>3, <2>2 DEF Trips!Entry
  <1>8. p.data \in (SUBSET Trips!Entry) \cup {None}
    BY <1>5 DEF TripQuery, Trips!Query
  <1>9. [kind |-> "create", temp |-> t, snap |-> p.data] \in Trips!Arg
    BY <1>7, <1>8 DEF Trips!Arg
  <1>10. /\ tripCall' \in [Call -> TripCall \cup {None}]
         /\ mine' \subseteq Call /\ tripSent' \in 0 .. MaxCalls
         /\ ~NoTripCalls' /\ TripsNamed'
    BY <1>6, <1>9, TripBegun
  <1>11. tripsQuery' \in TripQuery
    <2>1. CASE p.data = None
      BY <1>5, <1>6, <2>1 DEF Trips!Written
    <2>2. CASE p.data # None
      <3>1. p.data \cup {t} \in (SUBSET Trips!Entry) \cup {None}
        BY <1>7, <1>8, <2>2
      <3>2. QED BY <1>5, <1>6, <2>2, <3>1
                DEF Trips!Written, TripQuery, Trips!Query
    <2>3. QED BY <2>1, <2>2
  <1>12. Trips!TypeOK'
    BY <1>2, <1>10, <1>11 DEF TripsInv, Trips!TypeOK, TripCall, TripQuery
  <1>13. TripsFollow'
    BY <1>2, <1>10 DEF TripsInv, TripsFollow
  <1>14. QED BY <1>10, <1>12, <1>13 DEF TripsInv

LEMMA TripDeleteStep == ASSUME TripsInv, Trips!Delete PROVE TripsInv'
  <1>1. UNCHANGED <<trips, used, tripsQuery, stale, where, dialog, landing,
                    went>>
    BY DEF Trips!Delete
  <1>2. PICK a \in Trips!Arg : Trips!Begin(a)
    <2>1. [kind |-> "delete", id |-> where] \in Trips!Arg
      BY DEF Trips!Delete, Trips!Arg
    <2>2. QED BY <2>1 DEF Trips!Delete
  <1>3. /\ tripCall' \in [Call -> TripCall \cup {None}]
        /\ mine' \subseteq Call /\ tripSent' \in 0 .. MaxCalls
        /\ ~NoTripCalls' /\ TripsNamed'
    BY <1>2, TripBegun
  <1>4. Trips!TypeOK'
    BY <1>1, <1>3 DEF TripsInv, Trips!TypeOK, TripCall
  <1>5. TripsFollow'
    BY <1>1, <1>3 DEF TripsInv, TripsFollow
  <1>6. QED BY <1>3, <1>4, <1>5 DEF TripsInv

(* A call ends: the list is fetched where it is shown, and marked where it   *)
(* is not, whatever a failed create put back into it.                        *)
LEMMA TripReturnStep ==
    ASSUME TripsInv, NEW c \in Call, Trips!Return(c)
    PROVE  TripsInv'
  <1>1. PICK m \in TripCall : m = tripCall[c] /\ m.st # "sent"
    BY DEF Trips!Return, TripsInv, Trips!TypeOK, TripCall
  <1>2. PICK q \in TripQuery : q = Trips!Rollback(tripsQuery, m)
    <2>1. PICK p \in TripQuery : p = tripsQuery
      BY DEF TripsInv, Trips!TypeOK, TripQuery
    <2>2. CASE m.arg.kind = "create" /\ m.st = "error"
      <3>1. m.arg.snap \in (SUBSET Trips!Entry) \cup {None}
        BY <2>2 DEF TripCall, Trips!Mutation, Trips!Arg
      <3>2. Trips!Written(p, m.arg.snap) \in TripQuery
        BY <3>1 DEF Trips!Written, TripQuery, Trips!Query
      <3>3. QED BY <2>1, <2>2, <3>2 DEF Trips!Rollback
    <2>3. CASE ~(m.arg.kind = "create" /\ m.st = "error")
      BY <2>1, <2>3 DEF Trips!Rollback
    <2>4. QED BY <2>2, <2>3
  <1>3. /\ Trips!Marked(q) \in TripQuery
        /\ Trips!Marked(q).st = "answered" => Trips!Marked(q).behind
    BY DEF Trips!Marked, TripQuery, Trips!Query
  <1>4. /\ Trips!Asked(q) \in TripQuery /\ Trips!Asked(q).st # "idle"
        /\ Trips!Asked(q).st = "answered" => Trips!Asked(q).behind
    BY DEF Trips!Asked, Trips!Marked, TripQuery, Trips!Query
  <1>5. PICK p, old : /\ p = IF where = Trips!TripsPage THEN Trips!Asked(q)
                             ELSE Trips!Marked(q)
                      /\ old = (where # Trips!TripsPage)
    OBVIOUS
  <1>6. /\ p \in TripQuery /\ old \in BOOLEAN
        /\ p.st = "answered" => p.behind
        /\ where = Trips!TripsPage => ~old /\ p.st # "idle"
        /\ where # Trips!TripsPage => old
    BY <1>3, <1>4, <1>5
  <1>7. Trips!Settle(m) = <<p, old>>
    <2>1. where = Trips!TripsPage => stale = FALSE
      BY DEF TripsInv, TripsFollow, Trips!TypeOK
    <2>2. QED BY <1>2, <1>5, <2>1 DEF Trips!Settle, Trips!Invalidates
  <1>8. /\ UNCHANGED <<trips, used, tripSent, went>>
        /\ tripCall' = [tripCall EXCEPT ![c] = None]
        /\ \/ Trips!To(Trips!TripsPage, p, old) /\ landing' = landing
           \/ /\ tripsQuery' = p /\ stale' = old
              /\ landing' = IF m.st = "ok" THEN landing \cup {m.ans}
                            ELSE landing
              /\ UNCHANGED <<where, dialog, mine>>
    BY <1>1, <1>7 DEF Trips!Return
  <1>9. landing' \subseteq Trips!Id
    <2>1. m.st = "ok" => m.ans \in Trips!Id
      BY <1>1, TripBounds DEF TripsInv, TripsNamed
    <2>2. QED BY <1>8, <2>1 DEF TripsInv, Trips!TypeOK
  <1>10. /\ where' \in Trips!Page /\ tripsQuery' \in TripQuery
         /\ stale' \in BOOLEAN /\ dialog' \in BOOLEAN /\ mine' \subseteq Call
         /\ where' = Trips!TripsPage => ~stale'
         /\ tripsQuery'.st = "answered" => tripsQuery'.behind
         /\ tripsQuery'.st = "idle" => stale'
    <2>1. CASE Trips!To(Trips!TripsPage, p, old)
      <3>1. CASE where = Trips!TripsPage
        BY <1>6, <2>1, <3>1 DEF Trips!To, TripsInv, Trips!TypeOK
      <3>2. CASE where # Trips!TripsPage
        <4>1. p.st = "idle" => /\ Trips!Asked(p) \in TripQuery
                               /\ Trips!Asked(p).st = "asked"
          BY <1>6 DEF Trips!Asked, TripQuery, Trips!Query
        <4>2. /\ where' = Trips!TripsPage /\ dialog' = FALSE /\ mine' = {}
              /\ stale' = FALSE
              /\ tripsQuery' = IF p.st # "idle" THEN p ELSE Trips!Asked(p)
          BY <1>6, <2>1, <3>2 DEF Trips!To
        <4>3. QED BY <1>6, <4>1, <4>2 DEF Trips!Page
      <3>3. QED BY <3>1, <3>2
    <2>2. CASE /\ tripsQuery' = p /\ stale' = old
               /\ UNCHANGED <<where, dialog, mine>>
      BY <1>6, <2>2 DEF TripsInv, Trips!TypeOK
    <2>3. QED BY <1>8, <2>1, <2>2
  <1>11. tripCall' \in [Call -> TripCall \cup {None}] /\ TripsNamed'
    BY <1>8 DEF TripsInv, Trips!TypeOK, TripCall, TripsNamed
  <1>12. Trips!TypeOK'
    BY <1>8, <1>9, <1>10, <1>11 DEF TripsInv, Trips!TypeOK, TripCall, TripQuery
  <1>13. TripsFollow'
    BY <1>10 DEF TripsFollow, Trips!Settled
  <1>14. QED BY <1>11, <1>12, <1>13 DEF TripsInv

LEMMA TripServerSteps ==
    ASSUME TripsInv, NEW c \in Call, Trips!Serve(c) \/ Trips!Miss(c)
    PROVE  TripsInv'
  <1>1. UNCHANGED <<tripsQuery, stale, where, dialog, mine, landing, tripSent,
                    went>>
    BY DEF Trips!Serve, Trips!Miss, Trips!screen
  <1>2. PICK k \in TripCall : k = tripCall[c]
    BY DEF TripsInv, Trips!TypeOK, TripCall, Trips!Serve, Trips!Miss
  <1>3. PICK m \in TripCall :
           /\ tripCall' = [tripCall EXCEPT ![c] = m]
           /\ m.st = "ok" => m.ans \in Trips!Id
           /\ trips' \subseteq Trips!Id /\ used' \in 0 .. MaxTrips
    <2>1. CASE Trips!Miss(c)
      <3>1. Trips!Missed(k) \in TripCall /\ Trips!Missed(k).st # "ok"
        BY TripMissed
      <3>2. QED BY <1>2, <2>1, <3>1 DEF Trips!Miss, TripsInv, Trips!TypeOK
    <2>2. CASE Trips!Serve(c)
      <3>1. CASE k.arg.kind = "create" /\ Trips!Create(c)
        <4>1. used + 1 \in 1 .. MaxTrips /\ used' = used + 1
              /\ trips' = trips \cup {used + 1}
          <5>1. /\ used < MaxTrips /\ used' = used + 1
                /\ trips' = trips \cup {used'}
            BY <3>1 DEF Trips!Create
          <5>2. used \in 0 .. MaxTrips
            BY DEF TripsInv, Trips!TypeOK
          <5>3. QED BY <5>1, <5>2, TripBounds
        <4>2. PICK n \in Trips!Id : n = used + 1
          BY <4>1 DEF Trips!Id
        <4>3. Trips!Done(k, n) \in TripCall /\ Trips!Done(k, n).ans = n
          BY DEF Trips!Done, TripCall, Trips!Mutation
        <4>4. tripCall' = [tripCall EXCEPT ![c] = Trips!Done(k, n)]
          BY <1>2, <3>1, <4>1, <4>2 DEF Trips!Create
        <4>5. trips' \subseteq Trips!Id /\ used' \in 0 .. MaxTrips
          <5>1. trips \subseteq Trips!Id
            BY DEF TripsInv, Trips!TypeOK
          <5>2. used' \in 0 .. MaxTrips
            BY <4>1
          <5>3. trips' \subseteq Trips!Id
            BY <4>1, <4>2, <5>1
          <5>4. QED BY <5>2, <5>3
        <4>6. PICK m : m = Trips!Done(k, n)
          OBVIOUS
        <4>7. m \in TripCall /\ m.ans \in Trips!Id
              /\ tripCall' = [tripCall EXCEPT ![c] = m]
          BY <4>3, <4>4, <4>6
        <4>8. QED BY <4>5, <4>7
      <3>2. CASE k.arg.kind = "delete" /\ Trips!Destroy(c)
        <4>1. PICK n \in Trips!Id : n = k.arg.id
          BY <3>2 DEF TripCall, Trips!Mutation, Trips!Arg
        <4>2. Trips!Done(k, n) \in TripCall /\ Trips!Done(k, n).ans = n
          BY DEF Trips!Done, TripCall, Trips!Mutation
        <4>3. /\ tripCall' = [tripCall EXCEPT ![c] = Trips!Done(k, n)]
              /\ trips' \subseteq trips /\ used' = used
          BY <1>2, <3>2, <4>1 DEF Trips!Destroy
        <4>4. QED BY <4>2, <4>3 DEF TripsInv, Trips!TypeOK
      <3>3. QED BY <1>2, <2>2, <3>1, <3>2 DEF Trips!Serve
    <2>3. QED BY <2>1, <2>2
  <1>4. /\ tripCall' \in [Call -> TripCall \cup {None}] /\ TripsNamed'
        /\ tripCall'[c] = m
    BY <1>3 DEF TripsInv, Trips!TypeOK, TripCall, TripsNamed
  <1>5. Trips!TypeOK'
    BY <1>1, <1>3, <1>4 DEF TripsInv, Trips!TypeOK, TripCall
  <1>6. TripsFollow'
    BY <1>1, <1>4, TripBounds DEF TripsInv, TripsFollow, NoTripCalls
  <1>7. QED BY <1>4, <1>5, <1>6 DEF TripsInv

LEMMA TripsStep == TripsInv /\ [Trips!Next]_(Trips!vars) => TripsInv'
  <1> SUFFICES ASSUME TripsInv, [Trips!Next]_(Trips!vars) PROVE TripsInv'
    OBVIOUS
  <1>1. CASE UNCHANGED Trips!vars
    <2>1. UNCHANGED <<trips, used, tripsQuery, stale, where, dialog, mine,
                      tripCall, landing, tripSent, went>>
      BY <1>1 DEF Trips!vars, Trips!screen
    <2>2. Trips!TypeOK'
      BY <2>1 DEF TripsInv, Trips!TypeOK
    <2>3. QED
      BY <2>1, <2>2 DEF TripsInv, TripsFollow, TripsNamed, NoTripCalls,
                        Trips!Settled
  <1>2. CASE Trips!Next
    <2>1. CASE \/ \E page \in Trips!Page : Trips!Go(page)
               \/ \E i \in Trips!Id : Trips!Land(i)
      BY <2>1, TripsGoSteps
    <2>2. CASE \E b \in BOOLEAN : Trips!Dialog(b)
      BY <2>2, TripsDialogStep
    <2>3. CASE \/ Trips!Fetched \/ Trips!FetchFails \/ Trips!Refetch
               \/ Trips!List
      BY <2>3, TripsFetchSteps
    <2>4. ASSUME NEW c \in Call,
                 Trips!Return(c) \/ Trips!Serve(c) \/ Trips!Miss(c)
          PROVE  TripsInv'
      BY <2>4, TripReturnStep, TripServerSteps
    <2>5. QED
      BY <1>2, <2>1, <2>2, <2>3, <2>4, TripSubmitStep, TripDeleteStep, Zenon
         DEF Trips!Next
  <1>3. QED BY <1>1, <1>2

LEMMA TripsAlways == Trips!Spec => []TripsInv
  BY TripsStart, TripsStep, PTL DEF Trips!Spec
-----------------------------------------------------------------------------
(* The field log.  The list follows the table as that of the events does.    *)
NoLogCalls == \A c \in Call : logCall[c] = None

LogsFollow ==
    NoLogCalls =>
        /\ logsQuery.st = "answered" /\ ~logsQuery.behind
             => logsQuery.got = logs
        /\ Logs!Settled(logsQuery) /\ ~logsQuery.behind
           /\ logsQuery.data # None
             => logsQuery.data = logs

LogsInv == Logs!TypeOK /\ LogsFollow

LogCall == Logs!Mutation(Logs!Arg, {None})
LogQuery == Logs!Query(Logs!Logs \cup {None})

LEMMA LogBounds ==
    /\ MaxCalls \in Nat /\ MaxOpens \in Nat
    /\ None \notin Logs!Form /\ None \notin LogCall
  BY PagesAssumption DEF Logs!LogsAssumption, LogCall

LEMMA LogsStart == Logs!Init => LogsInv
  <1> SUFFICES ASSUME Logs!Init PROVE LogsInv
    OBVIOUS
  <1> USE LogBounds DEF Logs!Init
  <1>1. /\ opens \in 0 .. MaxOpens /\ logSent \in 0 .. MaxCalls
        /\ paused \subseteq Call
    OBVIOUS
  <1>9. /\ trip \in {"loading", "shown", "error"}
        /\ online \in BOOLEAN /\ untold \in BOOLEAN
    OBVIOUS
  <1>2. logsQuery \in LogQuery
    BY DEF Logs!Opened, LogQuery, Logs!Query
  <1>3. logCall \in [Call -> LogCall \cup {None}]
    OBVIOUS
  <1>4. Logs!TypeOK
    BY <1>1, <1>2, <1>3, <1>9, Zenon DEF Logs!TypeOK, LogCall, LogQuery
  <1>5. LogsFollow
    BY DEF LogsFollow, Logs!Opened, Logs!Settled
  <1>6. QED BY <1>4, <1>5 DEF LogsInv

LEMMA LogMissed ==
    ASSUME NEW m \in LogCall
    PROVE  Logs!Missed(m) \in LogCall
  <1> USE DEF LogCall, Logs!Mutation, Logs!Missed, Logs!Started
  <1>1. CASE m.tries < Retries
    <2>1. m.tries + 1 \in 0 .. Retries
      BY <1>1, RetriesAssumption
    <2>2. QED BY <1>1, <2>1
  <1>2. CASE ~(m.tries < Retries)
    <2>1. Logs!Missed(m) = [m EXCEPT !.st = "error", !.ans = None]
      BY <1>2
    <2>2. QED BY <2>1
  <1>3. QED BY <1>1, <1>2

(* Steps that leave the calls alone.                                        *)
LEMMA LogsPageStep ==
    ASSUME LogsInv, UNCHANGED <<logs, logsQuery, logCall, logSent, untold>>,
           trip' \in {"loading", "shown", "error"},
           sheet' \in Logs!Form \cup {None}, opens' \in 0 .. MaxOpens,
           asks' \in OneDay \cup {None}, online' \in BOOLEAN,
           paused' \subseteq Call
    PROVE  LogsInv'
  <1>1. Logs!TypeOK'
    BY DEF LogsInv, Logs!TypeOK
  <1>2. LogsFollow'
    BY DEF LogsInv, LogsFollow, NoLogCalls, Logs!Settled
  <1>3. QED BY <1>1, <1>2 DEF LogsInv

LEMMA LogsPageSteps ==
    ASSUME LogsInv,
           \/ Logs!TripCame \/ Logs!Close \/ Logs!GoOffline \/ Logs!GoOnline
           \/ \E d \in OneDay \cup {None} : Logs!Open(d) \/ Logs!Ask(d)
    PROVE  LogsInv'
  <1>1. /\ trip \in {"loading", "shown", "error"}
        /\ sheet \in Logs!Form \cup {None} /\ opens \in 0 .. MaxOpens
        /\ asks \in OneDay \cup {None} /\ online \in BOOLEAN
        /\ paused \subseteq Call
    BY DEF LogsInv, Logs!TypeOK
  <1>2. CASE Logs!TripCame
    BY <1>1, <1>2, LogsPageStep DEF Logs!TripCame, Logs!net
  <1>3. CASE Logs!Close
    BY <1>1, <1>3, LogsPageStep DEF Logs!Close, Logs!net
  <1>4. CASE Logs!GoOffline \/ Logs!GoOnline
    BY <1>1, <1>4, LogsPageStep
       DEF Logs!GoOffline, Logs!GoOnline, Logs!page
  <1>5. ASSUME NEW d \in OneDay \cup {None}, Logs!Open(d) PROVE LogsInv'
    <2>1. opens + 1 \in 1 .. MaxOpens
      BY <1>1, <1>5, LogBounds DEF Logs!Open
    <2>2. sheet' \in Logs!Form /\ opens' \in 0 .. MaxOpens
      BY <1>5, <2>1 DEF Logs!Open, Logs!Form
    <2>3. QED
      BY <1>1, <1>5, <2>2, LogsPageStep DEF Logs!Open, Logs!net
  <1>6. ASSUME NEW d \in OneDay \cup {None}, Logs!Ask(d) PROVE LogsInv'
    BY <1>1, <1>6, LogsPageStep DEF Logs!Ask, Logs!net
  <1>7. QED BY <1>2, <1>3, <1>4, <1>5, <1>6

LEMMA LogBegun ==
    ASSUME LogsInv, NEW a \in Logs!Arg, Logs!Begin(a)
    PROVE  /\ logCall' \in [Call -> LogCall \cup {None}]
           /\ logSent' \in 0 .. MaxCalls /\ ~NoLogCalls'
  <1> USE DEF Logs!Begin
  <1>1. logSent' \in 0 .. MaxCalls
    BY LogBounds DEF LogsInv, Logs!TypeOK
  <1>2. Logs!Started(a) \in LogCall /\ Logs!Started(a) # None
    BY RetriesAssumption, LogBounds
       DEF Logs!Started, LogCall, Logs!Mutation
  <1>3. PICK c \in Call : logCall' = [logCall EXCEPT ![c] = Logs!Started(a)]
    OBVIOUS
  <1>4. logCall' \in [Call -> LogCall \cup {None}]
    BY <1>2, <1>3 DEF LogsInv, Logs!TypeOK, LogCall
  <1>5. logCall'[c] # None
    BY <1>2, <1>3 DEF LogsInv, Logs!TypeOK
  <1>6. QED BY <1>1, <1>4, <1>5 DEF NoLogCalls

LEMMA LogSubmitStep ==
    ASSUME LogsInv, NEW d \in OneDay, NEW t \in Text, Logs!Submit(d, t)
    PROVE  LogsInv'
  <1>1. PICK f \in Logs!Form : f = sheet
    BY DEF Logs!Submit, LogsInv, Logs!TypeOK
  <1>2. /\ UNCHANGED <<logs, trip, logsQuery, opens, asks, online, paused,
                       untold>>
        /\ sheet' = [f EXCEPT !.error = FALSE]
    BY <1>1 DEF Logs!Submit, Logs!net
  <1>3. sheet' \in Logs!Form
    BY <1>2 DEF Logs!Form
  <1>4. PICK a : a = [kind |-> "save", day |-> d, text |-> t, form |-> f.n]
    OBVIOUS
  <1>5. a \in Logs!Arg
    BY <1>4 DEF Logs!Arg, Logs!Form
  <1>6. Logs!Begin(a)
    BY <1>1, <1>4 DEF Logs!Submit
  <1>7. /\ logCall' \in [Call -> LogCall \cup {None}]
        /\ logSent' \in 0 .. MaxCalls /\ ~NoLogCalls'
    BY <1>5, <1>6, LogBegun
  <1>8. Logs!TypeOK'
    BY <1>2, <1>3, <1>7 DEF LogsInv, Logs!TypeOK, LogCall
  <1>9. QED BY <1>7, <1>8 DEF LogsInv, LogsFollow

LEMMA LogDeleteStep == ASSUME LogsInv, Logs!ConfirmDelete PROVE LogsInv'
  <1>1. UNCHANGED <<logs, trip, sheet, opens, asks, logsQuery, online, paused,
                    untold>>
    BY DEF Logs!ConfirmDelete, Logs!page, Logs!net
  <1>2. PICK a \in Logs!Arg : Logs!Begin(a)
    <2>1. asks \in OneDay
      BY DEF Logs!ConfirmDelete, Logs!Cards
    <2>2. [kind |-> "delete", day |-> asks] \in Logs!Arg
      BY <2>1 DEF Logs!Arg
    <2>3. QED BY <2>2 DEF Logs!ConfirmDelete
  <1>3. /\ logCall' \in [Call -> LogCall \cup {None}]
        /\ logSent' \in 0 .. MaxCalls /\ ~NoLogCalls'
    BY <1>2, LogBegun
  <1>4. Logs!TypeOK'
    BY <1>1, <1>3 DEF LogsInv, Logs!TypeOK, LogCall
  <1>5. QED BY <1>3, <1>4 DEF LogsInv, LogsFollow

LEMMA LogFetchSteps ==
    ASSUME LogsInv,
           Logs!Fetched \/ Logs!FetchFails \/ Logs!Refetch \/ Logs!List
    PROVE  LogsInv'
  <1>1. UNCHANGED <<logs, trip, sheet, opens, asks, logCall, logSent, online,
                    paused, untold>>
    BY DEF Logs!Fetched, Logs!FetchFails, Logs!Refetch, Logs!List,
           Logs!page, Logs!net
  <1>2. PICK q \in LogQuery : q = logsQuery
    BY DEF LogsInv, Logs!TypeOK, LogQuery
  <1>3. logs \in Logs!Logs
    BY DEF LogsInv, Logs!TypeOK
  <1>4. /\ logsQuery' \in LogQuery
        /\ logsQuery'.st = "answered" => logsQuery'.got = logs
        /\ Logs!Settled(logsQuery)' => /\ q.st = "answered"
                                       /\ logsQuery'.data = q.got
                                       /\ logsQuery'.behind = q.behind
    <2>1. CASE Logs!Fetched
      <3>1. logsQuery' = [q EXCEPT !.data = q.got, !.st = "idle",
                                   !.got = None, !.err = FALSE]
            /\ q.st = "answered"
        BY <1>2, <2>1 DEF Logs!Fetched, Logs!Arrived
      <3>2. logsQuery' \in LogQuery
        BY <3>1 DEF LogQuery, Logs!Query
      <3>3. QED BY <3>1, <3>2
    <2>2. CASE Logs!FetchFails
      BY <1>2, <2>2 DEF Logs!FetchFails, Logs!Failed, LogQuery, Logs!Query,
                        Logs!Settled
    <2>3. CASE Logs!Refetch
      BY <1>2, <2>3 DEF Logs!Refetch, Logs!Asked, LogQuery, Logs!Query,
                        Logs!Settled
    <2>4. CASE Logs!List
      BY <1>2, <1>3, <2>4 DEF Logs!List, Logs!Answered, LogQuery, Logs!Query,
                              Logs!Settled
    <2>5. QED BY <2>1, <2>2, <2>3, <2>4
  <1>5. Logs!TypeOK'
    BY <1>1, <1>4 DEF LogsInv, Logs!TypeOK, LogQuery
  <1>6. LogsFollow'
    <2>1. NoLogCalls' <=> NoLogCalls
      BY <1>1 DEF NoLogCalls
    <2>2. ASSUME NoLogCalls', Logs!Settled(logsQuery)',
                 ~logsQuery'.behind
          PROVE  logsQuery'.data = logs'
      BY <1>1, <1>2, <1>4, <2>1, <2>2 DEF LogsInv, LogsFollow
    <2>3. QED BY <1>1, <1>4, <2>2 DEF LogsFollow
  <1>7. QED BY <1>5, <1>6 DEF LogsInv

LEMMA LogReturnStep ==
    ASSUME LogsInv, NEW c \in Call, Logs!Return(c)
    PROVE  LogsInv'
  <1>1. PICK m \in LogCall : m = logCall[c] /\ m.st # "sent"
    BY DEF Logs!Return, LogsInv, Logs!TypeOK, LogCall
  <1>2. /\ UNCHANGED <<logs, trip, opens, logSent, online, paused>>
        /\ logCall' = [logCall EXCEPT ![c] = None]
        /\ logsQuery' = Logs!Asked(logsQuery)
    BY DEF Logs!Return, Logs!net, Logs!AfterCall
  <1>3. /\ logsQuery' \in LogQuery /\ logsQuery'.st # "idle"
        /\ logsQuery'.st = "answered" => logsQuery'.behind
    BY <1>2 DEF Logs!Asked, Logs!Marked, LogsInv, Logs!TypeOK, LogQuery,
                Logs!Query
  <1>4. logCall' \in [Call -> LogCall \cup {None}]
    BY <1>2 DEF LogsInv, Logs!TypeOK, LogCall
  <1>5. /\ sheet' \in Logs!Form \cup {None} /\ asks' \in OneDay \cup {None}
        /\ untold' \in BOOLEAN
    <2>1. CASE m.arg.kind = "save"
      <3>1. sheet' = Logs!AfterSave(m) /\ asks' = asks
        BY <1>1, <2>1 DEF Logs!Return
      <3>2. untold' \in BOOLEAN
        <4>1. untold' = (untold \/ (m.st = "error"
                 /\ ~(sheet' # None /\ sheet'.n = m.arg.form
                                    /\ sheet'.error)))
          BY <1>1, <2>1 DEF Logs!Return
        <4>2. QED BY <4>1 DEF LogsInv, Logs!TypeOK
      <3>3. CASE m.st = "ok" \/ sheet = None
        BY <3>1, <3>2, <3>3 DEF Logs!AfterSave, LogsInv, Logs!TypeOK
      <3>4. CASE ~(m.st = "ok" \/ sheet = None)
        <4>1. PICK f \in Logs!Form : f = sheet
          BY <3>4 DEF LogsInv, Logs!TypeOK
        <4>2. sheet' = [f EXCEPT !.error = @ \/ f.n = m.arg.form]
          BY <3>1, <3>4, <4>1 DEF Logs!AfterSave
        <4>3. sheet' \in Logs!Form
          BY <4>2 DEF Logs!Form
        <4>4. QED BY <3>1, <3>2, <4>3 DEF LogsInv, Logs!TypeOK
      <3>5. QED BY <3>3, <3>4
    <2>2. CASE m.arg.kind # "save"
      BY <1>1, <2>2 DEF Logs!Return, LogsInv, Logs!TypeOK
    <2>3. QED BY <2>1, <2>2
  <1>6. Logs!TypeOK'
    BY <1>2, <1>3, <1>4, <1>5 DEF LogsInv, Logs!TypeOK, LogCall, LogQuery
  <1>7. LogsFollow'
    BY <1>3 DEF LogsFollow, Logs!Settled
  <1>8. QED BY <1>6, <1>7 DEF LogsInv

LEMMA LogServerSteps ==
    ASSUME LogsInv, NEW c \in Call, Logs!Serve(c) \/ Logs!Miss(c)
    PROVE  LogsInv'
  <1>1. UNCHANGED <<trip, sheet, opens, asks, logsQuery, logSent, online,
                    untold>>
    BY DEF Logs!Serve, Logs!Miss, Logs!page, Logs!net
  <1>2. PICK k \in LogCall : k = logCall[c]
    BY DEF LogsInv, Logs!TypeOK, LogCall, Logs!Serve, Logs!Miss
  <1>3. PICK m \in LogCall : logCall' = [logCall EXCEPT ![c] = m]
    <2>1. CASE Logs!Serve(c)
      <3>1. Logs!Done(k, None) \in LogCall
        BY DEF Logs!Done, LogCall, Logs!Mutation
      <3>2. QED BY <1>2, <2>1, <3>1 DEF Logs!Serve
    <2>2. CASE Logs!Miss(c)
      BY <1>2, <2>2, LogMissed DEF Logs!Miss
    <2>3. QED BY <2>1, <2>2
  <1>4. logs' \in Logs!Logs
    <2>1. CASE Logs!Miss(c)
      BY <2>1 DEF Logs!Miss, LogsInv, Logs!TypeOK
    <2>2. CASE Logs!Serve(c)
      <3>1. CASE k.arg.kind = "save" /\ Logs!Upsert(k.arg)
        <4>1. k.arg.text \in Text
          BY <3>1 DEF LogCall, Logs!Mutation, Logs!Arg
        <4>2. QED BY <3>1, <4>1
                  DEF Logs!Upsert, LogsInv, Logs!TypeOK, Logs!Logs
      <3>2. CASE k.arg.kind = "delete" /\ Logs!Remove(k.arg)
        BY <3>2 DEF Logs!Remove, LogsInv, Logs!TypeOK, Logs!Logs
      <3>3. QED BY <1>2, <2>2, <3>1, <3>2 DEF Logs!Serve
    <2>3. QED BY <2>1, <2>2
  <1>5. paused' \subseteq Call
    BY DEF Logs!Serve, Logs!Miss, Logs!net, LogsInv, Logs!TypeOK
  <1>6. logCall' \in [Call -> LogCall \cup {None}] /\ logCall'[c] = m
    BY <1>3 DEF LogsInv, Logs!TypeOK, LogCall
  <1>7. Logs!TypeOK'
    BY <1>1, <1>4, <1>5, <1>6 DEF LogsInv, Logs!TypeOK, LogCall
  <1>8. LogsFollow'
    BY <1>6, LogBounds DEF LogsFollow, NoLogCalls
  <1>9. QED BY <1>7, <1>8 DEF LogsInv

LEMMA LogsStep == LogsInv /\ [Logs!Next]_(Logs!vars) => LogsInv'
  <1> SUFFICES ASSUME LogsInv, [Logs!Next]_(Logs!vars) PROVE LogsInv'
    OBVIOUS
  <1>1. CASE UNCHANGED Logs!vars
    <2>1. UNCHANGED <<logs, trip, sheet, opens, asks, logsQuery, logCall,
                      logSent, online, paused, untold>>
      BY <1>1 DEF Logs!vars, Logs!page, Logs!net
    <2>2. QED
      BY <2>1, LogsPageStep DEF LogsInv, Logs!TypeOK
  <1>2. CASE Logs!Next
    <2>1. CASE \/ Logs!TripCame \/ Logs!Close \/ Logs!GoOffline
               \/ Logs!GoOnline
               \/ \E d \in OneDay \cup {None} : Logs!Open(d) \/ Logs!Ask(d)
      BY <2>1, LogsPageSteps
    <2>2. CASE \E d \in OneDay, t \in Text : Logs!Submit(d, t)
      BY <2>2, LogSubmitStep
    <2>3. CASE Logs!Fetched \/ Logs!FetchFails \/ Logs!Refetch \/ Logs!List
      BY <2>3, LogFetchSteps
    <2>4. ASSUME NEW c \in Call,
                 Logs!Return(c) \/ Logs!Serve(c) \/ Logs!Miss(c)
          PROVE  LogsInv'
      BY <2>4, LogReturnStep, LogServerSteps
    <2>5. QED
      BY <1>2, <2>1, <2>2, <2>3, <2>4, LogDeleteStep, Zenon DEF Logs!Next
  <1>3. QED BY <1>1, <1>2

LEMMA LogsAlways == Logs!Spec => []LogsInv
  BY LogsStart, LogsStep, PTL DEF Logs!Spec
-----------------------------------------------------------------------------
(* The map.  A map that loads, or is loaded, is that of the last run, on an  *)
(* open page; it hears clicks if any map does.  One that is loaded has been  *)
(* told ready, or is about to be; then it shows the list of the page, or     *)
(* moves, and a move that ends makes another map.                           *)
MapRuns ==
    /\ \A r \in Map!Run : /\ r > run => st[r] = "unused"
                          /\ st[r] \in {"loading", "loaded"}
                               => mounted /\ r = run

MapHears == click # None => click = run /\ Map!Live(Map!Refs)

MapReady ==
    /\ mounted /\ st[run] = "loaded" /\ ~due
         => props.ready /\ click = run /\ (moving \/ drawn[run] = props.wps)
    /\ mounted /\ st[run] # "loaded" => ~props.ready
    /\ due => /\ mounted /\ st[run] = "loaded" /\ ~props.ready
              /\ moving \/ ~loading

MapInv == Map!TypeOK /\ MapRuns /\ MapHears /\ MapReady

Lists == Text \cup {Empty}
MapState == {"unused", "header", "loading", "loaded", "removed"}
MapRefs == [run : Map!Run, st : [Map!Run -> MapState],
            drawn : [Map!Run -> Lists \cup {None}], due : BOOLEAN,
            moving : BOOLEAN, busy : BOOLEAN, click : Map!Run \cup {None},
            count : Lists \cup {None}, fitted : BOOLEAN]

LEMMA MapBounds ==
    MaxRuns \in Nat \ {0} /\ Empty \in Lists /\ None \notin Map!Run
  BY PagesAssumption DEF Map!WpsAssumption, Points!LegsAssumption, Map!Run,
                         Lists

LEMMA MapStart == Map!Init => MapInv
  <1> SUFFICES ASSUME Map!Init PROVE MapInv
    OBVIOUS
  <1> USE DEF Map!Init
  <1>1. 1 \in Map!Run /\ run = 1
    BY MapBounds DEF Map!Run
  <1>2. props \in Map!Props /\ props.ready = FALSE
    BY MapBounds DEF Map!First, Map!Props, Lists
  <1>3. count \in Lists \cup {None}
    BY <1>2 DEF Map!FirstCount, Map!Props, Lists
  <1>4. st \in [Map!Run -> MapState] /\ drawn \in [Map!Run -> Lists \cup {None}]
    BY DEF MapState
  <1>5. /\ pmtiles \in BOOLEAN /\ mounted \in BOOLEAN /\ due \in BOOLEAN
        /\ moving \in BOOLEAN /\ loading \in BOOLEAN /\ fitted \in BOOLEAN
        /\ click \in Map!Run \cup {None}
    OBVIOUS
  <1>6. Map!TypeOK
    BY <1>1, <1>2, <1>3, <1>4, <1>5, Zenon DEF Map!TypeOK, Lists, MapState
  <1>7. MapRuns
    BY DEF MapRuns, Map!Run
  <1>8. MapHears
    BY DEF MapHears
  <1>9. st[1] # "loaded"
    BY <1>1
  <1>10. MapReady
    BY <1>1, <1>2, <1>9 DEF MapReady
  <1>11. QED BY <1>6, <1>7, <1>8, <1>10 DEF MapInv

(* What each effect does to the refs of the component.                       *)
LEMMA Drawing ==
    ASSUME NEW m \in MapRefs, NEW p \in Map!Props
    PROVE  /\ Map!Draw(m, p) \in MapRefs
           /\ Map!Draw(m, p).run = m.run /\ Map!Draw(m, p).st = m.st
           /\ Map!Draw(m, p).due = m.due /\ Map!Draw(m, p).click = m.click
           /\ Map!Draw(m, p).moving = m.moving
           /\ IF p.ready /\ Map!StyleLoaded(m)
              THEN Map!Draw(m, p).drawn[m.run] = p.wps
              ELSE Map!Draw(m, p) = m
  <1>1. CASE p.ready /\ Map!StyleLoaded(m)
    <2>1. Map!Draw(m, p) = [m EXCEPT !.drawn[m.run] = p.wps, !.busy = TRUE]
      BY <1>1 DEF Map!Draw
    <2>2. p.wps \in Lists
      BY DEF Map!Props, Lists
    <2>3. PICK f \in [Map!Run -> Lists \cup {None}] :
             f = [m.drawn EXCEPT ![m.run] = p.wps]
      BY <2>2 DEF MapRefs
    <2>4. Map!Draw(m, p) = [m EXCEPT !.drawn = f, !.busy = TRUE]
      BY <2>1, <2>3
    <2>5. Map!Draw(m, p) \in MapRefs /\ Map!Draw(m, p).drawn = f
      BY <2>4 DEF MapRefs
    <2>6. f[m.run] = p.wps
      BY <2>3 DEF MapRefs
    <2>7. QED BY <1>1, <2>4, <2>5, <2>6 DEF MapRefs
  <1>2. CASE ~(p.ready /\ Map!StyleLoaded(m))
    BY <1>2 DEF Map!Draw
  <1>3. QED BY <1>1, <1>2

LEMMA Listening ==
    ASSUME NEW m \in MapRefs, NEW p \in Map!Props
    PROVE  /\ Map!Listen(m, p) \in MapRefs
           /\ Map!Listen(m, p).run = m.run /\ Map!Listen(m, p).st = m.st
           /\ Map!Listen(m, p).due = m.due
           /\ Map!Listen(m, p).moving = m.moving
           /\ Map!Listen(m, p).busy = m.busy
           /\ Map!Listen(m, p).drawn = m.drawn
           /\ Map!Listen(m, p).click =
                 IF p.ready /\ Map!Live(m) THEN m.run ELSE None
  <1>1. PICK k \in Map!Run \cup {None} :
           k = IF p.ready /\ Map!Live(m) THEN m.run ELSE None
    BY DEF MapRefs
  <1>2. Map!Listen(m, p) = [m EXCEPT !.click = k]
    BY <1>1 DEF Map!Listen
  <1>3. QED BY <1>1, <1>2 DEF MapRefs

LEMMA Capturing ==
    ASSUME NEW m \in MapRefs, NEW p \in Map!Props
    PROVE  /\ Map!Capture(m, p) \in MapRefs
           /\ Map!Capture(m, p).run = m.run /\ Map!Capture(m, p).st = m.st
           /\ Map!Capture(m, p).due = m.due
           /\ Map!Capture(m, p).moving = m.moving
           /\ Map!Capture(m, p).busy = m.busy
           /\ Map!Capture(m, p).drawn = m.drawn
           /\ Map!Capture(m, p).click = m.click
  <1>1. p.wps \in Lists
    BY DEF Map!Props, Lists
  <1>2. QED BY <1>1 DEF Map!Capture, MapRefs

LEMMA Fitting ==
    ASSUME NEW m \in MapRefs, NEW p \in Map!Props
    PROVE  /\ Map!Fit(m, p) \in MapRefs
           /\ Map!Fit(m, p).run = m.run /\ Map!Fit(m, p).st = m.st
           /\ Map!Fit(m, p).due = m.due
           /\ m.moving => Map!Fit(m, p).moving
           /\ Map!Fit(m, p).busy = m.busy
           /\ Map!Fit(m, p).drawn = m.drawn
           /\ Map!Fit(m, p).click = m.click
           /\ ~Map!StyleLoaded(m) => Map!Fit(m, p).moving = m.moving
  <1>1. Map!Fit(m, p) \in {m, [m EXCEPT !.fitted = TRUE, !.moving = TRUE]}
        /\ (~Map!StyleLoaded(m) => Map!Fit(m, p) = m)
    BY DEF Map!Fit
  <1>2. QED BY <1>1 DEF MapRefs

(* The effects of a rendering that keeps the map: with o and p alike but for *)
(* what they depend on.                                                     *)
Kept(m, o, p, n) ==
    /\ n \in MapRefs
    /\ n.run = m.run /\ n.st = m.st /\ n.due = m.due
    /\ m.moving => n.moving
    /\ IF o.ready # p.ready /\ p.ready /\ Map!StyleLoaded(m)
       THEN n.drawn[m.run] = p.wps ELSE n.drawn = m.drawn
    /\ n.click = IF o.ready # p.ready \/ o.adding # p.adding
                 THEN IF p.ready /\ Map!Live(m) THEN m.run ELSE None
                 ELSE m.click

LEMMA EffectsKeep ==
    ASSUME NEW m \in MapRefs, NEW o \in Map!Props, NEW p \in Map!Props,
           ~Map!NewCenter(o, p)
    PROVE  Kept(m, o, p, Map!Effects(m, o, p))
  <1>1. o.wps = p.wps
    BY DEF Map!NewCenter
  <1>2. PICK b \in MapRefs :
           /\ b = IF o.ready # p.ready \/ o.wps # p.wps
                  THEN Map!Draw(m, p) ELSE m
           /\ b.run = m.run /\ b.st = m.st /\ b.due = m.due
           /\ b.moving = m.moving /\ b.click = m.click
           /\ IF o.ready # p.ready /\ p.ready /\ Map!StyleLoaded(m)
              THEN b.drawn[m.run] = p.wps ELSE b.drawn = m.drawn
    <2>1. CASE o.ready # p.ready
      BY <2>1, Drawing
    <2>2. CASE o.ready = p.ready
      BY <1>1, <2>2
    <2>3. QED BY <2>1, <2>2
  <1>3. Map!Live(b) <=> Map!Live(m)
    BY <1>2 DEF Map!Live
  <1>4. PICK c \in MapRefs :
           /\ c = IF o.ready # p.ready \/ o.adding # p.adding
                  THEN Map!Listen(b, p) ELSE b
           /\ c.run = b.run /\ c.st = b.st /\ c.due = b.due
           /\ c.moving = b.moving /\ c.drawn = b.drawn
           /\ c.click = IF o.ready # p.ready \/ o.adding # p.adding
                        THEN IF p.ready /\ Map!Live(b) THEN b.run ELSE None
                        ELSE b.click
    <2>1. CASE o.ready # p.ready \/ o.adding # p.adding
      BY <2>1, Listening
    <2>2. CASE ~(o.ready # p.ready \/ o.adding # p.adding)
      BY <2>2
    <2>3. QED BY <2>1, <2>2
  <1>5. PICK d \in MapRefs :
           /\ d = Map!Capture(c, p)
           /\ d.run = c.run /\ d.st = c.st /\ d.due = c.due
           /\ d.moving = c.moving /\ d.drawn = c.drawn /\ d.click = c.click
    BY Capturing
  <1>6. PICK n \in MapRefs :
           /\ n = IF <<o.ready, o.wps, o.fetched>>
                       # <<p.ready, p.wps, p.fetched>>
                  THEN Map!Fit(d, p) ELSE d
           /\ n.run = d.run /\ n.st = d.st /\ n.due = d.due
           /\ d.moving => n.moving
           /\ n.drawn = d.drawn /\ n.click = d.click
    BY Fitting
  <1>7. Map!Effects(m, o, p) = n
    BY <1>2, <1>4, <1>5, <1>6 DEF Map!Effects
  <1>8. Kept(m, o, p, n)
    BY <1>2, <1>3, <1>4, <1>5, <1>6 DEF Kept
  <1>9. QED BY <1>7, <1>8

(* The effects of a rendering that makes another map.                        *)
Another(m, n) ==
    /\ n \in MapRefs
    /\ n.run = m.run + 1 /\ n.due = FALSE
    /\ n.st = [m.st EXCEPT
                  ![m.run] = IF Map!Live(m) THEN "removed" ELSE @,
                  ![m.run + 1] = IF pmtiles THEN "header" ELSE "loading"]
    /\ n.click # None => n.click = n.run /\ Map!Live(n)

LEMMA EffectsMake ==
    ASSUME NEW m \in MapRefs, NEW o \in Map!Props, NEW p \in Map!Props,
           Map!NewCenter(o, p), m.run < MaxRuns
    PROVE  Another(m, Map!Effects(m, o, p))
  <1>1. m.run \in Map!Run /\ m.run + 1 \in Map!Run
    BY MapBounds DEF MapRefs, Map!Run
  <1>2. PICK s \in [Map!Run -> MapState] :
           s = [m.st EXCEPT
                   ![m.run] = IF Map!Live(m) THEN "removed" ELSE @]
    BY DEF MapRefs, MapState
  <1>3. PICK e \in MapRefs :
           /\ e = Map!Dispose(m) /\ e.run = m.run /\ e.st = s
           /\ e.click = None /\ e.due = FALSE
    <2>1. Map!Dispose(m) = [m EXCEPT !.st = s, !.click = None, !.busy = FALSE,
                                     !.moving = FALSE, !.due = FALSE]
      BY <1>2 DEF Map!Dispose
    <2>2. Map!Dispose(m) \in MapRefs
      BY <2>1 DEF MapRefs
    <2>3. /\ Map!Dispose(m).run = m.run /\ Map!Dispose(m).st = s
          /\ Map!Dispose(m).click = None /\ Map!Dispose(m).due = FALSE
      BY <2>1 DEF MapRefs
    <2>4. QED BY <2>2, <2>3
  <1>4. PICK h \in MapState \ {"loaded"} :
           h = IF pmtiles THEN "header" ELSE "loading"
    BY DEF MapState
  <1>5. PICK a \in MapRefs :
           /\ a = Map!Create(e) /\ a.run = m.run + 1
           /\ a.st = [s EXCEPT ![m.run + 1] = h]
           /\ a.click = None /\ a.due = FALSE
    <2>1. PICK g \in [Map!Run -> MapState] : g = [s EXCEPT ![m.run + 1] = h]
      BY <1>1, <1>4
    <2>2. Map!Create(e) = [e EXCEPT !.run = m.run + 1, !.st = g]
      BY <1>3, <1>4, <2>1 DEF Map!Create, MapRefs
    <2>3. Map!Create(e) \in MapRefs
      BY <1>1, <2>2 DEF MapRefs
    <2>4. /\ Map!Create(e).run = m.run + 1 /\ Map!Create(e).st = g
          /\ Map!Create(e).click = None /\ Map!Create(e).due = FALSE
      BY <1>3, <2>2 DEF MapRefs
    <2>5. QED BY <2>1, <2>3, <2>4
  <1>6. a.st[a.run] = h /\ ~Map!StyleLoaded(a)
    BY <1>1, <1>4, <1>5 DEF Map!StyleLoaded
  <1>7. Map!Draw(a, p) = a
    BY <1>6, Drawing
  <1>8. PICK c \in MapRefs :
           /\ c = IF o.ready # p.ready \/ o.adding # p.adding
                  THEN Map!Listen(a, p) ELSE a
           /\ c.run = a.run /\ c.st = a.st /\ c.due = a.due
           /\ c.click # None => c.click = a.run /\ Map!Live(a)
    <2>1. CASE o.ready # p.ready \/ o.adding # p.adding
      BY <2>1, Listening
    <2>2. CASE ~(o.ready # p.ready \/ o.adding # p.adding)
      BY <1>5, <2>2
    <2>3. QED BY <2>1, <2>2
  <1>9. PICK d \in MapRefs :
           /\ d = Map!Capture(c, p)
           /\ d.run = c.run /\ d.st = c.st /\ d.due = c.due
           /\ d.click = c.click
    BY Capturing
  <1>10. PICK n \in MapRefs :
           /\ n = IF <<o.ready, o.wps, o.fetched>>
                       # <<p.ready, p.wps, p.fetched>>
                  THEN Map!Fit(d, p) ELSE d
           /\ n.run = d.run /\ n.st = d.st /\ n.due = d.due
           /\ n.click = d.click
    BY Fitting
  <1>11. Map!Effects(m, o, p) = n
    BY <1>3, <1>5, <1>7, <1>8, <1>9, <1>10 DEF Map!Effects
  <1>12. Map!Live(n) <=> Map!Live(a)
    BY <1>8, <1>9, <1>10 DEF Map!Live
  <1>13. n.st = [m.st EXCEPT
                    ![m.run] = IF Map!Live(m) THEN "removed" ELSE @,
                    ![m.run + 1] = IF pmtiles THEN "header" ELSE "loading"]
    BY <1>2, <1>4, <1>5, <1>8, <1>9, <1>10
  <1>14. Another(m, n)
    BY <1>5, <1>8, <1>9, <1>10, <1>12, <1>13 DEF Another
  <1>15. QED BY <1>11, <1>14

LEMMA RefsTyped ==
    Map!TypeOK => /\ Map!Refs \in MapRefs
                  /\ [Map!Refs EXCEPT !.due = FALSE] \in MapRefs
  BY DEF Map!TypeOK, Map!Refs, MapRefs, MapState, Lists

(* A rendering: n is what its effects leave of the refs.                     *)
LEMMA Rendered ==
    ASSUME MapInv, mounted, NEW o \in Map!Props, o.ready = props.ready,
           Map!Render(Map!Refs, o)
    PROVE  \E p, q \in Map!Props, n \in MapRefs :
              /\ p = [o EXCEPT !.ready = @ \/ due] /\ props' = q
              /\ q = [p EXCEPT !.ready = Map!ReadyAfter(props, p)]
              /\ run' = n.run /\ st' = n.st /\ drawn' = n.drawn
              /\ due' = n.due /\ moving' = n.moving /\ loading' = n.busy
              /\ click' = n.click /\ count' = n.count /\ fitted' = n.fitted
              /\ n.due = FALSE
              /\ IF Map!NewCenter(props, p)
                 THEN Another([Map!Refs EXCEPT !.due = FALSE], n)
                 ELSE /\ q = p
                      /\ Kept([Map!Refs EXCEPT !.due = FALSE], props, p, n)
  <1>1. PICK m \in MapRefs : m = [Map!Refs EXCEPT !.due = FALSE]
    BY RefsTyped DEF MapInv
  <1>2. /\ m.run = run /\ m.st = st /\ m.drawn = drawn /\ m.due = FALSE
        /\ m.moving = moving /\ m.busy = loading /\ m.click = click
    BY <1>1 DEF Map!Refs
  <1>3. props \in Map!Props /\ due \in BOOLEAN
    BY DEF MapInv, Map!TypeOK, Map!Props, Lists
  <1>4. PICK p \in Map!Props : p = [o EXCEPT !.ready = @ \/ due]
    BY <1>3 DEF Map!Props
  <1>5. Map!ReadyAfter(props, p) \in BOOLEAN
    BY DEF Map!ReadyAfter
  <1>6. PICK q \in Map!Props :
           q = [p EXCEPT !.ready = Map!ReadyAfter(props, p)]
    BY <1>5 DEF Map!Props
  <1>7. Map!Refs.due = due
    BY DEF Map!Refs
  <1>8. PICK k : k = Map!Effects(m, props, p)
    OBVIOUS
  <1>9. PICK n : n = Map!Effects(k, p, q)
    OBVIOUS
  <1>10. /\ props' = q /\ (Map!NewCenter(props, p) => run < MaxRuns)
         /\ run' = n.run /\ st' = n.st /\ drawn' = n.drawn
         /\ due' = n.due /\ moving' = n.moving /\ loading' = n.busy
         /\ click' = n.click /\ count' = n.count /\ fitted' = n.fitted
    BY <1>1, <1>4, <1>6, <1>7, <1>8, <1>9 DEF Map!Render
  <1>11. ~Map!NewCenter(p, q)
    BY <1>6 DEF Map!NewCenter, Map!Props
  <1>12. PICK x \in Map!Props : x = props
    BY <1>3
  <1>13. CASE Map!NewCenter(props, p)
    <2>1. Another(m, k)
      BY <1>2, <1>8, <1>10, <1>12, <1>13, EffectsMake
    <2>2. Kept(k, p, q, n)
      BY <1>9, <1>11, <2>1, EffectsKeep DEF Another
    <2>3. Map!Live(n) <=> Map!Live(k)
      BY <2>2 DEF Kept, Map!Live
    <2>4. q.ready = FALSE
      BY <1>6, <1>13 DEF Map!ReadyAfter, Map!Props
    <2>5. n.click # None => n.click = k.click
      BY <2>2, <2>4 DEF Kept
    <2>6. Another(m, n) /\ n \in MapRefs /\ n.due = FALSE
      BY <2>1, <2>2, <2>3, <2>5 DEF Another, Kept
    <2>7. QED BY <1>1, <1>4, <1>6, <1>10, <1>13, <2>6
  <1>14. CASE ~Map!NewCenter(props, p)
    <2>1. Kept(m, props, p, k)
      BY <1>8, <1>12, <1>14, EffectsKeep
    <2>2. q = p
      BY <1>6, <1>14 DEF Map!ReadyAfter, Map!Props
    <2>3. Kept(k, p, p, n)
      BY <1>9, <1>11, <2>1, <2>2, EffectsKeep DEF Kept
    <2>4. /\ n \in MapRefs /\ n.run = k.run /\ n.st = k.st /\ n.due = k.due
          /\ (k.moving => n.moving) /\ n.drawn = k.drawn
          /\ n.click = k.click
      BY <2>3 DEF Kept
    <2>5. Kept(m, props, p, n)
      BY <2>1, <2>4 DEF Kept
    <2>6. n.due = FALSE
      BY <1>2, <2>5 DEF Kept
    <2>7. QED BY <1>1, <1>4, <1>6, <1>10, <1>14, <2>2, <2>4, <2>5, <2>6
  <1>15. QED BY <1>13, <1>14

LEMMA RenderStep ==
    ASSUME MapInv, mounted, NEW o \in Map!Props, o.ready = props.ready,
           Map!Render(Map!Refs, o), UNCHANGED <<pmtiles, mounted>>
    PROVE  MapInv'
  <1>1. PICK p \in Map!Props, q \in Map!Props, n \in MapRefs :
              /\ p = [o EXCEPT !.ready = @ \/ due] /\ props' = q
              /\ q = [p EXCEPT !.ready = Map!ReadyAfter(props, p)]
              /\ run' = n.run /\ st' = n.st /\ drawn' = n.drawn
              /\ due' = n.due /\ moving' = n.moving /\ loading' = n.busy
              /\ click' = n.click /\ count' = n.count /\ fitted' = n.fitted
              /\ n.due = FALSE
              /\ IF Map!NewCenter(props, p)
                 THEN Another([Map!Refs EXCEPT !.due = FALSE], n)
                 ELSE /\ q = p
                      /\ Kept([Map!Refs EXCEPT !.due = FALSE], props, p, n)
    BY Rendered
  <1>2. PICK m \in MapRefs : m = [Map!Refs EXCEPT !.due = FALSE]
    BY RefsTyped DEF MapInv
  <1>3. /\ m.run = run /\ m.st = st /\ m.drawn = drawn /\ m.due = FALSE
        /\ m.moving = moving /\ m.busy = loading /\ m.click = click
    BY <1>2 DEF Map!Refs
  <1>4. Map!TypeOK'
    BY <1>1 DEF MapInv, Map!TypeOK, MapRefs, MapState, Lists
  <1>5. mounted' = TRUE /\ due' = FALSE
    BY <1>1 DEF MapInv, Map!TypeOK
  <1>6. run \in Map!Run /\ st \in [Map!Run -> MapState]
        /\ drawn \in [Map!Run -> Lists \cup {None}]
    BY DEF MapInv, Map!TypeOK, MapState, Lists
  <1>7. CASE Map!NewCenter(props, p)
    <2>1. Another(m, n)
      BY <1>1, <1>2, <1>7
    <2>2. /\ run' = run + 1 /\ run' \in Map!Run
          /\ st' = [st EXCEPT
                       ![run] = IF Map!Live(m) THEN "removed" ELSE @,
                       ![run + 1] = IF pmtiles THEN "header" ELSE "loading"]
      BY <1>1, <1>3, <2>1 DEF Another, MapRefs
    <2>3. run + 1 \in Map!Run /\ run # run + 1
      BY <1>6, <2>2 DEF Map!Run
    <2>4. st'[run] = IF Map!Live(m) THEN "removed" ELSE st[run]
      BY <1>6, <2>2, <2>3
    <2>5. st'[run] \notin {"loading", "loaded"}
      BY <1>3, <2>4 DEF Map!Live
    <2>6. st'[run + 1] \in {"header", "loading"}
      BY <1>6, <2>2, <2>3
    <2>7. \A r \in Map!Run : r # run /\ r # run + 1 => st'[r] = st[r]
      BY <1>6, <2>2
    <2>8. MapRuns'
      BY <1>5, <1>6, <2>2, <2>3, <2>5, <2>6, <2>7
         DEF MapInv, MapRuns, Map!Run
    <2>9. click' # None => click' = run' /\ st'[run'] \in {"loading", "loaded"}
      BY <1>1, <2>1 DEF Another, Map!Live
    <2>10. MapHears'
      BY <2>9 DEF MapHears, Map!Live, Map!Refs
    <2>11. props'.ready = FALSE
      BY <1>1, <1>7 DEF Map!ReadyAfter, Map!Props
    <2>12. st'[run'] # "loaded"
      BY <2>2, <2>6
    <2>13. MapReady'
      BY <1>5, <2>11, <2>12 DEF MapReady
    <2>14. QED BY <1>4, <2>8, <2>10, <2>13 DEF MapInv
  <1>8. CASE ~Map!NewCenter(props, p)
    <2>1. Kept(m, props, p, n) /\ props' = p
      BY <1>1, <1>2, <1>8
    <2>2. /\ run' = run /\ st' = st /\ (moving => moving')
          /\ IF props.ready # p.ready /\ p.ready /\ Map!StyleLoaded(m)
             THEN drawn'[run] = p.wps ELSE drawn' = drawn
          /\ click' = IF props.ready # p.ready \/ props.adding # p.adding
                      THEN IF p.ready /\ Map!Live(m) THEN run ELSE None
                      ELSE click
      BY <1>1, <1>3, <2>1 DEF Kept
    <2>3. Map!Live(m) <=> Map!Live(Map!Refs)
      BY <1>3 DEF Map!Live, Map!Refs
    <2>4. Map!Live(Map!Refs)' <=> Map!Live(Map!Refs)
      BY <2>2 DEF Map!Live, Map!Refs
    <2>5. MapRuns'
      BY <2>2 DEF MapInv, MapRuns
    <2>6. MapHears'
      BY <2>2, <2>3, <2>4 DEF MapInv, MapHears
    <2>7. p.ready = (props.ready \/ due) /\ p.wps = props.wps
      BY <1>1, <1>8 DEF Map!NewCenter, Map!Props
    <2>8. ASSUME st[run] # "loaded"
          PROVE  MapReady'
      BY <1>1, <1>5, <2>1, <2>2, <2>7, <2>8 DEF MapInv, MapReady
    <2>9. ASSUME st[run] = "loaded", ~due
          PROVE  MapReady'
      <3>1. /\ props.ready /\ p.ready /\ click = run
            /\ moving \/ drawn[run] = props.wps
        BY <2>7, <2>9 DEF MapInv, MapReady
      <3>2. props.ready = p.ready
        BY <2>7, <2>9, <3>1
      <3>3. drawn' = drawn
        BY <2>2, <3>2
      <3>4. click' = run
        BY <2>2, <2>9, <3>1, <1>3 DEF Map!Live
      <3>5. QED BY <1>5, <2>1, <2>2, <2>7, <2>9, <3>1, <3>3, <3>4
               DEF MapReady
    <2>10. ASSUME st[run] = "loaded", due
           PROVE  MapReady'
      <3>1. ~props.ready /\ p.ready /\ (moving \/ ~loading)
        BY <2>7, <2>10 DEF MapInv, MapReady
      <3>2. click' = run
        BY <1>3, <2>2, <2>10, <3>1 DEF Map!Live
      <3>3. moving' \/ drawn'[run] = p.wps
        BY <1>3, <2>2, <2>10, <3>1 DEF Map!StyleLoaded
      <3>4. QED BY <1>5, <2>1, <2>2, <2>10, <3>1, <3>2, <3>3 DEF MapReady
    <2>11. QED
      BY <1>4, <2>5, <2>6, <2>8, <2>9, <2>10 DEF MapInv
  <1>9. QED BY <1>7, <1>8

LEMMA MapRenderings ==
    ASSUME MapInv, \/ \E w \in Lists : Map!Fetched(w)
                   \/ Map!MoveEnd \/ Map!SetAdding \/ Map!Ready
    PROVE  MapInv'
  <1>1. props \in Map!Props
    BY DEF MapInv, Map!TypeOK
  <1>2. CASE \E w \in Lists : Map!Fetched(w)
    <2>1. PICK w \in Lists : Map!Fetched(w)
      BY <1>2
    <2>2. PICK o \in Map!Props : o = [props EXCEPT !.wps = w, !.fetched = TRUE]
      BY <1>1 DEF Map!Props, Lists
    <2>3. o.ready = props.ready /\ Map!Render(Map!Refs, o)
      BY <1>1, <2>1, <2>2 DEF Map!Fetched, Map!Props
    <2>4. QED BY <2>1, <2>3, RenderStep DEF Map!Fetched
  <1>3. CASE Map!MoveEnd
    <2>1. PICK o \in Map!Props : o = [props EXCEPT !.center = 1 - @]
      <3>1. PICK e \in {0, 1} : e = 1 - props.center
        BY <1>1 DEF Map!Props
      <3>2. QED BY <1>1, <3>1 DEF Map!Props
    <2>2. o.ready = props.ready /\ Map!Render(Map!Refs, o)
      BY <1>1, <1>3, <2>1 DEF Map!MoveEnd, Map!Props
    <2>3. QED BY <1>3, <2>2, RenderStep DEF Map!MoveEnd
  <1>4. CASE Map!SetAdding
    <2>1. PICK o \in Map!Props : o = [props EXCEPT !.adding = ~@]
      BY <1>1 DEF Map!Props
    <2>2. o.ready = props.ready /\ Map!Render(Map!Refs, o)
      BY <1>1, <1>4, <2>1 DEF Map!SetAdding, Map!Props
    <2>3. QED BY <1>4, <2>2, RenderStep DEF Map!SetAdding
  <1>5. CASE Map!Ready
    <2>1. PICK o \in Map!Props : o = props
      BY <1>1
    <2>2. mounted
      BY <1>5 DEF Map!Ready, MapInv, MapReady
    <2>3. QED BY <1>5, <2>1, <2>2, RenderStep DEF Map!Ready
  <1>6. QED BY <1>2, <1>3, <1>4, <1>5

LEMMA MapMoveStep ==
    ASSUME MapInv, Map!Move \/ Map!SourceLoads
    PROVE  MapInv'
  <1>1. /\ UNCHANGED <<pmtiles, mounted, props, run, st, drawn, due, click,
                       count, fitted>>
        /\ moving' \in BOOLEAN /\ loading' \in BOOLEAN
        /\ moving => moving'
        /\ moving' \/ (loading' = FALSE /\ moving' = moving)
    BY DEF Map!Move, Map!SourceLoads, MapInv, Map!TypeOK
  <1>2. Map!TypeOK'
    BY <1>1 DEF MapInv, Map!TypeOK
  <1>3. MapRuns' /\ MapHears'
    BY <1>1 DEF MapInv, MapRuns, MapHears, Map!Live, Map!Refs
  <1>4. MapReady'
    BY <1>1 DEF MapInv, MapReady
  <1>5. QED BY <1>2, <1>3, <1>4 DEF MapInv

LEMMA MapLoadStep ==
    ASSUME MapInv, Map!Load
    PROVE  MapInv'
  <1> USE DEF Map!Load
  <1>1. run \in Map!Run /\ st \in [Map!Run -> MapState]
    BY DEF MapInv, Map!TypeOK, MapState
  <1>2. st' = [st EXCEPT ![run] = "loaded"] /\ st'[run] = "loaded"
    BY <1>1
  <1>3. st' \in [Map!Run -> MapState]
    BY <1>1, <1>2 DEF MapState
  <1>4. Map!TypeOK'
    BY <1>3 DEF MapInv, Map!TypeOK, MapState
  <1>5. MapRuns'
    BY <1>1, <1>2 DEF MapInv, MapRuns
  <1>6. MapHears'
    BY <1>2 DEF MapInv, MapHears, Map!Live, Map!Refs
  <1>7. ~props.ready
    BY DEF MapInv, MapReady
  <1>8. MapReady'
    BY <1>2, <1>7 DEF MapReady
  <1>9. QED BY <1>4, <1>5, <1>6, <1>8 DEF MapInv

LEMMA MapHeaderStep ==
    ASSUME MapInv, NEW r \in Map!Run, Map!Header(r)
    PROVE  MapInv'
  <1> USE DEF Map!Header
  <1>1. run \in Map!Run /\ st \in [Map!Run -> MapState]
    BY DEF MapInv, Map!TypeOK, MapState
  <1>2. PICK h \in {"removed", "loading"} :
           /\ st' = [st EXCEPT ![r] = h]
           /\ h = "loading" => mounted /\ r = run
    BY DEF Map!Disposed
  <1>3. st' \in [Map!Run -> MapState] /\ st'[r] = h
        /\ \A s \in Map!Run : s # r => st'[s] = st[s]
    BY <1>1, <1>2 DEF MapState
  <1>4. Map!TypeOK'
    BY <1>3 DEF MapInv, Map!TypeOK, MapState
  <1>5. MapRuns'
    BY <1>1, <1>2, <1>3 DEF MapInv, MapRuns
  <1>6. click = None \/ r # run
    BY DEF MapInv, MapHears, Map!Live, Map!Refs
  <1>7. MapHears'
    BY <1>1, <1>3, <1>6 DEF MapInv, MapHears, Map!Live, Map!Refs
  <1>8. st'[run] = "loaded" <=> st[run] = "loaded"
    BY <1>1, <1>3
  <1>9. MapReady'
    BY <1>8 DEF MapInv, MapReady
  <1>10. QED BY <1>4, <1>5, <1>7, <1>9 DEF MapInv

LEMMA MapUnmountStep ==
    ASSUME MapInv, Map!Unmount
    PROVE  MapInv'
  <1> USE DEF Map!Unmount
  <1>1. run \in Map!Run /\ st \in [Map!Run -> MapState]
    BY DEF MapInv, Map!TypeOK, MapState
  <1>2. st' = [st EXCEPT ![run] = IF Map!Live(Map!Refs) THEN "removed" ELSE @]
    BY DEF Map!Dispose, Map!Refs
  <1>3. st' \in [Map!Run -> MapState]
    BY <1>1, <1>2 DEF MapState
  <1>4. st'[run] \notin {"loading", "loaded"}
    BY <1>1, <1>2 DEF Map!Live, Map!Refs
  <1>5. \A s \in Map!Run : s # run => st'[s] = st[s]
    BY <1>1, <1>2
  <1>6. Map!TypeOK'
    BY <1>3 DEF MapInv, Map!TypeOK, MapState
  <1>7. MapRuns'
    BY <1>1, <1>4, <1>5 DEF MapInv, MapRuns, Map!Run
  <1>8. MapHears' /\ MapReady'
    BY DEF MapHears, MapReady
  <1>9. QED BY <1>6, <1>7, <1>8 DEF MapInv

LEMMA MapMountStep ==
    ASSUME MapInv, Map!Mount
    PROVE  MapInv'
  <1> USE DEF Map!Mount
  <1>1. run \in Map!Run /\ st \in [Map!Run -> MapState]
    BY DEF MapInv, Map!TypeOK, MapState
  <1>2. PICK h \in {"header", "loading"} : st' = [st EXCEPT ![run + 1] = h]
    BY DEF Map!Create, Map!Refs
  <1>3. run' = run + 1 /\ run' \in Map!Run /\ run # run + 1
    BY <1>1, MapBounds DEF Map!Run
  <1>4. st' \in [Map!Run -> MapState] /\ st'[run'] = h
        /\ \A s \in Map!Run : s # run' => st'[s] = st[s]
    BY <1>1, <1>2, <1>3 DEF MapState
  <1>5. props' \in Map!Props /\ props'.ready = FALSE
    <2>1. props.center \in {0, 1} /\ Empty \in Text \cup {Empty}
      BY DEF MapInv, Map!TypeOK, Map!Props
    <2>2. QED BY <2>1 DEF Map!First, Map!Props
  <1>6. count' \in (Text \cup {Empty}) \cup {None}
    BY <1>5 DEF Map!FirstCount, Map!Props
  <1>7. Map!TypeOK'
    BY <1>3, <1>4, <1>5, <1>6 DEF MapInv, Map!TypeOK, MapState
  <1>8. MapRuns'
    BY <1>1, <1>3, <1>4 DEF MapInv, MapRuns, Map!Run
  <1>9. MapHears'
    BY <1>1 DEF MapInv, MapHears, MapRuns, Map!Live, Map!Refs
  <1>10. MapReady'
    BY <1>4, <1>5 DEF MapInv, MapReady
  <1>11. QED BY <1>7, <1>8, <1>9, <1>10 DEF MapInv

LEMMA MapStep == MapInv /\ [Map!Next]_(Map!vars) => MapInv'
  <1> SUFFICES ASSUME MapInv, [Map!Next]_(Map!vars) PROVE MapInv'
    OBVIOUS
  <1>1. CASE UNCHANGED Map!vars
    <2>1. UNCHANGED <<pmtiles, mounted, props, run, st, drawn, due, moving,
                      loading, click, count, fitted>>
      BY <1>1 DEF Map!vars, Map!refs
    <2>2. QED
      BY <2>1 DEF MapInv, Map!TypeOK, MapRuns, MapHears, MapReady, Map!Live,
                  Map!Refs
  <1>2. CASE Map!Next
    <2>1. ASSUME NEW r \in Map!Run, Map!Header(r)
          PROVE  MapInv'
      BY <2>1, MapHeaderStep
    <2>2. CASE \/ \E w \in Lists : Map!Fetched(w)
               \/ Map!MoveEnd \/ Map!SetAdding \/ Map!Ready
      BY <2>2, MapRenderings
    <2>3. CASE Map!Move \/ Map!SourceLoads
      BY <2>3, MapMoveStep
    <2>4. QED
      BY <1>2, <2>1, <2>2, <2>3, MapLoadStep, MapUnmountStep, MapMountStep,
         Zenon DEF Map!Next, Lists
  <1>3. QED BY <1>1, <1>2

LEMMA MapAlways == Map!Spec => []MapInv
  BY MapStart, MapStep, PTL DEF Map!Spec

LEMMA MapPromise == MapInv => Map!OneLiveMap /\ Map!ShownMapWorks
  <1> SUFFICES ASSUME MapInv PROVE Map!OneLiveMap /\ Map!ShownMapWorks
    OBVIOUS
  <1>1. Map!OneLiveMap
    BY DEF MapInv, MapRuns, Map!OneLiveMap
  <1>2. Map!ShownMapWorks
    BY DEF MapInv, MapReady, MapHears, Map!ShownMapWorks, Map!Shown, Map!Live,
           Map!Refs
  <1>3. QED BY <1>1, <1>2
-----------------------------------------------------------------------------
(* The assistant.  Every answer of a finished conversation has the tokens    *)
(* that its question was answered with.                                     *)
TokensOf(t, n) == {<<t, k>> : k \in 1 .. n}

Said(ms, w, n) ==
    \A i \in 1 .. Len(ms) :
       /\ ms[i].role = "user" => ms[i].turn <= n
       /\ ms[i].role = "assistant"
          => /\ i > 1 /\ ms[i - 1].role = "user"
             /\ ms[i].text = TokensOf(ms[i - 1].turn, w[ms[i - 1].turn])

(* The one question under way is the last of the conversation it was sent    *)
(* with; what is shown is that conversation with the tokens of the events    *)
(* that were read whole, or nothing once it is cleared.                      *)
Put(r, w, n) ==
    /\ r.conv # <<>>
    /\ r.conv[Len(r.conv)] = [role |-> "user", turn |-> n]
    /\ \A i \in 1 .. Len(r.conv) - 1 :
          r.conv[i].role = "user" => r.conv[i].turn < n
    /\ Said(r.conv, w, n)
    /\ r.read <= 2 * r.wrote /\ r.start = 2 * (r.read \div 2)

Shows(ms, r, n) ==
    \/ ms = <<>>
    \/ ms = Append(r.conv, [role |-> "assistant",
                            text |-> TokensOf(n, r.start \div 2)])

ChatStreams ==
    /\ busy => asked \in Chat!Turn
    /\ \A t \in Chat!Turn : stream[t] # None <=> busy /\ t = asked

ChatSays ==
    /\ busy => /\ Put(stream[asked], whole, asked)
               /\ Shows(messages, stream[asked], asked)
    /\ ~busy => Said(messages, whole, asked)

ChatInv == /\ Chat!TypeOK /\ Chat!FailureLeavesQuestion /\ (error => ~busy)
           /\ ChatStreams /\ ChatSays

LEMMA ChatBounds ==
    /\ MaxTurns \in Nat /\ MaxTokens \in Nat /\ None \notin Chat!Stream
  BY PagesAssumption DEF Chat!BoundsAssumption

LEMMA Halves ==
    ASSUME NEW n \in Nat
    PROVE  /\ n \div 2 \in Nat
           /\ 2 * (n \div 2) <= n /\ n < 2 * (n \div 2) + 2
           /\ (2 * n) \div 2 = n
  OBVIOUS

LEMMA ChatStart == Chat!Init => ChatInv
  <1> SUFFICES ASSUME Chat!Init PROVE ChatInv
    OBVIOUS
  <1> USE DEF Chat!Init
  <1>1. whole \in [Chat!Turn -> 0 .. MaxTokens] /\ asked \in 0 .. MaxTurns
    BY ChatBounds
  <1>2. Chat!TypeOK
    <2>1. messages \in Seq(Chat!Message)
      BY EmptySeq
    <2>2. stream \in [Chat!Turn -> Chat!Stream \cup {None}]
      OBVIOUS
    <2>3. QED BY <1>1, <2>1, <2>2 DEF Chat!TypeOK
  <1>3. ChatStreams
    BY DEF ChatStreams
  <1>4. ChatSays
    BY DEF ChatSays, Said
  <1>5. QED BY <1>2, <1>3, <1>4 DEF ChatInv, Chat!FailureLeavesQuestion

LEMMA ChatSendStep ==
    ASSUME ChatInv, Chat!Send
    PROVE  ChatInv'
  <1>1. PICK n \in Chat!Turn : n = asked + 1
    BY ChatBounds DEF Chat!Send, ChatInv, Chat!TypeOK, Chat!Turn
  <1>2. PICK u \in Chat!Message : u = [role |-> "user", turn |-> n]
    BY DEF Chat!Message
  <1>3. PICK c \in Seq(Chat!Message) : c = Append(messages, u)
    BY AppendProperties DEF ChatInv, Chat!TypeOK
  <1>4. PICK a \in Chat!Message : a = [role |-> "assistant", text |-> {}]
    BY DEF Chat!Message
  <1>5. PICK r \in Chat!Stream :
           r = [conv |-> c, st |-> "asked", wrote |-> 0, read |-> 0,
                start |-> 0]
    <2>1. 0 \in 0 .. MaxTokens /\ 0 \in 0 .. 2 * MaxTokens
      BY ChatBounds
    <2>2. QED BY <2>1 DEF Chat!Stream
  <1>6. /\ ~busy /\ messages' = Append(c, a)
        /\ stream' = [stream EXCEPT ![n] = r]
        /\ asked' = n /\ busy' = TRUE /\ error' = FALSE /\ whole' = whole
    BY <1>1, <1>2, <1>3, <1>4, <1>5 DEF Chat!Send
  <1>7. /\ stream' \in [Chat!Turn -> Chat!Stream \cup {None}]
        /\ stream'[n] = r /\ r # None
        /\ \A t \in Chat!Turn : t # n => stream'[t] = stream[t]
    BY <1>6, ChatBounds DEF ChatInv, Chat!TypeOK
  <1>8. Chat!TypeOK'
    <2>1. messages' \in Seq(Chat!Message)
      BY <1>6, AppendProperties
    <2>2. asked' \in 0 .. MaxTurns
      BY <1>6 DEF Chat!Turn
    <2>3. QED BY <1>6, <1>7, <2>1, <2>2 DEF ChatInv, Chat!TypeOK
  <1>9. ChatStreams'
    BY <1>6, <1>7 DEF ChatInv, ChatStreams
  <1>10. asked \in Nat /\ n = asked + 1 /\ Said(messages, whole, asked)
    BY <1>1, <1>6 DEF ChatInv, ChatSays, Chat!TypeOK
  <1>11. /\ messages \in Seq(Chat!Message) /\ Len(c) = Len(messages) + 1
         /\ c[Len(c)] = u
         /\ \A i \in 1 .. Len(messages) : c[i] = messages[i]
    BY <1>3 DEF ChatInv, Chat!TypeOK
  <1>12. Said(c, whole, n)
    <2> SUFFICES ASSUME NEW i \in 1 .. Len(c)
                 PROVE  /\ c[i].role = "user" => c[i].turn <= n
                        /\ c[i].role = "assistant"
                           => /\ i > 1 /\ c[i - 1].role = "user"
                              /\ c[i].text = TokensOf(c[i - 1].turn,
                                                      whole[c[i - 1].turn])
      BY DEF Said
    <2>1. CASE i = Len(c)
      BY <1>2, <1>11, <2>1, ChatBounds DEF Chat!Turn
    <2>2. CASE i # Len(c)
      <3>1. i \in 1 .. Len(messages) /\ c[i] = messages[i]
        BY <1>11, <2>2
      <3>2. c[i].role = "user" => messages[i].turn \in Nat
        BY <1>11, <3>1 DEF Chat!Message, Chat!Turn
      <3>3. i > 1 => i - 1 \in 1 .. Len(messages) /\ c[i - 1] = messages[i - 1]
        BY <1>11, <3>1
      <3>4. QED BY <1>10, <3>1, <3>2, <3>3 DEF Said
    <2>3. QED BY <2>1, <2>2
  <1>13. \A i \in 1 .. Len(c) - 1 : c[i].role = "user" => c[i].turn < n
    <2> SUFFICES ASSUME NEW i \in 1 .. Len(c) - 1, c[i].role = "user"
                 PROVE  c[i].turn < n
      OBVIOUS
    <2>1. i \in 1 .. Len(messages) /\ c[i] = messages[i]
      BY <1>11
    <2>2. messages[i].turn \in Nat
      BY <1>11, <2>1 DEF Chat!Message, Chat!Turn
    <2>3. QED BY <1>10, <2>1, <2>2 DEF Said
  <1>14. Put(r, whole, n)
    BY <1>2, <1>5, <1>11, <1>12, <1>13 DEF Put
  <1>15. Shows(messages', r, n)
    <2>1. TokensOf(n, r.start \div 2) = {}
      BY <1>5 DEF TokensOf
    <2>2. QED BY <1>4, <1>5, <1>6, <2>1 DEF Shows
  <1>16. ChatSays'
    BY <1>6, <1>7, <1>14, <1>15 DEF ChatSays
  <1>17. QED
    BY <1>6, <1>8, <1>9, <1>16 DEF ChatInv, Chat!FailureLeavesQuestion

LEMMA ChatClearStep ==
    ASSUME ChatInv, Chat!Clear
    PROVE  ChatInv'
  <1> USE DEF Chat!Clear, Chat!BusyAfterClear
  <1>1. Chat!TypeOK' /\ ChatStreams'
    <2>1. messages' \in Seq(Chat!Message)
      BY EmptySeq
    <2>2. QED BY <2>1 DEF ChatInv, Chat!TypeOK, ChatStreams
  <1>2. ChatSays'
    BY DEF ChatInv, ChatSays, Said, Shows
  <1>3. QED BY <1>1, <1>2 DEF ChatInv, Chat!FailureLeavesQuestion

(* The only stream there is.                                                 *)
LEMMA Waiting ==
    ASSUME ChatInv, NEW t \in Chat!Turn, stream[t] # None
    PROVE  /\ busy /\ t = asked /\ ~error
           /\ stream[t] \in Chat!Stream
           /\ Put(stream[t], whole, t) /\ Shows(messages, stream[t], t)
  <1>1. busy /\ t = asked
    BY DEF ChatInv, ChatStreams
  <1>2. QED BY <1>1 DEF ChatInv, ChatSays, Chat!TypeOK

(* Another state of the stream, with what it shows.                          *)
LEMMA StreamGoes ==
    ASSUME ChatInv, NEW t \in Chat!Turn, stream[t] # None,
           NEW s \in Chat!Stream, stream' = [stream EXCEPT ![t] = s],
           UNCHANGED <<busy, error, asked, whole>>,
           messages' \in Seq(Chat!Message),
           Put(s, whole, t), Shows(messages', s, t)
    PROVE  ChatInv'
  <1>1. busy /\ t = asked /\ ~error
    BY Waiting
  <1>2. /\ stream' \in [Chat!Turn -> Chat!Stream \cup {None}]
        /\ stream'[t] = s /\ s # None
        /\ \A e \in Chat!Turn : e # t => stream'[e] = stream[e]
    BY ChatBounds DEF ChatInv, Chat!TypeOK
  <1>3. Chat!TypeOK'
    BY <1>2 DEF ChatInv, Chat!TypeOK
  <1>4. ChatStreams'
    BY <1>1, <1>2 DEF ChatInv, ChatStreams
  <1>5. ChatSays'
    BY <1>1, <1>2 DEF ChatSays
  <1>6. QED
    BY <1>1, <1>3, <1>4, <1>5 DEF ChatInv, Chat!FailureLeavesQuestion

LEMMA ChatRouteSteps ==
    ASSUME ChatInv, NEW t \in Chat!Turn,
           Chat!Post(t) \/ Chat!Enqueue(t) \/ Chat!CloseController(t)
    PROVE  ChatInv'
  <1>1. stream[t] # None
    BY DEF Chat!Post, Chat!Enqueue, Chat!CloseController
  <1>2. PICK r \in Chat!Stream : r = stream[t]
    BY <1>1, Waiting
  <1>3. PICK s \in Chat!Stream :
           /\ stream' = [stream EXCEPT ![t] = s]
           /\ s.conv = r.conv /\ s.read = r.read /\ s.start = r.start
           /\ s.wrote \in {r.wrote, r.wrote + 1}
    <2>1. CASE Chat!Post(t)
      <3>1. stream' = [stream EXCEPT ![t] = [r EXCEPT !.st = "open"]]
        BY <1>2, <2>1 DEF Chat!Post, Chat!Goes
      <3>2. [r EXCEPT !.st = "open"] \in Chat!Stream
        BY DEF Chat!Stream
      <3>3. QED BY <3>1, <3>2 DEF Chat!Stream
    <2>2. CASE Chat!Enqueue(t)
      <3>1. r.wrote < MaxTokens
        BY <1>2, <2>2 DEF Chat!Enqueue
      <3>2. PICK k \in 0 .. MaxTokens : k = r.wrote + 1
        BY <3>1, ChatBounds DEF Chat!Stream
      <3>3. stream' = [stream EXCEPT ![t] = [r EXCEPT !.wrote = k]]
        BY <1>2, <2>2, <3>2 DEF Chat!Enqueue, Chat!Goes
      <3>4. [r EXCEPT !.wrote = k] \in Chat!Stream
        BY DEF Chat!Stream
      <3>5. QED BY <3>2, <3>3, <3>4 DEF Chat!Stream
    <2>3. CASE Chat!CloseController(t)
      <3>1. PICK e \in {"closed", "broken"} :
               stream' = [stream EXCEPT ![t] = [r EXCEPT !.st = e]]
        BY <1>2, <2>3 DEF Chat!CloseController, Chat!Goes
      <3>2. [r EXCEPT !.st = e] \in Chat!Stream
        BY DEF Chat!Stream
      <3>3. QED BY <3>1, <3>2 DEF Chat!Stream
    <2>4. QED BY <2>1, <2>2, <2>3
  <1>4. UNCHANGED <<messages, busy, error, asked, whole>>
    BY DEF Chat!Post, Chat!Enqueue, Chat!CloseController, Chat!Goes
  <1>5. messages' \in Seq(Chat!Message)
    BY <1>4 DEF ChatInv, Chat!TypeOK
  <1>6. Put(r, whole, t) /\ Shows(messages, r, t)
    BY <1>1, <1>2, Waiting
  <1>7. s.read <= 2 * s.wrote
    BY <1>3, <1>6, ChatBounds DEF Put, Chat!Stream
  <1>8. Put(s, whole, t) /\ Shows(messages', s, t)
    BY <1>3, <1>4, <1>6, <1>7 DEF Put, Shows
  <1>9. QED BY <1>1, <1>3, <1>4, <1>5, <1>8, StreamGoes

(* The events that a read makes whole follow those that were.                *)
(* The tokens of which the reader sees the second piece when it gets to `to`. *)
Seen(t, r, to) == {<<t, n>> : n \in
                     {k \in 1 .. r.wrote : r.start < 2 * k - 1 /\ 2 * k <= to}}

LEMMA TokensRead ==
    ASSUME NEW t, NEW r \in Chat!Stream, NEW to \in Nat,
           r.read \in Nat, r.wrote \in Nat, r.start = 2 * (r.read \div 2),
           r.read < to, to <= 2 * r.wrote
    PROVE  TokensOf(t, r.start \div 2) \cup Seen(t, r, to)
           = TokensOf(t, to \div 2)
  <1>1. PICK h \in Nat : h = r.read \div 2 /\ 2 * h <= r.read
                         /\ r.read < 2 * h + 2
    BY Halves
  <1>2. PICK g \in Nat : g = to \div 2 /\ 2 * g <= to /\ to < 2 * g + 2
    BY Halves
  <1>3. r.start = 2 * h /\ r.start \div 2 = h
    BY <1>1, Halves
  <1>4. 1 .. g = (1 .. h) \cup
                 {k \in 1 .. r.wrote : r.start < 2 * k - 1 /\ 2 * k <= to}
    BY <1>1, <1>2, <1>3
  <1>5. QED BY <1>2, <1>3, <1>4, Zenon DEF TokensOf, Seen

LEMMA TextGrows ==
    ASSUME NEW a, NEW old, NEW new, NEW z,
           a = [role |-> "assistant", text |-> old],
           z = [role |-> "assistant", text |-> old \cup new]
    PROVE  [a EXCEPT !.text = @ \cup new] = z
  OBVIOUS

LEMMA ChatReadStep ==
    ASSUME ChatInv, NEW t \in Chat!Turn, Chat!ReadPieces(t)
    PROVE  ChatInv'
  <1>1. stream[t] # None
    BY DEF Chat!ReadPieces
  <1>2. PICK r \in Chat!Stream : r = stream[t]
    BY <1>1, Waiting
  <1>3. Put(r, whole, t) /\ Shows(messages, r, t)
    BY <1>1, <1>2, Waiting
  <1>4. /\ r.wrote \in 0 .. MaxTokens /\ r.read \in 0 .. 2 * MaxTokens
        /\ r.read \in Nat /\ r.wrote \in Nat
        /\ r.conv \in Seq(Chat!Message)
    BY ChatBounds DEF Chat!Stream
  <1>5. PICK to \in r.read + 1 .. 2 * r.wrote :
           /\ messages' = IF Seen(t, r, to) = {} THEN messages
                          ELSE Chat!OnToken(messages, Seen(t, r, to))
           /\ stream' = [stream EXCEPT ![t].read = to,
                                       ![t].start = 2 * (to \div 2)]
    BY <1>2 DEF Chat!ReadPieces, Chat!Buffered, Seen
  <1>6. /\ to \in Nat /\ r.read < to /\ to <= 2 * r.wrote
        /\ to \in 0 .. 2 * MaxTokens
    BY <1>4, ChatBounds
  <1>7. PICK b \in 0 .. 2 * MaxTokens : b = 2 * (to \div 2)
    BY <1>6, Halves, ChatBounds
  <1>8. PICK s \in Chat!Stream :
           /\ stream' = [stream EXCEPT ![t] = s]
           /\ s.conv = r.conv /\ s.wrote = r.wrote
           /\ s.read = to /\ s.start = b
    <2>1. stream \in [Chat!Turn -> Chat!Stream \cup {None}]
      BY DEF ChatInv, Chat!TypeOK
    <2>2. stream' = [stream EXCEPT ![t] = [r EXCEPT !.read = to, !.start = b]]
      BY <1>2, <1>5, <1>7, <2>1
    <2>3. [r EXCEPT !.read = to, !.start = b] \in Chat!Stream
      BY <1>6 DEF Chat!Stream
    <2>4. QED BY <2>2, <2>3 DEF Chat!Stream
  <1>9. Put(s, whole, t)
    BY <1>3, <1>6, <1>7, <1>8 DEF Put
  <1>10. TokensOf(t, r.start \div 2) \cup Seen(t, r, to)
         = TokensOf(t, s.start \div 2)
    <2>1. to \div 2 \in Nat /\ b \div 2 = to \div 2
      BY <1>6, <1>7, Halves
    <2>2. r.start = 2 * (r.read \div 2)
      BY <1>3 DEF Put
    <2>3. TokensOf(t, r.start \div 2) \cup Seen(t, r, to)
          = TokensOf(t, to \div 2)
      BY <1>4, <1>6, <2>2, TokensRead
    <2>4. s.start \div 2 = to \div 2
      BY <1>8, <2>1
    <2>5. QED BY <2>3, <2>4
  <1>11. Seen(t, r, to) \subseteq Chat!Turn \X (1 .. MaxTokens)
    BY <1>4, ChatBounds DEF Seen
  <1>12. messages \in Seq(Chat!Message)
    BY DEF ChatInv, Chat!TypeOK
  <1>13. messages' \in Seq(Chat!Message) /\ Shows(messages', s, t)
    <2>1. CASE messages = <<>>
      <3>1. messages' = <<>>
        BY <1>5, <2>1 DEF Chat!OnToken
      <3>2. QED BY <1>12, <2>1, <3>1 DEF Shows
    <2>2. CASE messages # <<>> /\ Seen(t, r, to) = {}
      <3>1. messages' = messages
            /\ TokensOf(t, r.start \div 2) = TokensOf(t, s.start \div 2)
        BY <1>5, <1>10, <2>2
      <3>2. QED BY <1>3, <1>8, <1>12, <2>2, <3>1 DEF Shows
    <2>3. CASE messages # <<>> /\ Seen(t, r, to) # {}
      <3>1. messages = Append(r.conv, [role |-> "assistant",
                                       text |-> TokensOf(t, r.start \div 2)])
        BY <1>3, <2>3 DEF Shows
      <3>2. PICK a : a = [role |-> "assistant",
                          text |-> TokensOf(t, r.start \div 2)]
        OBVIOUS
      <3>3. /\ Len(messages) = Len(r.conv) + 1
            /\ Len(r.conv) \in Nat /\ messages[Len(messages)] = a
        BY <1>4, <1>12, <3>1, <3>2
      <3>4. a \in Chat!Message
        BY <1>12, <3>3, ElementOfSeq
      <3>5. PICK z \in Chat!Message :
               z = [role |-> "assistant", text |-> TokensOf(t, s.start \div 2)]
        <4>1. TokensOf(t, r.start \div 2)
              \subseteq Chat!Turn \X (1 .. MaxTokens)
          BY <3>2, <3>4 DEF Chat!Message
        <4>2. QED BY <1>10, <1>11, <4>1 DEF Chat!Message
      <3>6. messages' = [messages EXCEPT ![Len(messages)] = z]
        <4>1. PICK new : new = Seen(t, r, to)
          OBVIOUS
        <4>2. messages' = [messages EXCEPT ![Len(messages)].text =
                                               @ \cup new]
          BY <1>5, <2>3, <3>2, <3>3, <4>1 DEF Chat!OnToken
        <4>3. [a EXCEPT !.text = @ \cup new] = z
          <5>1. PICK old : old = TokensOf(t, r.start \div 2)
            OBVIOUS
          <5>2. a = [role |-> "assistant", text |-> old]
            BY <3>2, <5>1
          <5>3. z = [role |-> "assistant", text |-> old \cup new]
            BY <1>10, <3>5, <4>1, <5>1
          <5>4. QED BY <5>2, <5>3, TextGrows
        <4>4. [messages[Len(messages)] EXCEPT !.text = @ \cup new] = z
          BY <3>3, <4>3
        <4>5. QED BY <4>2, <4>4
      <3>7. PICK w \in Seq(Chat!Message) : w = Append(r.conv, z)
        BY <1>4, AppendProperties
      <3>8. messages' = w
        <4>1. messages' \in Seq(Chat!Message) /\ Len(messages') = Len(messages)
              /\ \A i \in 1 .. Len(messages) :
                    messages'[i] = IF i = Len(messages) THEN z ELSE messages[i]
          BY <1>12, <3>3, <3>6, ExceptSeq
        <4>2. Len(w) = Len(messages) /\ w[Len(messages)] = z
              /\ \A i \in 1 .. Len(r.conv) : w[i] = r.conv[i]
          BY <1>4, <3>3, <3>7, AppendProperties
        <4>3. \A i \in 1 .. Len(r.conv) : messages[i] = r.conv[i]
          BY <1>4, <3>1
        <4>4. \A i \in 1 .. Len(messages') : messages'[i] = w[i]
          BY <3>3, <4>1, <4>2, <4>3
        <4>5. QED BY <3>7, <4>1, <4>2, <4>4, SeqEqual
      <3>9. QED BY <1>8, <3>5, <3>7, <3>8 DEF Shows
    <2>4. QED BY <2>1, <2>2, <2>3
  <1>14. UNCHANGED <<busy, error, asked, whole>>
    BY DEF Chat!ReadPieces
  <1>15. QED BY <1>1, <1>8, <1>9, <1>13, <1>14, StreamGoes

LEMMA ChatFinishStep ==
    ASSUME ChatInv, NEW t \in Chat!Turn, Chat!Finish(t)
    PROVE  ChatInv'
  <1>1. stream[t] # None
    BY DEF Chat!Finish
  <1>2. PICK r \in Chat!Stream : r = stream[t]
    BY <1>1, Waiting
  <1>3. /\ busy /\ t = asked /\ ~error
        /\ Put(r, whole, t) /\ Shows(messages, r, t)
    BY <1>1, <1>2, Waiting
  <1>4. /\ r.read = 2 * r.wrote /\ busy' = FALSE
        /\ whole' = [whole EXCEPT ![t] = r.wrote]
        /\ stream' = [stream EXCEPT ![t] = None]
        /\ UNCHANGED <<messages, error, asked>>
    BY <1>2 DEF Chat!Finish
  <1>5. /\ r.wrote \in 0 .. MaxTokens /\ r.wrote \in Nat
        /\ r.conv \in Seq(Chat!Message)
    BY ChatBounds DEF Chat!Stream
  <1>6. /\ whole' \in [Chat!Turn -> 0 .. MaxTokens] /\ whole'[t] = r.wrote
        /\ \A e \in Chat!Turn : e # t => whole'[e] = whole[e]
    BY <1>4, <1>5 DEF ChatInv, Chat!TypeOK
  <1>7. /\ stream' \in [Chat!Turn -> Chat!Stream \cup {None}]
        /\ stream'[t] = None
        /\ \A e \in Chat!Turn : e # t => stream'[e] = stream[e]
    BY <1>4 DEF ChatInv, Chat!TypeOK
  <1>8. Chat!TypeOK'
    BY <1>4, <1>6, <1>7 DEF ChatInv, Chat!TypeOK
  <1>9. ChatStreams'
    BY <1>3, <1>4, <1>7 DEF ChatInv, ChatStreams
  <1>10. PICK w : w = whole'
    OBVIOUS
  <1>11. Said(r.conv, w, t)
    <2> SUFFICES ASSUME NEW i \in 1 .. Len(r.conv)
                 PROVE  /\ r.conv[i].role = "user" => r.conv[i].turn <= t
                        /\ r.conv[i].role = "assistant"
                           => /\ i > 1 /\ r.conv[i - 1].role = "user"
                              /\ r.conv[i].text
                                 = TokensOf(r.conv[i - 1].turn,
                                            w[r.conv[i - 1].turn])
      BY DEF Said
    <2>1. /\ r.conv[i].role = "user" => r.conv[i].turn <= t
          /\ r.conv[i].role = "assistant"
             => /\ i > 1 /\ r.conv[i - 1].role = "user"
                /\ r.conv[i].text = TokensOf(r.conv[i - 1].turn,
                                             whole[r.conv[i - 1].turn])
      BY <1>3 DEF Put, Said
    <2>2. ASSUME r.conv[i].role = "assistant"
          PROVE  w[r.conv[i - 1].turn] = whole[r.conv[i - 1].turn]
      <3>1. i - 1 \in 1 .. Len(r.conv) - 1 /\ i - 1 \in 1 .. Len(r.conv)
        BY <1>5, <2>1, <2>2
      <3>2. r.conv[i - 1].role = "user" /\ r.conv[i - 1] \in Chat!Message
        BY <1>5, <2>1, <2>2, <3>1, ElementOfSeq
      <3>3. r.conv[i - 1].turn \in Chat!Turn
        BY <3>2 DEF Chat!Message
      <3>4. r.conv[i - 1].turn < t
        BY <1>3, <3>1, <3>2 DEF Put
      <3>5. r.conv[i - 1].turn # t
        BY <3>3, <3>4, ChatBounds DEF Chat!Turn
      <3>6. QED BY <1>6, <1>10, <3>3, <3>5
    <2>3. QED BY <2>1, <2>2
  <1>12. Said(messages, w, t)
    <2>1. CASE messages = <<>>
      BY <2>1 DEF Said
    <2>2. CASE messages # <<>>
      <3>1. PICK a : /\ a = [role |-> "assistant",
                              text |-> TokensOf(t, r.wrote)]
                     /\ messages = Append(r.conv, a)
        <4>1. r.start \div 2 = r.wrote
          <5>1. r.start = 2 * ((2 * r.wrote) \div 2)
            BY <1>3, <1>4 DEF Put
          <5>2. QED BY <1>5, <5>1, Halves
        <4>2. QED BY <1>3, <2>2, <4>1 DEF Shows
      <3>2. /\ Len(r.conv) \in Nat /\ Len(r.conv) >= 1
            /\ r.conv[Len(r.conv)] = [role |-> "user", turn |-> t]
        BY <1>3, <1>5, EmptySeq DEF Put
      <3>3. /\ messages \in Seq(Chat!Message)
            /\ Len(messages) = Len(r.conv) + 1
            /\ messages[Len(messages)] = a
            /\ \A i \in 1 .. Len(r.conv) : messages[i] = r.conv[i]
        BY <1>5, <3>1 DEF ChatInv, Chat!TypeOK
      <3>4. SUFFICES ASSUME NEW i \in 1 .. Len(messages)
                     PROVE  /\ messages[i].role = "user"
                               => messages[i].turn <= t
                            /\ messages[i].role = "assistant"
                               => /\ i > 1 /\ messages[i - 1].role = "user"
                                  /\ messages[i].text
                                     = TokensOf(messages[i - 1].turn,
                                                w[messages[i - 1].turn])
        BY DEF Said
      <3>5. CASE i = Len(messages)
        <4>1. i - 1 = Len(r.conv) /\ i > 1 /\ i - 1 \in 1 .. Len(r.conv)
          BY <3>2, <3>3, <3>5
        <4>2. messages[i - 1] = [role |-> "user", turn |-> t]
          BY <3>2, <3>3, <4>1
        <4>3. w[t] = r.wrote
          BY <1>6, <1>10
        <4>4. QED BY <3>1, <3>3, <3>5, <4>1, <4>2, <4>3
      <3>6. CASE i # Len(messages)
        <4>1. i \in 1 .. Len(r.conv) /\ messages[i] = r.conv[i]
          BY <3>2, <3>3, <3>6
        <4>2. i > 1 => i - 1 \in 1 .. Len(r.conv)
                       /\ messages[i - 1] = r.conv[i - 1]
          BY <3>2, <3>3, <4>1
        <4>3. QED BY <1>11, <4>1, <4>2 DEF Said
      <3>7. QED BY <3>5, <3>6
    <2>3. QED BY <2>1, <2>2
  <1>13. ChatSays'
    BY <1>3, <1>4, <1>10, <1>12 DEF ChatSays
  <1>14. QED
    BY <1>3, <1>4, <1>8, <1>9, <1>13 DEF ChatInv, Chat!FailureLeavesQuestion

LEMMA ChatCatchStep ==
    ASSUME ChatInv, NEW t \in Chat!Turn, Chat!Catch(t)
    PROVE  ChatInv'
  <1>1. stream[t] # None
    BY DEF Chat!Catch
  <1>2. PICK r \in Chat!Stream : r = stream[t]
    BY <1>1, Waiting
  <1>3. busy /\ t = asked /\ Put(r, whole, t)
    BY <1>1, <1>2, Waiting
  <1>4. /\ messages' = r.conv /\ busy' = FALSE /\ error' = TRUE
        /\ stream' = [stream EXCEPT ![t] = None]
        /\ UNCHANGED <<asked, whole>>
    BY <1>2 DEF Chat!Catch, Chat!AfterFailure, Chat!BusyAfterFailure
  <1>5. r.conv \in Seq(Chat!Message)
    BY DEF Chat!Stream
  <1>6. /\ stream' \in [Chat!Turn -> Chat!Stream \cup {None}]
        /\ stream'[t] = None
        /\ \A e \in Chat!Turn : e # t => stream'[e] = stream[e]
    BY <1>4 DEF ChatInv, Chat!TypeOK
  <1>7. Chat!TypeOK'
    BY <1>4, <1>5, <1>6 DEF ChatInv, Chat!TypeOK
  <1>8. ChatStreams'
    BY <1>3, <1>4, <1>6 DEF ChatInv, ChatStreams
  <1>9. ChatSays'
    BY <1>3, <1>4 DEF ChatSays, Put
  <1>10. Chat!FailureLeavesQuestion'
    BY <1>3, <1>4 DEF Put, Chat!FailureLeavesQuestion
  <1>11. QED BY <1>4, <1>7, <1>8, <1>9, <1>10 DEF ChatInv

LEMMA ChatStep == ChatInv /\ [Chat!Next]_(Chat!vars) => ChatInv'
  <1> SUFFICES ASSUME ChatInv, [Chat!Next]_(Chat!vars) PROVE ChatInv'
    OBVIOUS
  <1>1. CASE UNCHANGED Chat!vars
    <2>1. UNCHANGED <<messages, busy, error, stream, asked, whole>>
      BY <1>1 DEF Chat!vars
    <2>2. QED
      BY <2>1 DEF ChatInv, Chat!TypeOK, Chat!FailureLeavesQuestion,
                  ChatStreams, ChatSays
  <1>2. CASE Chat!Next
    <2>1. ASSUME NEW t \in Chat!Turn,
                 \/ Chat!Post(t) \/ Chat!Enqueue(t) \/ Chat!CloseController(t)
                 \/ Chat!ReadPieces(t) \/ Chat!Finish(t) \/ Chat!Catch(t)
          PROVE  ChatInv'
      BY <2>1, ChatRouteSteps, ChatReadStep, ChatFinishStep, ChatCatchStep,
         Zenon
    <2>2. QED
      BY <1>2, <2>1, ChatSendStep, ChatClearStep, Zenon DEF Chat!Next
  <1>3. QED BY <1>1, <1>2

LEMMA ChatAlways == Chat!Spec => []ChatInv
  BY ChatStart, ChatStep, PTL DEF Chat!Spec

LEMMA ChatPromise ==
    ChatInv => /\ Chat!AnswersBelong /\ Chat!AnswersWhole
               /\ Chat!BusyHasStream
  <1> SUFFICES ASSUME ChatInv
               PROVE  /\ Chat!AnswersBelong /\ Chat!AnswersWhole
                      /\ Chat!BusyHasStream
    OBVIOUS
  <1>1. Chat!BusyHasStream
    BY DEF ChatInv, ChatStreams, Chat!BusyHasStream
  <1>2. messages \in Seq(Chat!Message) /\ Len(messages) \in Nat
    BY DEF ChatInv, Chat!TypeOK
  <1>3. ASSUME NEW i \in 1 .. Len(messages), messages[i].role = "assistant"
        PROVE  /\ i > 1 /\ messages[i - 1].role = "user"
               /\ \E n : messages[i].text = TokensOf(messages[i - 1].turn, n)
               /\ stream[messages[i - 1].turn] = None
                  => messages[i].text = TokensOf(messages[i - 1].turn,
                                                 whole[messages[i - 1].turn])
    <2>1. CASE ~busy
      BY <1>3, <2>1 DEF ChatInv, ChatSays, Said
    <2>2. CASE busy
      <3>1. PICK r : r = stream[asked]
        OBVIOUS
      <3>2. asked \in Chat!Turn /\ r # None
        BY <2>2, <3>1 DEF ChatInv, ChatStreams
      <3>3. r \in Chat!Stream
        BY <3>1, <3>2 DEF ChatInv, Chat!TypeOK
      <3>4. Put(r, whole, asked) /\ Shows(messages, r, asked)
        BY <2>2, <3>1 DEF ChatInv, ChatSays
      <3>5. r.conv \in Seq(Chat!Message)
        BY <3>3 DEF Chat!Stream
      <3>6. messages # <<>>
        BY <1>2, EmptySeq
      <3>7. PICK a : /\ a = [role |-> "assistant",
                             text |-> TokensOf(asked, r.start \div 2)]
                     /\ messages = Append(r.conv, a)
        BY <3>4, <3>6 DEF Shows
      <3>8. /\ Len(r.conv) \in Nat /\ Len(r.conv) >= 1
            /\ r.conv[Len(r.conv)] = [role |-> "user", turn |-> asked]
        BY <3>4, <3>5, EmptySeq DEF Put
      <3>9. /\ Len(messages) = Len(r.conv) + 1
            /\ messages[Len(messages)] = a
            /\ \A k \in 1 .. Len(r.conv) : messages[k] = r.conv[k]
        BY <3>5, <3>7
      <3>10. CASE i = Len(messages)
        <4>1. i - 1 = Len(r.conv) /\ i > 1 /\ i - 1 \in 1 .. Len(r.conv)
          BY <3>8, <3>9, <3>10
        <4>2. messages[i - 1] = [role |-> "user", turn |-> asked]
          BY <3>8, <3>9, <4>1
        <4>3. QED BY <3>1, <3>2, <3>7, <3>9, <3>10, <4>1, <4>2
      <3>11. CASE i # Len(messages)
        <4>1. i \in 1 .. Len(r.conv) /\ messages[i] = r.conv[i]
          BY <3>8, <3>9, <3>11
        <4>2. i > 1 => i - 1 \in 1 .. Len(r.conv)
                       /\ messages[i - 1] = r.conv[i - 1]
          BY <3>8, <3>9, <4>1
        <4>3. QED BY <1>3, <3>4, <4>1, <4>2 DEF Put, Said
      <3>12. QED BY <3>10, <3>11
    <2>3. QED BY <2>1, <2>2
  <1>4. Chat!AnswersBelong
    BY <1>3 DEF Chat!AnswersBelong, TokensOf
  <1>5. Chat!AnswersWhole
    BY <1>2, <1>3 DEF Chat!AnswersWhole, TokensOf
  <1>6. QED BY <1>1, <1>4, <1>5
-----------------------------------------------------------------------------
(* The pages: a behaviour of MCPages is one of each of its parts, which may  *)
(* stay as it is; but for the events, which are those of the one dialog or   *)
(* those of other clients.                                                  *)
At == {"points", "events", "api", "trips", "logs", "map", "chat"}

EventsHere ==
    at \in At /\ IF at = "api" THEN Api!TypeOK ELSE EventsInv

LEMMA AllParts ==
    Spec => Points!Spec /\ Trips!Spec /\ Logs!Spec /\ Map!Spec /\ Chat!Spec
  <1>1. Init => Points!Init /\ Trips!Init /\ Logs!Init /\ Map!Init /\ Chat!Init
    BY DEF Init
  <1>2. [Next]_vars => [Points!Next]_(Points!vars)
    BY DEF Next, vars, inPoints, Points!vars, Points!server, Points!adder,
           Points!adds, Points!importer, Points!ghosts
  <1>3. [Next]_vars => [Trips!Next]_(Trips!vars)
    BY DEF Next, vars, inTrips, Trips!vars, Trips!screen
  <1>4. [Next]_vars => [Logs!Next]_(Logs!vars)
    BY DEF Next, vars, inLogs, Logs!vars, Logs!page, Logs!net
  <1>5. [Next]_vars => [Map!Next]_(Map!vars)
    BY DEF Next, vars, inMap, Map!vars, Map!refs
  <1>6. [Next]_vars => [Chat!Next]_(Chat!vars)
    BY DEF Next, vars, inChat, Chat!vars
  <1>7. QED
    BY <1>1, <1>2, <1>3, <1>4, <1>5, <1>6, PTL
       DEF Spec, Points!Spec, Trips!Spec, Logs!Spec, Map!Spec, Chat!Spec

LEMMA EventsHereAlways == Spec => []EventsHere
  <1>1. Init => EventsHere
    BY EventsStart, ApiStart DEF Init, EventsHere, At
  <1>2. [Next]_vars => UNCHANGED at
    BY DEF Next, vars
  <1>3. at = "api" /\ [Next]_vars => [Api!Next]_(Api!vars)
    BY DEF Next, vars, inEvents, Api!vars, Api!dialog
  <1>4. at # "api" /\ [Next]_vars => [Events!Next]_(Events!vars)
    BY DEF Next, vars, inEvents, Events!vars, Events!dialog
  <1>5. EventsHere /\ [Next]_vars => EventsHere'
    BY <1>2, <1>3, <1>4, EventsStep, ApiStep DEF EventsHere
  <1>6. QED BY <1>1, <1>5, PTL DEF Spec

(* Every reachable state of the pages is well typed.                         *)
THEOREM PagesTypeCorrect == Spec => []TypeOK
  <1>1. PointsInv /\ EventsHere /\ TripsInv /\ LogsInv /\ MapInv /\ ChatInv
        => TypeOK
    BY DEF PointsInv, EventsHere, At, EventsInv, TripsInv, LogsInv, MapInv,
           ChatInv, TypeOK
  <1>2. QED
    BY <1>1, AllParts, EventsHereAlways, PointsAlways, TripsAlways, LogsAlways,
       MapAlways, ChatAlways, PTL

(* A waypoint is where the user confirmed it, whatever was clicked while its *)
(* leg was looked for or made (page.tsx, addWaypointAtPending).              *)
THEOREM WaypointsAreConfirmed == Spec => []AddedWhereConfirmed
  <1>1. PointsInv => AddedWhereConfirmed
    BY DEF PointsInv, AddedWhereConfirmed
  <1>2. QED BY <1>1, AllParts, PointsAlways, PTL

(* An add goes to no leg older than one that the page had heard of when it   *)
(* was confirmed, however old its list of legs is and however late it comes, *)
(* unless its list was invalidated while it was on its way for the first    *)
(* time.                                                                    *)
THEOREM AddsKeepUp == Spec => []NotOnOlderLeg
  <1>1. PointsInv => NotOnOlderLeg
    BY PointsPromise DEF NotOnOlderLeg
  <1>2. QED BY <1>1, AllParts, PointsAlways, PTL

(* The dialog of a file closes on the success of its own import only, and    *)
(* the banner tells of that file, however many imports are under way.        *)
THEOREM DialogsCloseOnTheirImport == Spec => ClosesOnOwnImport
  <1>1. PointsInv /\ [Points!Next]_(Points!vars)
        => [file # None /\ banner' # banner /\ banner' # None
              => file' = None /\ banner' = file]_(Points!vars)
    BY BannerStep
  <1>2. QED
    BY <1>1, AllParts, PointsAlways, PTL
       DEF Points!Spec, ClosesOnOwnImport, Points!ClosesOnOwnImport

(* With nothing under way the page lists the events there are, unless a call *)
(* ended while the first list was on its way.                               *)
THEOREM RestedEventsShow == Spec => []RestShowsEvents
  <1>1. EventsHere => RestShowsEvents
    BY DEF EventsHere, EventsInv, EventsFollow, NoEventCalls, EventsRead,
           RestShowsEvents, Events!RestShowsEvents
  <1>2. QED BY <1>1, EventsHereAlways, PTL

(* With nothing under way the list shows the trips there are: no optimistic  *)
(* trip and no snapshot outlives the calls that made it, unless one of them  *)
(* ended while the list that is shown was on its way.                       *)
THEOREM RestedTripsShow == Spec => []RestShowsTrips
  <1>1. TripsInv => RestShowsTrips
    BY DEF TripsInv, TripsFollow, NoTripCalls, RestShowsTrips,
           Trips!RestShowsTrips
  <1>2. QED BY <1>1, AllParts, TripsAlways, PTL

(* With nothing under way the page shows the field logs there are, unless a  *)
(* call ended while the first list was on its way.                          *)
THEOREM RestedLogsShow == Spec => []RestShowsLogs
  <1>1. LogsInv => RestShowsLogs
    BY DEF LogsInv, LogsFollow, NoLogCalls, RestShowsLogs, Logs!RestShowsLogs
  <1>2. QED BY <1>1, AllParts, LogsAlways, PTL

(* There is one map at most, that of the last run of the effect, on an open  *)
(* page, in whatever order headers arrive and the page changes or closes.    *)
THEOREM OneMapLives == Spec => []OneLiveMap
  <1>1. MapInv => OneLiveMap
    BY MapPromise DEF OneLiveMap
  <1>2. QED BY <1>1, AllParts, MapAlways, PTL

(* A map that is shown has the waypoints of the page and hears its clicks,   *)
(* and no map that has gone hears any.                                      *)
THEOREM MapsShowThePage == Spec => []ShownMapWorks
  <1>1. MapInv => ShownMapWorks
    BY MapPromise DEF ShownMapWorks
  <1>2. QED BY <1>1, AllParts, MapAlways, PTL

(* What an answer shows came for the question above it, whatever was cleared *)
(* and asked while it came.                                                 *)
THEOREM AnswersFollowQuestions == Spec => []AnswersBelong
  <1>1. ChatInv => AnswersBelong
    BY ChatPromise DEF AnswersBelong
  <1>2. QED BY <1>1, AllParts, ChatAlways, PTL

(* An answer that ended well has every token of it, however its events were  *)
(* cut by the reads of the stream.                                          *)
THEOREM NoTokenIsLost == Spec => []AnswersWhole
  <1>1. ChatInv => AnswersWhole
    BY ChatPromise DEF AnswersWhole
  <1>2. QED BY <1>1, AllParts, ChatAlways, PTL

(* A failed question is the last thing said, with nothing of its answer.     *)
THEOREM FailuresLeaveQuestions == Spec => []FailureLeavesQuestion
  <1>1. ChatInv => FailureLeavesQuestion
    BY DEF ChatInv, FailureLeavesQuestion
  <1>2. QED BY <1>1, AllParts, ChatAlways, PTL

(* A chat that waits has a request under way to wait for.                    *)
THEOREM WaitingHasRequest == Spec => []BusyHasStream
  <1>1. ChatInv => BusyHasStream
    BY ChatPromise DEF BusyHasStream
  <1>2. QED BY <1>1, AllParts, ChatAlways, PTL
=============================================================================
