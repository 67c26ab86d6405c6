--------------------------- MODULE TripStoreProofs ---------------------------
(***************************************************************************)
(* Theorems about TripStore, for any users, trips, legs, waypoints, files,  *)
(* number of handlers and pool size; and that it implements TripBook.       *)
(***************************************************************************)
EXTENDS TripStore, FiniteSetTheorems, SequenceTheorems, TLAPS

(* Which requests a handler can be serving at each of its statements.       *)
ReqInv ==
    \A s \in Slot :
        /\ pc[s] # "idle" => req[s] \in Incoming
        /\ pc[s] \in {"tripInsert"} => req[s].op = "createTrip"
        /\ pc[s] \in {"tripDelete", "deleting"} => req[s].op = "deleteTrip"
        /\ pc[s] = "checkTrip" => req[s].op \notin {"createTrip", "deleteTrip"}
        /\ pc[s] = "checkLeg" => req[s].op \in {"createWpt", "deleteWpt"}
        /\ pc[s] \in {"legSelect", "legInsert"} =>
              req[s].op \in {"createLeg", "importGpx"}
        /\ pc[s] \in {"legSelect", "legInsert"} /\ req[s].op = "importGpx" =>
              req[s].file # None
        /\ pc[s] \in {"wptSelect", "wptInsert"} => req[s].op = "createWpt"
        /\ pc[s] = "wptDelete" => req[s].op = "deleteWpt"
        /\ pc[s] \in {"items", "commit"} =>
              req[s].op = "importGpx" /\ new[s] \in Leg

TypeInv == TypeOK /\ ReqInv

(* NextSeq yields positive numbers, one past a member of S or 1.            *)
LEMMA NextSeqFact ==
    ASSUME NEW S \in SUBSET Nat, NEW n \in NextSeq(S)
    PROVE  /\ n \in Nat /\ n > 0
           /\ n = 1 \/ n - 1 \in S
           /\ \A k \in S : k < n
  BY DEF NextSeq

LEMMA NextLegSeqFact ==
    ASSUME TypeOK, NEW t \in Trip, NEW s \in Slot, NEW n \in NextLegSeq(t, s)
    PROVE  /\ n \in Nat /\ n > 0
           /\ n = 1 \/ \E l \in LegsOf(t, s) : legs[l].seq = n - 1
  <1> DEFINE S == {legs[l].seq : l \in LegsOf(t, s)}
  <1>1. S \in SUBSET Nat
    BY DEF LegsOf, TypeOK, LegRow
  <1>2. n \in NextSeq(S)
    BY DEF NextLegSeq
  <1>3. QED BY <1>1, <1>2, NextSeqFact

LEMMA NextWptSeqFact ==
    ASSUME TypeOK, NEW l \in Leg, NEW s \in Slot, NEW n \in NextWptSeq(l, s)
    PROVE  n \in Nat /\ n > 0
  <1> DEFINE S == {wpts[w].seq : w \in WptsOf(l, s)}
  <1>1. S \in SUBSET Nat
    BY DEF WptsOf, TypeOK, WptRow
  <1>2. n \in NextSeq(S)
    BY DEF NextWptSeq
  <1>3. QED BY <1>1, <1>2, NextSeqFact

(* An answer leaves the types, and a handler only answers or goes idle.     *)
LEMMA AnswerType ==
    ASSUME TypeInv, NEW s \in Slot, NEW st \in Status, Answer(s, st)
    PROVE  /\ req' \in [Slot -> Request \cup {None}]
           /\ pc' \in [Slot -> PC]
           /\ out' \in [Slot -> Status]
           /\ pc'[s] \in {"idle", "answered"}
           /\ pc'[s] # "idle" => req'[s] = req[s]
           /\ \A r \in Slot \ {s} : pc'[r] = pc[r] /\ req'[r] = req[r]
  BY DEF Answer, TypeInv, TypeOK, PC

LEMMA GotoType ==
    ASSUME TypeInv, NEW s \in Slot, NEW label \in PC, Goto(s, label)
    PROVE  /\ req' \in [Slot -> Request \cup {None}]
           /\ pc' \in [Slot -> PC]
           /\ out' \in [Slot -> Status]
           /\ pc'[s] = label
           /\ req' = req
           /\ \A r \in Slot \ {s} : pc'[r] = pc[r]
  BY DEF Goto, TypeInv, TypeOK

LEMMA RollbackType ==
    ASSUME TypeInv, NEW s \in Slot, Rollback(s)
    PROVE  /\ owner' \in [Trip -> User \cup {None}]
           /\ legs' \in [Leg -> LegRow]
           /\ wpts' \in [Waypoint -> WptRow]
           /\ drawn' \subseteq Trip \cup Leg \cup Waypoint
  BY DEF Rollback, TypeInv, TypeOK, LegRow, WptRow, NoLeg, NoWpt
(* Any answer of a handler keeps ReqInv, provided var keeps its type.       *)
LEMMA AnswerReq ==
    ASSUME TypeInv, NEW s \in Slot, NEW st \in Status, Answer(s, st),
           pc[s] # "idle", \A r \in Slot \ {s} : new'[r] = new[r]
    PROVE  ReqInv'
  BY AnswerType DEF ReqInv, TypeInv

LEMMA TypeStep == TypeInv /\ [Next]_vars => TypeInv'
  <1> SUFFICES ASSUME TypeInv, [Next]_vars PROVE TypeInv'
    OBVIOUS
  <1> USE NoneAssumption, DoneAssumption DEF TypeInv, CarriedOut
  <1>0. CASE UNCHANGED vars
    BY <1>0 DEF vars, TypeOK, ReqInv, Incoming
  <1>1. ASSUME NEW s \in Slot, Receive(s) PROVE TypeInv'
    <2>1. PICK r \in Incoming : /\ req' = [req EXCEPT ![s] = r]
                               /\ pc' = [pc EXCEPT ![s] = Started(r.op)]
      BY <1>1 DEF Receive
    <2>2. r \in Request /\ Started(r.op) \in PC
      BY <2>1 DEF Incoming, Started, PC
    <2>4. TypeOK'
      BY <1>1, <2>1, <2>2 DEF Receive, TypeOK, tables, locals, Status
    <2>5. ReqInv'
      BY <1>1, <2>1, <2>2 DEF Receive, ReqInv, TypeOK, Started, Request, Op
    <2>6. QED BY <2>4, <2>5
  <1>2. ASSUME NEW s \in Slot, CreateTrip(s) PROVE TypeInv'
    <2>1. PICK st \in Status : Answer(s, st)
      BY <1>2 DEF CreateTrip, InsertFails, Status
    <2>2. TypeOK'
      <3>1. CASE InsertFails(s, Trip)
        BY <2>1, <3>1, AnswerType, RollbackType
        DEF InsertFails, locals, TypeOK
      <3>2. req[s].user \in User
        BY <1>2 DEF CreateTrip, ReqInv, Incoming, Request
      <3>3. ASSUME NEW t \in Trip, owner' = [owner EXCEPT ![t] = req[s].user],
                   drawn' = drawn \cup {t}, new' = [new EXCEPT ![s] = t],
                   UNCHANGED <<legs, wpts, seqNo, todo, live>>
            PROVE  TypeOK'
        BY <2>1, <3>2, <3>3, AnswerType DEF TypeOK
      <3>4. QED BY <1>2, <3>1, <3>3 DEF CreateTrip
    <2>3. ReqInv'
      BY <1>2, <2>1, AnswerReq DEF CreateTrip, InsertFails, locals, TypeOK
    <2>4. QED BY <2>2, <2>3
  <1>3. ASSUME NEW s \in Slot, StartDeleteTrip(s) PROVE TypeInv'
    <2>1. "deleting" \in PC
      BY DEF PC
    <2>2. TypeOK'
      BY <1>3, <2>1, GotoType DEF StartDeleteTrip, TypeOK, tables, locals
    <2>3. ReqInv'
      BY <1>3, <2>1, GotoType DEF StartDeleteTrip, ReqInv, locals
    <2>4. QED BY <2>2, <2>3
  <1>4. ASSUME NEW s \in Slot, DeleteTrip(s) PROVE TypeInv'
    <2>1. PICK st \in Status : Answer(s, st)
      BY <1>4 DEF DeleteTrip, Status
    <2>2. TypeOK'
      <3>1. CASE Cascade(req[s].trip)
        <4>1. NoLeg \in LegRow /\ NoWpt \in WptRow
          BY DEF LegRow, WptRow, NoLeg, NoWpt
        <4>2. /\ owner' \in [Trip -> User \cup {None}]
              /\ legs' \in [Leg -> LegRow]
              /\ wpts' \in [Waypoint -> WptRow]
          BY <3>1, <4>1 DEF Cascade, TypeOK
        <4>3. drawn' = drawn /\ UNCHANGED locals
          BY <1>4 DEF DeleteTrip, tables
        <4>4. QED BY <2>1, <4>2, <4>3, AnswerType DEF TypeOK, locals
      <3>2. CASE ~Cascade(req[s].trip)
        BY <1>4, <2>1, <3>2, AnswerType DEF DeleteTrip, TypeOK, tables, locals
      <3>3. QED BY <3>1, <3>2
    <2>3. ReqInv'
      BY <1>4, <2>1, AnswerReq DEF DeleteTrip, locals
    <2>4. QED BY <2>2, <2>3
  <1>5. ASSUME NEW s \in Slot, CheckTrip(s) PROVE TypeInv'
    <2>1. CASE \E st \in {"notFound", "refused"} : Answer(s, st)
      BY <1>5, <2>1, AnswerType, AnswerReq
      DEF CheckTrip, TypeOK, tables, locals, Status
    <2>2. CASE Goto(s, AfterCheck(req[s])) /\
               (req[s].op = "importGpx" => req[s].file # None)
      <3>1. AfterCheck(req[s]) \in PC
        BY DEF AfterCheck, PC
      <3>2. TypeOK'
        BY <1>5, <2>2, <3>1, GotoType DEF CheckTrip, TypeOK, tables, locals
      <3>3. ReqInv'
        BY <1>5, <2>2, <3>1, GotoType
        DEF CheckTrip, ReqInv, locals, AfterCheck, Incoming, Request, Op
      <3>4. QED BY <3>2, <3>3
    <2>3. QED BY <1>5, <2>1, <2>2 DEF CheckTrip
  <1>6. ASSUME NEW s \in Slot, CheckLeg(s) PROVE TypeInv'
    <2>1. CASE \E st \in {"notFound", "refused"} : Answer(s, st)
      BY <1>6, <2>1, AnswerType, AnswerReq
      DEF CheckLeg, TypeOK, tables, locals, Status
    <2>2. CASE \/ req[s].op = "createWpt" /\ Goto(s, "wptSelect")
               \/ req[s].op = "deleteWpt" /\ Goto(s, "wptDelete")
      <3>1. {"wptSelect", "wptDelete"} \subseteq PC
        BY DEF PC
      <3>2. TypeOK'
        BY <1>6, <2>2, <3>1, GotoType DEF CheckLeg, TypeOK, tables, locals
      <3>3. ReqInv'
        BY <1>6, <2>2, <3>1, GotoType DEF CheckLeg, ReqInv, locals
      <3>4. QED BY <3>2, <3>3
    <2>3. QED BY <1>6, <2>1, <2>2 DEF CheckLeg
  <1>7. ASSUME NEW s \in Slot, SelectLegSeq(s) PROVE TypeInv'
    <2> DEFINE t == req[s].trip
    <2>1. t \in Trip /\ "legInsert" \in PC /\ "notFound" \in Status
      BY <1>7 DEF SelectLegSeq, ReqInv, Incoming, Request, PC, Status
    <2>2. CASE Answer(s, "notFound") /\ UNCHANGED locals
      BY <1>7, <2>1, <2>2, AnswerType, AnswerReq
      DEF SelectLegSeq, TypeOK, tables, locals
    <2>3. CASE /\ \E n \in NextLegSeq(t, s) :
                      seqNo' = [seqNo EXCEPT ![s] = n]
               /\ Goto(s, "legInsert")
               /\ UNCHANGED <<new, todo, live>>
      <3>1. PICK n \in Nat : seqNo' = [seqNo EXCEPT ![s] = n]
        BY <2>1, <2>3, NextLegSeqFact
      <3>2. TypeOK'
        BY <1>7, <2>1, <2>3, <3>1, GotoType
        DEF SelectLegSeq, TypeOK, tables, locals
      <3>3. ReqInv'
        BY <1>7, <2>1, <2>3, <3>1, GotoType DEF SelectLegSeq, ReqInv, TypeOK
      <3>4. QED BY <3>2, <3>3
    <2>4. QED BY <1>7, <2>2, <2>3 DEF SelectLegSeq
  <1>8. ASSUME NEW s \in Slot, InsertLeg(s) PROVE TypeInv'
    <2> DEFINE t == req[s].trip
               n == seqNo[s]
               Row(tx) == [trip |-> t, seq |-> n, routes |-> 0, tx |-> tx]
    <2>1. t \in Trip /\ n \in Nat /\ pc[s] = "legInsert"
      BY <1>8 DEF InsertLeg, ReqInv, Incoming, Request, TypeOK
    <2>2. CASE InsertFails(s, Leg) \/ UNCHANGED <<tables, locals>>
      <3>1. PICK st \in Status : Answer(s, st)
        BY <1>8, <2>2 DEF InsertLeg, InsertFails, Status, tables
      <3>2. TypeOK'
        BY <2>2, <3>1, AnswerType, RollbackType
        DEF InsertFails, TypeOK, tables, locals
      <3>3. ReqInv'
        BY <2>1, <2>2, <3>1, AnswerReq DEF InsertFails, locals
      <3>4. QED BY <3>2, <3>3
    <2>3. ASSUME NEW l \in Leg, drawn' = drawn \cup {l},
                 new' = [new EXCEPT ![s] = l],
                 UNCHANGED <<owner, wpts, seqNo, live>>,
                 \/ /\ legs' = [legs EXCEPT ![l] = Row(Done)]
                    /\ CarriedOut(s)
                    /\ UNCHANGED todo
                 \/ /\ req[s].op = "importGpx"
                    /\ legs' = [legs EXCEPT ![l] = Row(s)]
                    /\ todo' = [todo EXCEPT ![s] = req[s].file]
                    /\ Goto(s, "items")
          PROVE  TypeInv'
      <3>1. Row(Done) \in LegRow /\ Row(s) \in LegRow
        BY <2>1 DEF LegRow
      <3>2. {"ok", "refused"} \subseteq Status /\ "items" \in PC
        BY DEF Status, PC
      <3>3. CASE CarriedOut(s) /\ legs' = [legs EXCEPT ![l] = Row(Done)]
                 /\ UNCHANGED todo
        <4>1. TypeOK'
          BY <2>3, <3>1, <3>2, <3>3, AnswerType DEF TypeOK
        <4>2. ReqInv'
          BY <2>1, <2>3, <3>2, <3>3, AnswerReq DEF TypeOK
        <4>3. QED BY <4>1, <4>2
      <3>4. CASE /\ req[s].op = "importGpx" /\ Goto(s, "items")
                 /\ legs' = [legs EXCEPT ![l] = Row(s)]
                 /\ todo' = [todo EXCEPT ![s] = req[s].file]
        <4>1. req[s].file \in Seq(Item)
          BY <2>1, <3>4, FileAssumption DEF ReqInv, Incoming, Request
        <4>2. TypeOK'
          BY <2>3, <3>1, <3>2, <3>4, <4>1, GotoType DEF TypeOK
        <4>3. ReqInv'
          BY <2>1, <2>3, <3>2, <3>4, GotoType DEF ReqInv, TypeOK
        <4>4. QED BY <4>2, <4>3
      <3>5. QED BY <2>3, <3>3, <3>4
    <2>4. QED BY <1>8, <2>2, <2>3 DEF InsertLeg
  <1>9. ASSUME NEW s \in Slot, SelectWptSeq(s) PROVE TypeInv'
    <2> DEFINE l == req[s].leg
    <2>1. l \in Leg /\ "wptInsert" \in PC /\ "notFound" \in Status
      BY <1>9 DEF SelectWptSeq, ReqInv, Incoming, Request, PC, Status
    <2>2. CASE Answer(s, "notFound") /\ UNCHANGED locals
      BY <1>9, <2>1, <2>2, AnswerType, AnswerReq
      DEF SelectWptSeq, TypeOK, tables, locals
    <2>3. CASE /\ \E n \in NextWptSeq(l, s) :
                      seqNo' = [seqNo EXCEPT ![s] = n]
               /\ Goto(s, "wptInsert")
               /\ UNCHANGED <<new, todo, live>>
      <3>1. PICK n \in Nat : seqNo' = [seqNo EXCEPT ![s] = n]
        BY <2>1, <2>3, NextWptSeqFact
      <3>2. TypeOK'
        BY <1>9, <2>1, <2>3, <3>1, GotoType
        DEF SelectWptSeq, TypeOK, tables, locals
      <3>3. ReqInv'
        BY <1>9, <2>1, <2>3, <3>1, GotoType DEF SelectWptSeq, ReqInv, TypeOK
      <3>4. QED BY <3>2, <3>3
    <2>4. QED BY <1>9, <2>2, <2>3 DEF SelectWptSeq
  <1>10. ASSUME NEW s \in Slot, InsertWpt(s) PROVE TypeInv'
    <2> DEFINE l == req[s].leg
               n == seqNo[s]
    <2>1. /\ l \in Leg /\ n \in Nat /\ pc[s] = "wptInsert"
          /\ {"ok", "refused"} \subseteq Status
      BY <1>10 DEF InsertWpt, ReqInv, Incoming, Request, TypeOK, Status
    <2>2. CASE InsertFails(s, Waypoint) \/ UNCHANGED <<tables, locals>>
      <3>1. PICK st \in Status : Answer(s, st)
        BY <1>10, <2>1, <2>2 DEF InsertWpt, InsertFails
      <3>2. TypeOK'
        BY <2>2, <3>1, AnswerType, RollbackType
        DEF InsertFails, TypeOK, tables, locals
      <3>3. ReqInv'
        BY <2>1, <2>2, <3>1, AnswerReq DEF InsertFails, locals
      <3>4. QED BY <3>2, <3>3
    <2>3. ASSUME NEW w \in Waypoint, drawn' = drawn \cup {w},
                 new' = [new EXCEPT ![s] = w],
                 wpts' = [wpts EXCEPT ![w] =
                            [leg |-> l, seq |-> n, tx |-> Done]],
                 UNCHANGED <<owner, legs, seqNo, todo, live>>,
                 CarriedOut(s)
          PROVE  TypeInv'
      <3>1. [leg |-> l, seq |-> n, tx |-> Done] \in WptRow
        BY <2>1 DEF WptRow
      <3>2. TypeOK'
        BY <2>1, <2>3, <3>1, AnswerType DEF TypeOK
      <3>3. ReqInv'
        BY <2>1, <2>3, AnswerReq DEF TypeOK
      <3>4. QED BY <3>2, <3>3
    <2>4. QED BY <1>10, <2>2, <2>3 DEF InsertWpt
  <1>11. ASSUME NEW s \in Slot, DeleteWpt(s) PROVE TypeInv'
    <2>1. PICK st \in Status : Answer(s, st)
      BY <1>11 DEF DeleteWpt, Status
    <2>2. wpts' \in [Waypoint -> WptRow]
      <3>1. NoWpt \in WptRow
        BY DEF NoWpt, WptRow
      <3>2. wpts' = [wpts EXCEPT ![req[s].wpt] = NoWpt] \/ wpts' = wpts
        BY <1>11 DEF DeleteWpt
      <3>3. QED BY <3>1, <3>2 DEF TypeOK
    <2>3. pc[s] # "idle" /\ UNCHANGED <<owner, legs, drawn, locals>>
      BY <1>11 DEF DeleteWpt
    <2>4. TypeOK'
      BY <2>1, <2>2, <2>3, AnswerType DEF TypeOK, locals
    <2>5. ReqInv'
      BY <2>1, <2>3, AnswerReq DEF locals
    <2>6. QED BY <2>4, <2>5
  <1>12. ASSUME NEW s \in Slot, ImportWpt(s) PROVE TypeInv'
    <2> DEFINE l == new[s]
    <2>1. l \in Leg /\ pc[s] = "items"
      BY <1>12 DEF ImportWpt, ReqInv
    <2>2. CASE Rollback(s) /\ UNCHANGED locals
               /\ \E st \in {"notFound", "refused"} : Answer(s, st)
      <3>1. {"notFound", "refused"} \subseteq Status
        BY DEF Status
      <3>2. TypeOK'
        BY <2>2, <3>1, AnswerType, RollbackType DEF TypeOK, locals
      <3>3. ReqInv'
        BY <2>1, <2>2, <3>1, AnswerReq DEF locals
      <3>4. QED BY <3>2, <3>3
    <2>3. ASSUME NEW w \in Waypoint, NEW n \in NextWptSeq(l, s),
                 wpts' = [wpts EXCEPT ![w] =
                            [leg |-> l, seq |-> n, tx |-> s]],
                 drawn' = drawn \cup {w},
                 todo' = [todo EXCEPT ![s] = Tail(todo[s])],
                 todo[s] # <<>>,
                 UNCHANGED <<owner, legs, req, pc, seqNo, new, live, out>>
          PROVE  TypeInv'
      <3>1. [leg |-> l, seq |-> n, tx |-> s] \in WptRow
        BY <2>1, <2>3, NextWptSeqFact DEF WptRow
      <3>2. Tail(todo[s]) \in Seq(Item)
        BY <2>3 DEF TypeOK
      <3>3. TypeOK'
        BY <2>3, <3>1, <3>2 DEF TypeOK
      <3>4. ReqInv'
        BY <2>3 DEF ReqInv
      <3>5. QED BY <3>3, <3>4
    <2>4. QED BY <1>12, <2>2, <2>3 DEF ImportWpt, InsertFails
  <1>13. ASSUME NEW s \in Slot, ImportRoute(s) PROVE TypeInv'
    <2> DEFINE l == new[s]
    <2>1. l \in Leg /\ pc[s] = "items"
      BY <1>13 DEF ImportRoute, ReqInv
    <2>2. legs' \in [Leg -> LegRow]
      BY <1>13, <2>1 DEF ImportRoute, TypeOK, LegRow
    <2>3. Tail(todo[s]) \in Seq(Item)
      BY <1>13 DEF ImportRoute, TypeOK
    <2>4. TypeOK'
      BY <1>13, <2>2, <2>3 DEF ImportRoute, TypeOK
    <2>5. ReqInv'
      BY <1>13 DEF ImportRoute, ReqInv
    <2>6. QED BY <2>4, <2>5
  <1>14. ASSUME NEW s \in Slot, ImportEnds(s) PROVE TypeInv'
    <2>1. {"refused"} \subseteq Status /\ "commit" \in PC
      BY DEF Status, PC
    <2>2. CASE Rollback(s) /\ Answer(s, "refused")
      <3>1. TypeOK'
        BY <1>14, <2>1, <2>2, AnswerType, RollbackType
        DEF ImportEnds, TypeOK, locals
      <3>2. ReqInv'
        BY <1>14, <2>1, <2>2, AnswerReq DEF ImportEnds, locals
      <3>3. QED BY <3>1, <3>2
    <2>3. CASE Goto(s, "commit") /\ UNCHANGED tables
      <3>1. TypeOK'
        BY <1>14, <2>1, <2>3, GotoType DEF ImportEnds, TypeOK, tables, locals
      <3>2. ReqInv'
        BY <1>14, <2>1, <2>3, GotoType DEF ImportEnds, ReqInv, locals
      <3>3. QED BY <3>1, <3>2
    <2>4. QED BY <1>14, <2>2, <2>3 DEF ImportEnds
  <1>15. ASSUME NEW s \in Slot, Commit(s) PROVE TypeInv'
    <2>1. {"ok", "refused"} \subseteq Status /\ CarriedOut(s) /\ pc[s] # "idle"
          /\ UNCHANGED locals
      BY <1>15 DEF Commit, Status
    <2>2. legs' \in [Leg -> LegRow]
      BY <1>15 DEF Commit, TypeOK, LegRow
    <2>3. wpts' \in [Waypoint -> WptRow]
      BY <1>15 DEF Commit, TypeOK, WptRow
    <2>4. TypeOK'
      BY <1>15, <2>1, <2>2, <2>3, AnswerType DEF Commit, TypeOK, locals
    <2>5. ReqInv'
      BY <2>1, AnswerReq DEF locals
    <2>6. QED BY <2>4, <2>5
  <1>16. ASSUME NEW s \in Slot, StatementFails(s) PROVE TypeInv'
    <2>1. "refused" \in Status /\ Answer(s, "refused") /\ pc[s] # "idle"
          /\ Rollback(s) /\ UNCHANGED locals
      BY <1>16 DEF StatementFails, Status
    <2>2. TypeOK'
      BY <2>1, AnswerType, RollbackType DEF TypeOK, locals
    <2>3. ReqInv'
      BY <2>1, AnswerReq DEF locals
    <2>4. QED BY <2>2, <2>3
  <1>17. ASSUME NEW s \in Slot, Abandon(s) PROVE TypeInv'
    <2>1. CASE Vanish(s)
      <3>1. "idle" \in PC
        BY DEF PC
      <3>2. TypeOK'
        BY <2>1, <3>1, RollbackType DEF Vanish, TypeOK, locals
      <3>3. ReqInv'
        BY <2>1 DEF Vanish, ReqInv, TypeOK, locals
      <3>4. QED BY <3>2, <3>3
    <2>2. CASE /\ live' = [live EXCEPT ![s] = FALSE]
               /\ UNCHANGED <<tables, req, pc, seqNo, new, todo, out>>
      BY <2>2 DEF TypeOK, ReqInv, tables
    <2>3. QED BY <1>17, <2>1, <2>2 DEF Abandon
  <1>18. QED
    BY <1>0, <1>1, <1>2, <1>3, <1>4, <1>5, <1>6, <1>7, <1>8, <1>9, <1>10,
       <1>11, <1>12, <1>13, <1>14, <1>15, <1>16, <1>17 DEF Next, Handle
(* Every state of every behaviour is well typed, and a handler stands only   *)
(* at statements of the request it serves.                                   *)
THEOREM TypeCorrect == Spec => []TypeOK
  <1>1. Init => TypeInv
    BY NoneAssumption
    DEF Init, TypeInv, TypeOK, ReqInv, NoLeg, NoWpt, LegRow, WptRow, PC, Status
  <1>2. TypeInv => TypeOK
    BY DEF TypeInv
  <1>3. QED BY <1>1, <1>2, TypeStep, PTL DEF Spec
-----------------------------------------------------------------------------
(* The inductive invariant.  A step moves one handler; Others says the rest  *)
(* stay put, Resting that the one that moved is left with nothing pending.   *)
Inv == TypeInv /\ StoreInv

Others(s) ==
    \A r \in Slot \ {s} : /\ pc'[r] = pc[r] /\ req'[r] = req[r]
                          /\ new'[r] = new[r] /\ seqNo'[r] = seqNo[r]

Pending == {"legInsert", "wptSelect", "wptInsert"}
Open == {"items", "commit"}
Resting(s) == pc'[s] \notin Pending \cup Open

(* A handler with no open transaction writes nothing and comes to rest.      *)
LEMMA QuietStep ==
    ASSUME Inv, NEW s \in Slot, Others(s), Resting(s), UNCHANGED tables,
           pc[s] \notin Open
    PROVE  StoreInv'
  <1> USE DEF tables, Inv, StoreInv
  <1>1. LegsNumbered' /\ WptsDistinct' /\ NoOrphans' /\ RowsInv'
    BY DEF LegsNumbered, WptsDistinct, NoOrphans, RowsInv, LegSeqTaken,
           WptSeqTaken, CommittedSeqs
  <1>2. OpenInv'
    BY DEF OpenInv, Others, Resting, Open, Pending
  <1>3. NoPartialImport'
    BY DEF NoPartialImport, Others, Open, TypeInv, TypeOK, LegRow
  <1>4. PendingInv'
    BY DEF PendingInv, Ready, Others, Resting, Pending, CommittedSeqs
  <1>5. QED BY <1>1, <1>2, <1>3, <1>4

(* The committed numbers of a trip survive a rollback.                       *)
LEMMA RollbackSeqs ==
    ASSUME NEW s \in Slot, Rollback(s), NEW t \in Trip
    PROVE  CommittedSeqs(t)' = CommittedSeqs(t)
  BY NoneAssumption, DoneAssumption DEF Rollback, CommittedSeqs, NoLeg

(* A handler rolls back, if it has anything to roll back, and comes to rest. *)
LEMMA RollbackStep ==
    ASSUME Inv, NEW s \in Slot, Others(s), Resting(s), Rollback(s)
    PROVE  StoreInv'
  <1> USE NoneAssumption, DoneAssumption DEF Inv, StoreInv
  <1>1. \A l \in Leg : legs'[l] = legs[l] \/ legs'[l] = NoLeg
    BY DEF Rollback, TypeInv, TypeOK
  <1>2. \A w \in Waypoint : wpts'[w] = wpts[w] \/ wpts'[w] = NoWpt
    BY DEF Rollback, TypeInv, TypeOK
  <1>3. RowsInv'
    BY <1>1, <1>2 DEF RowsInv, Rollback, NoLeg, NoWpt
  <1>4. LegsNumbered'
    <2> SUFFICES ASSUME NEW l \in Leg, legs'[l].trip # None
                 PROVE  /\ LegSeqTaken(legs[l].trip, legs[l].seq)' = {l}
                        /\ legs'[l].seq > 0
                        /\ \A k \in 1 .. legs'[l].seq - 1 :
                              k \in CommittedSeqs(legs[l].trip)'
      BY DEF LegsNumbered
    <2>1. legs'[l] = legs[l] /\ legs[l].trip \in Trip
      BY <1>1 DEF NoLeg, TypeInv, TypeOK, LegRow
    <2>2. LegSeqTaken(legs[l].trip, legs[l].seq)' = {l}
      BY <1>1, <2>1 DEF LegsNumbered, LegSeqTaken, NoLeg
    <2>3. QED BY <2>1, <2>2, RollbackSeqs DEF LegsNumbered
  <1>5. WptsDistinct'
    BY <1>2 DEF WptsDistinct, WptSeqTaken, NoWpt
  <1>6. NoOrphans'
    BY DEF NoOrphans, NoPartialImport, Rollback, NoLeg, NoWpt, TypeInv, TypeOK,
           WptRow
  <1>7. OpenInv'
    BY DEF OpenInv, Others, Resting, Open, Rollback, TypeInv, ReqInv
  <1>8. NoPartialImport'
    BY DEF NoPartialImport, Others, Open, Rollback, NoLeg, NoWpt, TypeInv,
           TypeOK, LegRow, WptRow
  <1>9. PendingInv'
    <2>1. \A r \in Slot : req[r] # None => req[r].trip \in Trip \cup {None}
      BY DEF TypeInv, TypeOK, Request
    <2>2. QED
      BY <1>1, <2>1, RollbackSeqs
      DEF PendingInv, Ready, Others, Resting, Pending, Rollback, NoLeg, TypeInv,
          ReqInv, Incoming, Request
  <1>10. QED BY <1>3, <1>4, <1>5, <1>6, <1>7, <1>8, <1>9
(* An answer leaves the other handlers alone and its own at rest.            *)
LEMMA AnswerRests ==
    ASSUME TypeInv, NEW s \in Slot, NEW st \in Status, Answer(s, st),
           \A r \in Slot \ {s} : new'[r] = new[r], UNCHANGED seqNo
    PROVE  Others(s) /\ Resting(s)
  BY AnswerType DEF Others, Resting, Pending, Open

LEMMA GotoOthers ==
    ASSUME TypeInv, NEW s \in Slot, NEW label \in PC, Goto(s, label),
           \A r \in Slot \ {s} : new'[r] = new[r] /\ seqNo'[r] = seqNo[r]
    PROVE  Others(s)
  BY GotoType DEF Others

(* Inserting a committed or an open leg where nobody has its number.         *)
LEMMA NewLegNumbered ==
    ASSUME Inv, NEW s \in Slot, pc[s] = "legInsert",
           NEW t \in Trip, req[s].trip = t, NEW n \in Nat, seqNo[s] = n,
           LegSeqTaken(t, n) = {}, owner[t] # None,
           NEW l \in Leg \ drawn, NEW x \in {s, Done},
           legs' = [legs EXCEPT ![l] = [trip |-> t, seq |-> n,
                                        routes |-> 0, tx |-> x]]
    PROVE  LegsNumbered'
  <1> USE NoneAssumption, DoneAssumption DEF Inv, StoreInv
  <1>1. n > 0 /\ \A k \in 1 .. n - 1 : k \in CommittedSeqs(t)
    BY DEF PendingInv, Ready
  <1>2. legs[l].trip = None
    BY DEF RowsInv
  <1>3. \A u \in Trip : CommittedSeqs(u) \subseteq CommittedSeqs(u)'
    BY <1>2 DEF CommittedSeqs, TypeInv, TypeOK
  <1>4. \A k \in 1 .. n - 1 : k \in CommittedSeqs(t)'
    BY <1>1, <1>3
  <1>5. \A m \in Leg \ {l} : legs'[m] = legs[m]
    BY DEF TypeInv, TypeOK
  <1>6. legs'[l].trip = t /\ legs'[l].seq = n
    BY DEF TypeInv, TypeOK
  <1>7. LegSeqTaken(t, n)' = {l}
    BY <1>1, <1>5, <1>6 DEF LegSeqTaken
  <1>8. ASSUME NEW m \in Leg \ {l}, legs[m].trip # None
        PROVE  LegSeqTaken(legs[m].trip, legs[m].seq)' = {m}
    <2>1. LegSeqTaken(legs[m].trip, legs[m].seq) = {m}
      BY <1>8 DEF LegsNumbered
    <2>2. ~(legs[m].trip = t /\ legs[m].seq = n)
      BY <1>8 DEF LegSeqTaken
    <2>3. QED BY <1>5, <1>6, <2>1, <2>2 DEF LegSeqTaken
  <1>9. ASSUME NEW m \in Leg \ {l}, legs[m].trip # None
        PROVE  \A k \in 1 .. legs[m].seq - 1 :
                  k \in CommittedSeqs(legs[m].trip)'
    <2>1. legs[m].trip \in Trip
      BY <1>9 DEF TypeInv, TypeOK, LegRow
    <2>2. QED BY <1>3, <1>9, <2>1 DEF LegsNumbered
  <1>10. QED
    BY <1>1, <1>4, <1>5, <1>6, <1>7, <1>8, <1>9 DEF LegsNumbered

LEMMA InsertLegStep ==
    ASSUME Inv, NEW s \in Slot, InsertLeg(s)
    PROVE  StoreInv'
  <1> USE NoneAssumption, DoneAssumption DEF Inv, CarriedOut
  <1>0. /\ req[s].trip \in Trip /\ seqNo[s] \in Nat
        /\ pc[s] = "legInsert" /\ TypeInv
        /\ {"ok", "refused"} \subseteq Status /\ "items" \in PC
    BY DEF InsertLeg, TypeInv, TypeOK, ReqInv, Incoming, Request, Status, PC
  <1> PICK t \in Trip, n \in Nat : req[s].trip = t /\ seqNo[s] = n
    BY <1>0
  <1> DEFINE Row(x) == [trip |-> t, seq |-> n, routes |-> 0, tx |-> x]
  <1>1. CASE InsertFails(s, Leg)
    BY <1>0, <1>1, AnswerRests, RollbackStep DEF InsertFails, locals
  <1>2. CASE Answer(s, "refused") /\ UNCHANGED <<tables, locals>>
    BY <1>0, <1>2, AnswerRests, QuietStep DEF locals, Open
  <1>3. ASSUME LegSeqTaken(t, n) = {}, owner[t] # None,
               NEW l \in Leg \ drawn, drawn' = drawn \cup {l},
               new' = [new EXCEPT ![s] = l], NEW x \in {s, Done},
               legs' = [legs EXCEPT ![l] = Row(x)],
               x = Done => CarriedOut(s),
               x = s => Goto(s, "items"),
               UNCHANGED <<owner, wpts, seqNo, live>>
        PROVE  StoreInv'
    <2>1. LegsNumbered'
      BY <1>0, <1>3, NewLegNumbered
    <2>2. Others(s)
      BY <1>0, <1>3, AnswerRests, GotoOthers DEF TypeInv, TypeOK
    <2>3. \A m \in Leg \ {l} : legs'[m] = legs[m]
      BY <1>3 DEF TypeInv, TypeOK
    <2>4. /\ legs'[l].trip = t /\ legs'[l].tx = x /\ legs[l].trip = None
          /\ legs[l].tx = Done
      BY <1>3 DEF TypeInv, TypeOK, StoreInv, RowsInv
    <2>5. RowsInv'
      BY <1>0, <1>3, <2>3, <2>4 DEF StoreInv, RowsInv
    <2>6. WptsDistinct' /\ NoOrphans'
      BY <1>0, <1>3, <2>3, <2>4
      DEF StoreInv, WptsDistinct, NoOrphans, WptSeqTaken, TypeInv, TypeOK,
          WptRow
    <2>7. new'[s] = l
      BY <1>3 DEF TypeInv, TypeOK
    <2>8. OpenInv'
      <3>1. ASSUME NEW r \in Slot \ {s}, pc'[r] \in Open
            PROVE  /\ legs'[new'[r]].tx = r
                   /\ legs'[new'[r]].trip = req'[r].trip
                   /\ owner'[req'[r].trip] = req'[r].user
        BY <1>3, <2>2, <2>3, <2>4, <3>1
        DEF Others, Open, StoreInv, OpenInv, TypeInv, ReqInv
      <3>2. CASE x = Done
        BY <1>0, <1>3, <3>1, <3>2, AnswerType DEF OpenInv, Open
      <3>3. CASE x = s
        BY <1>0, <1>3, <2>4, <2>7, <3>1, <3>3, GotoType
        DEF OpenInv, Open, StoreInv, PendingInv, Ready
      <3>4. QED BY <1>3, <3>2, <3>3
    <2>9. NoPartialImport'
      <3>1. \A m \in Leg : legs'[m].tx # Done => m # l \/ x = s
        BY <2>4
      <3>2. ASSUME NEW m \in Leg \ {l}, legs'[m].tx # Done
            PROVE  /\ pc'[legs'[m].tx] \in Open
                   /\ new'[legs'[m].tx] = m
        <4>1. /\ legs'[m].tx = legs[m].tx /\ legs[m].tx \in Slot
              /\ pc[legs[m].tx] \in Open /\ new[legs[m].tx] = m
          BY <2>3, <3>2
          DEF StoreInv, NoPartialImport, Open, TypeInv, TypeOK, LegRow
        <4>2. legs[m].tx # s
          BY <1>0, <4>1 DEF Open
        <4>3. QED BY <2>2, <4>1, <4>2 DEF Others
      <3>3. CASE x = s
        BY <1>0, <1>3, <2>3, <2>4, <2>7, <3>2, <3>3, GotoType
        DEF StoreInv, NoPartialImport, Open, NoOrphans, TypeInv, TypeOK, WptRow
      <3>4. CASE x = Done
        BY <1>3, <2>3, <2>4, <3>2, <3>4
        DEF StoreInv, NoPartialImport, Open, NoOrphans, TypeInv, TypeOK, WptRow
      <3>5. QED BY <1>3, <3>3, <3>4
    <2>10. PendingInv'
      <3>1. \A u \in Trip : CommittedSeqs(u) \subseteq CommittedSeqs(u)'
        BY <2>3, <2>4 DEF CommittedSeqs
      <3>2. pc'[s] \notin Pending
        BY <1>0, <1>3, AnswerType, GotoType DEF Pending
      <3>3. ASSUME NEW r \in Slot \ {s}, pc'[r] = "legInsert"
            PROVE  (/\ req[r].trip \in drawn /\ seqNo[r] > 0
                    /\ owner[req[r].trip] \in {req[r].user, None}
                    /\ owner[req[r].trip] # None =>
                        \A k \in 1 .. seqNo[r] - 1 :
                            k \in CommittedSeqs(req[r].trip))'
        <4>1. req[r].trip \in Trip /\ pc[r] = "legInsert"
          BY <2>2, <3>3
          DEF Others, TypeInv, ReqInv, Incoming, Request
        <4>2. PICK u \in Trip : u = req[r].trip
          BY <4>1
        <4>3. owner[u] # None =>
                \A k \in 1 .. seqNo[r] - 1 : k \in CommittedSeqs(u)'
          BY <3>1, <4>1, <4>2 DEF StoreInv, PendingInv, Ready
        <4>4. QED BY <1>3, <2>2, <4>1, <4>2, <4>3
                  DEF Others, StoreInv, PendingInv, Ready
      <3>4. ASSUME NEW r \in Slot \ {s}, pc'[r] \in {"wptSelect", "wptInsert"}
            PROVE  /\ req'[r].leg \in drawn' /\ legs'[req'[r].leg].tx = Done
                   /\ pc'[r] = "wptInsert" => seqNo'[r] > 0
        <4>1. req[r].leg \in Leg
          BY <2>2, <3>4 DEF Others, TypeInv, ReqInv, Incoming, Request
        <4>2. QED BY <1>3, <2>2, <2>3, <3>4, <4>1
                  DEF Others, StoreInv, PendingInv, Ready
      <3>5. QED BY <3>2, <3>3, <3>4 DEF PendingInv, Ready, Pending
    <2>11. QED BY <2>1, <2>5, <2>6, <2>8, <2>9, <2>10 DEF StoreInv
  <1>4. QED BY <1>1, <1>2, <1>3 DEF InsertLeg, LegSeqFree

(* A handler that changes no row moves on, within its transaction if it has  *)
(* one; what it is then about to insert is still right.                      *)
LEMMA MoveStep ==
    ASSUME Inv, NEW s \in Slot, Others(s), UNCHANGED tables,
           pc'[s] \in Open <=> pc[s] \in Open,
           pc[s] \in Open => req'[s] = req[s] /\ new'[s] = new[s], Ready(s)'
    PROVE  StoreInv'
  <1> USE DEF tables, Inv, StoreInv
  <1>1. LegsNumbered' /\ WptsDistinct' /\ NoOrphans' /\ RowsInv'
    BY DEF LegsNumbered, WptsDistinct, NoOrphans, RowsInv, LegSeqTaken,
           WptSeqTaken, CommittedSeqs
  <1>2. OpenInv'
    BY DEF OpenInv, Others, Open
  <1>3. NoPartialImport'
    BY DEF NoPartialImport, Others, Open, TypeInv, TypeOK, LegRow
  <1>4. \A r \in Slot \ {s} : Ready(r)'
    BY DEF PendingInv, Ready, Others, CommittedSeqs
  <1>5. QED BY <1>1, <1>2, <1>3, <1>4 DEF PendingInv

LEMMA SelectLegSeqStep ==
    ASSUME Inv, NEW s \in Slot, SelectLegSeq(s)
    PROVE  StoreInv'
  <1> USE NoneAssumption, DoneAssumption DEF Inv
  <1>0. /\ req[s].trip \in Trip /\ req[s].user \in User
        /\ pc[s] = "legSelect" /\ TypeInv /\ UNCHANGED tables
        /\ "notFound" \in Status /\ "legInsert" \in PC
    BY DEF SelectLegSeq, TypeInv, ReqInv, Incoming, Request, Status, PC
  <1> PICK t \in Trip : req[s].trip = t
    BY <1>0
  <1>1. CASE Answer(s, "notFound") /\ UNCHANGED locals
    BY <1>0, <1>1, AnswerRests, QuietStep DEF locals, Open
  <1>2. ASSUME NEW n \in NextLegSeq(t, s), seqNo' = [seqNo EXCEPT ![s] = n],
               Owns(req[s].user, t), Goto(s, "legInsert"),
               UNCHANGED <<new, todo, live>>
        PROVE  StoreInv'
    <2>1. Others(s) /\ pc'[s] = "legInsert" /\ req' = req /\ seqNo'[s] = n
      BY <1>0, <1>2, GotoType, GotoOthers DEF TypeInv, TypeOK
    <2>2. n \in Nat /\ n > 0
          /\ (n = 1 \/ \E l \in LegsOf(t, s) : legs[l].seq = n - 1)
      BY <1>0, <1>2, NextLegSeqFact DEF TypeInv
    <2>3. \A l \in LegsOf(t, s) : legs[l].tx = Done
      BY <1>0 DEF LegsOf, Sees, StoreInv, NoPartialImport
    <2>4. \A k \in 1 .. n - 1 : k \in CommittedSeqs(t)
      <3>1. CASE n = 1
        BY <3>1
      <3>2. ASSUME NEW l \in LegsOf(t, s), legs[l].seq = n - 1
            PROVE  \A k \in 1 .. n - 1 : k \in CommittedSeqs(t)
        <4>1. legs[l].trip = t /\ l \in Leg
          BY DEF LegsOf
        <4>2. \A k \in 1 .. legs[l].seq - 1 : k \in CommittedSeqs(t)
          BY <4>1 DEF StoreInv, LegsNumbered
        <4>3. n - 1 \in CommittedSeqs(t)
          BY <2>3, <3>2, <4>1 DEF CommittedSeqs
        <4>4. QED BY <2>2, <3>2, <4>2, <4>3
      <3>3. QED BY <2>2, <3>1, <3>2
    <2>5. CommittedSeqs(t)' = CommittedSeqs(t)
      BY <1>0 DEF CommittedSeqs, tables
    <2>6. owner[t] = req[s].user /\ t \in drawn
      BY <1>0, <1>2 DEF Owns, StoreInv, RowsInv
    <2>7. Ready(s)'
      BY <1>0, <2>1, <2>2, <2>4, <2>5, <2>6 DEF Ready, tables
    <2>8. QED BY <1>0, <2>1, <2>7, MoveStep DEF Open
  <1>3. QED BY <1>1, <1>2 DEF SelectLegSeq

LEMMA CheckStep ==
    ASSUME Inv, NEW s \in Slot, CheckTrip(s) \/ CheckLeg(s)
    PROVE  StoreInv'
  <1> USE NoneAssumption, DoneAssumption DEF Inv
  <1>0. /\ pc[s] \in {"checkTrip", "checkLeg"} /\ TypeInv
        /\ UNCHANGED <<tables, locals>>
        /\ {"notFound", "refused"} \subseteq Status
        /\ {"legSelect", "checkLeg", "wptSelect", "wptDelete"} \subseteq PC
    BY DEF CheckTrip, CheckLeg, Status, PC
  <1>1. ASSUME NEW st \in {"notFound", "refused"}, Answer(s, st)
        PROVE  StoreInv'
    BY <1>0, <1>1, AnswerRests, QuietStep DEF locals, Open
  <1>2. ASSUME NEW label \in {"legSelect", "checkLeg", "wptDelete"},
               Goto(s, label)
        PROVE  StoreInv'
    <2>1. Others(s) /\ pc'[s] = label
      BY <1>0, <1>2, GotoType, GotoOthers DEF locals
    <2>2. Resting(s)
      BY <2>1 DEF Resting, Pending, Open
    <2>3. QED BY <1>0, <2>1, <2>2, QuietStep DEF Open
  <1>3. ASSUME Goto(s, "wptSelect"), req[s].leg \in LegsOf(req[s].trip, s),
               req[s].trip \in Trip
        PROVE  StoreInv'
    <2>1. Others(s) /\ pc'[s] = "wptSelect" /\ req' = req
      BY <1>0, <1>3, GotoType, GotoOthers DEF locals
    <2>2. req[s].leg \in Leg /\ legs[req[s].leg].tx = Done
          /\ req[s].leg \in drawn
      BY <1>0, <1>3
      DEF LegsOf, Sees, StoreInv, NoPartialImport, RowsInv
    <2>3. Ready(s)'
      BY <1>0, <2>1, <2>2 DEF Ready, tables
    <2>4. QED BY <1>0, <2>1, <2>3, MoveStep DEF Open
  <1>4. CASE CheckTrip(s)
    BY <1>1, <1>2, <1>4 DEF CheckTrip, AfterCheck
  <1>5. CASE CheckLeg(s)
    <2>1. req[s].trip \in Trip
      BY <1>5 DEF CheckLeg, TypeInv, ReqInv, Incoming, Request
    <2>2. QED BY <1>1, <1>2, <1>3, <1>5, <2>1 DEF CheckLeg
  <1>6. QED BY <1>4, <1>5

LEMMA SelectWptSeqStep ==
    ASSUME Inv, NEW s \in Slot, SelectWptSeq(s)
    PROVE  StoreInv'
  <1> USE NoneAssumption, DoneAssumption DEF Inv
  <1>0. /\ req[s].leg \in Leg /\ pc[s] = "wptSelect" /\ TypeInv
        /\ UNCHANGED tables
        /\ "notFound" \in Status /\ "wptInsert" \in PC
    BY DEF SelectWptSeq, TypeInv, ReqInv, Incoming, Request, Status, PC
  <1>1. CASE Answer(s, "notFound") /\ UNCHANGED locals
    BY <1>0, <1>1, AnswerRests, QuietStep DEF locals, Open
  <1>2. ASSUME NEW n \in NextWptSeq(req[s].leg, s),
               seqNo' = [seqNo EXCEPT ![s] = n],
               Goto(s, "wptInsert"), UNCHANGED <<new, todo, live>>
        PROVE  StoreInv'
    <2>1. /\ Others(s) /\ pc'[s] = "wptInsert" /\ req' = req
          /\ seqNo'[s] = n
      BY <1>0, <1>2, GotoType, GotoOthers DEF TypeInv, TypeOK
    <2>2. n > 0
      BY <1>0, <1>2, NextWptSeqFact DEF TypeInv
    <2>3. req[s].leg \in drawn /\ legs[req[s].leg].tx = Done
      BY <1>0 DEF StoreInv, PendingInv, Ready
    <2>4. Ready(s)'
      BY <1>0, <2>1, <2>2, <2>3 DEF Ready, tables
    <2>5. QED BY <1>0, <2>1, <2>4, MoveStep DEF Open
  <1>3. QED BY <1>1, <1>2 DEF SelectWptSeq

LEMMA ReceiveStep ==
    ASSUME Inv, NEW s \in Slot, Receive(s)
    PROVE  StoreInv'
  <1>1. PICK r \in Incoming : pc' = [pc EXCEPT ![s] = Started(r.op)]
    BY DEF Receive
  <1>2. Others(s)
    BY DEF Receive, Others, Inv, TypeInv, TypeOK
  <1>3. Resting(s)
    BY <1>1 DEF Resting, Pending, Open, Started, Inv, TypeInv, TypeOK
  <1>4. QED BY <1>2, <1>3, QuietStep DEF Receive, Open

(* The leg of an open import of another handler stays its own.               *)
LEMMA OthersOpen ==
    ASSUME Inv, NEW s \in Slot, Others(s), pc[s] \notin Open,
           NEW l \in Leg, legs[l].tx # Done
    PROVE  /\ legs[l].tx \in Slot \ {s}
           /\ pc'[legs[l].tx] \in Open /\ new'[legs[l].tx] = l
  <1>1. /\ legs[l].tx \in Slot
        /\ pc[legs[l].tx] \in Open /\ new[legs[l].tx] = l
    BY DEF Inv, StoreInv, NoPartialImport, Open, TypeInv, TypeOK, LegRow
  <1>2. QED BY <1>1 DEF Others

LEMMA CreateTripStep ==
    ASSUME Inv, NEW s \in Slot, CreateTrip(s)
    PROVE  StoreInv'
  <1> USE NoneAssumption, DoneAssumption DEF Inv, CarriedOut
  <1>0. /\ pc[s] = "tripInsert" /\ TypeInv
        /\ {"ok", "refused"} \subseteq Status
    BY DEF CreateTrip, Status
  <1>1. CASE InsertFails(s, Trip)
    BY <1>0, <1>1, AnswerRests, RollbackStep DEF InsertFails, locals
  <1>2. ASSUME NEW t \in Trip \ drawn,
               owner' = [owner EXCEPT ![t] = req[s].user],
               drawn' = drawn \cup {t}, new' = [new EXCEPT ![s] = t],
               CarriedOut(s), UNCHANGED <<legs, wpts, seqNo, todo, live>>
        PROVE  StoreInv'
    <2>1. Others(s) /\ Resting(s)
      BY <1>0, <1>2, AnswerRests DEF TypeInv, TypeOK
    <2>2. \A u \in Trip \ {t} : owner'[u] = owner[u]
      BY <1>2 DEF TypeInv, TypeOK
    <2>3. \A u \in Trip : CommittedSeqs(u)' = CommittedSeqs(u)
      BY <1>2 DEF CommittedSeqs
    <2>4. owner[t] = None
      BY DEF StoreInv, RowsInv
    <2>5. RowsInv' /\ LegsNumbered' /\ WptsDistinct'
      <3>1. RowsInv'
        BY <1>2, <2>2 DEF StoreInv, RowsInv
      <3>2. \A l \in Leg : legs[l].trip # None => legs[l].trip \in Trip
        BY DEF TypeInv, TypeOK, LegRow
      <3>3. LegsNumbered'
        BY <1>2, <2>3, <3>2 DEF StoreInv, LegsNumbered, LegSeqTaken
      <3>4. WptsDistinct'
        BY <1>2 DEF StoreInv, WptsDistinct, WptSeqTaken
      <3>5. QED BY <3>1, <3>3, <3>4
    <2>6. NoOrphans'
      BY <1>2, <2>2, <2>4 DEF StoreInv, NoOrphans, TypeInv, TypeOK, LegRow
    <2>7. NoPartialImport'
      BY <1>0, <1>2, <2>1, OthersOpen
      DEF StoreInv, NoPartialImport, Others, Open
    <2>8. OpenInv'
      <3>1. ASSUME NEW r \in Slot, pc'[r] \in Open
            PROVE  r # s /\ req[r].trip \in Trip \ {t}
                   /\ req[r].user \in User
        BY <2>1, <2>4, <3>1 DEF Resting, Others, Open, StoreInv, OpenInv,
           TypeInv, ReqInv, Incoming, Request
      <3>2. QED BY <1>2, <2>1, <2>2, <3>1 DEF OpenInv, Open, Others, StoreInv
    <2>9. ASSUME NEW r \in Slot \ {s} PROVE Ready(r)'
      <3>1. CASE pc[r] = "legInsert"
        <4>1. req[r].trip \in Trip \ {t}
          BY <3>1 DEF StoreInv, PendingInv, Ready, TypeInv, ReqInv, Incoming,
                      Request
        <4>2. QED BY <1>2, <2>1, <2>2, <2>3, <3>1, <4>1
                  DEF Others, StoreInv, PendingInv, Ready
      <3>2. CASE pc[r] # "legInsert"
        BY <1>2, <2>1, <3>2 DEF Others, StoreInv, PendingInv, Ready
      <3>3. QED BY <3>1, <3>2
    <2>10. Ready(s)'
      BY <2>1 DEF Resting, Pending, Ready
    <2>11. QED
      BY <2>5, <2>6, <2>7, <2>8, <2>9, <2>10 DEF StoreInv, PendingInv
  <1>3. QED BY <1>1, <1>2 DEF CreateTrip

LEMMA DeleteTripStep ==
    ASSUME Inv, NEW s \in Slot, DeleteTrip(s)
    PROVE  StoreInv'
  <1> USE NoneAssumption, DoneAssumption DEF Inv, CarriedOut
  <1>0. /\ pc[s] = "deleting" /\ TypeInv /\ UNCHANGED locals
        /\ {"ok", "notFound", "refused"} \subseteq Status
        /\ req[s].trip \in Trip
    BY DEF DeleteTrip, Status, TypeInv, ReqInv, Incoming, Request
  <1> PICK t \in Trip : req[s].trip = t
    BY <1>0
  <1>1. CASE Answer(s, "notFound") /\ UNCHANGED tables
    BY <1>0, <1>1, AnswerRests, QuietStep DEF locals, Open
  <1>2. CASE /\ ~Locked(t) /\ Cascade(t) /\ CarriedOut(s)
             /\ UNCHANGED drawn
    <2>1. Others(s) /\ Resting(s)
      BY <1>0, <1>2, AnswerRests DEF locals
    <2>2. \A l \in Leg : legs[l].trip = t => legs[l].tx = Done
      BY <1>2 DEF Locked
    <2>3. owner'[t] = None /\ \A u \in Trip \ {t} : owner'[u] = owner[u]
      BY <1>2 DEF Cascade, TypeInv, TypeOK
    <2>4. \A l \in Leg : legs'[l] = IF legs[l].trip = t THEN NoLeg ELSE legs[l]
      BY <1>2 DEF Cascade
    <2>5. \A w \in Waypoint :
            wpts'[w] = IF wpts[w].leg \in {l \in Leg : legs[l].trip = t}
                       THEN NoWpt ELSE wpts[w]
      BY <1>2 DEF Cascade
    <2>6. \A u \in Trip \ {t} : CommittedSeqs(u)' = CommittedSeqs(u)
      BY <2>4 DEF CommittedSeqs, NoLeg
    <2>7. RowsInv'
      BY <1>2, <2>3, <2>4, <2>5 DEF StoreInv, RowsInv, NoLeg, NoWpt
    <2>8. LegsNumbered'
      <3> SUFFICES ASSUME NEW l \in Leg, legs'[l].trip # None
                   PROVE  /\ LegSeqTaken(legs[l].trip, legs[l].seq)' = {l}
                          /\ legs'[l].seq > 0
                          /\ \A k \in 1 .. legs'[l].seq - 1 :
                                k \in CommittedSeqs(legs[l].trip)'
        BY DEF LegsNumbered
      <3>1. legs'[l] = legs[l] /\ legs[l].trip \in Trip \ {t}
        BY <2>4 DEF NoLeg, TypeInv, TypeOK, LegRow
      <3>2. LegSeqTaken(legs[l].trip, legs[l].seq)' = {l}
        BY <2>4, <3>1 DEF StoreInv, LegsNumbered, LegSeqTaken, NoLeg
      <3>3. QED BY <2>6, <3>1, <3>2 DEF StoreInv, LegsNumbered
    <2>9. WptsDistinct'
      BY <2>5 DEF StoreInv, WptsDistinct, WptSeqTaken, NoWpt
    <2>10. NoOrphans'
      <3>1. ASSUME NEW l \in Leg, legs'[l].trip # None
            PROVE  owner'[legs'[l].trip] # None
        <4>1. legs'[l] = legs[l] /\ legs[l].trip \in Trip \ {t}
          BY <2>4, <3>1 DEF NoLeg, TypeInv, TypeOK, LegRow
        <4>2. QED BY <2>3, <3>1, <4>1 DEF StoreInv, NoOrphans
      <3>2. ASSUME NEW w \in Waypoint, wpts'[w].leg # None
            PROVE  legs'[wpts'[w].leg].trip # None
        <4>1. /\ wpts'[w] = wpts[w] /\ wpts[w].leg \in Leg
              /\ legs[wpts[w].leg].trip # t
          BY <2>5, <3>2 DEF NoWpt, TypeInv, TypeOK, WptRow
        <4>2. QED BY <2>4, <3>2, <4>1 DEF StoreInv, NoOrphans
      <3>3. QED BY <3>1, <3>2 DEF NoOrphans
    <2>11. NoPartialImport'
      <3>1. ASSUME NEW l \in Leg, legs'[l].tx # Done
            PROVE  pc'[legs'[l].tx] \in Open /\ new'[legs'[l].tx] = l
        <4>1. legs'[l] = legs[l]
          BY <2>4, <3>1 DEF NoLeg
        <4>2. QED BY <1>0, <2>1, <3>1, <4>1, OthersOpen DEF Open
      <3>2. ASSUME NEW w \in Waypoint, wpts'[w].leg # None
            PROVE  wpts'[w].tx = legs'[wpts'[w].leg].tx
        <4>1. /\ wpts'[w] = wpts[w] /\ wpts[w].leg \in Leg
              /\ legs[wpts[w].leg].trip # t
          BY <2>5, <3>2 DEF NoWpt, TypeInv, TypeOK, WptRow
        <4>2. QED BY <2>4, <3>2, <4>1 DEF StoreInv, NoPartialImport
      <3>3. QED BY <3>1, <3>2 DEF NoPartialImport, Open
    <2>12. OpenInv'
      <3> SUFFICES ASSUME NEW r \in Slot, pc'[r] \in Open
                   PROVE  /\ legs'[new'[r]].tx = r
                          /\ legs'[new'[r]].trip = req'[r].trip
                          /\ owner'[req'[r].trip] = req'[r].user
        BY DEF OpenInv, Open
      <3>1. r # s /\ pc[r] \in Open /\ new'[r] = new[r] /\ req'[r] = req[r]
        BY <2>1 DEF Resting, Others
      <3>2. /\ new[r] \in Leg /\ legs[new[r]].tx = r
            /\ legs[new[r]].trip = req[r].trip /\ req[r].trip \in Trip
            /\ owner[req[r].trip] = req[r].user
        BY <3>1 DEF StoreInv, OpenInv, Open, TypeInv, ReqInv, Incoming, Request
      <3>3. req[r].trip # t
        BY <2>2, <3>2
      <3>4. QED BY <2>3, <2>4, <3>1, <3>2, <3>3
    <2>13. ASSUME NEW r \in Slot \ {s} PROVE Ready(r)'
      <3>1. CASE pc[r] = "legInsert"
        <4>1. req[r].trip \in Trip
          BY <3>1 DEF TypeInv, ReqInv, Incoming, Request
        <4>2. Ready(r)
          BY DEF StoreInv, PendingInv
        <4>3. CASE req[r].trip = t
          BY <1>2, <2>1, <2>3, <3>1, <4>2, <4>3 DEF Others, Ready
        <4>4. CASE req[r].trip # t
          BY <1>2, <2>1, <2>3, <2>6, <3>1, <4>1, <4>2, <4>4 DEF Others, Ready
        <4>5. QED BY <4>3, <4>4
      <3>2. CASE pc[r] \in {"wptSelect", "wptInsert"}
        <4>1. req[r].leg \in Leg
          BY <3>2 DEF TypeInv, ReqInv, Incoming, Request
        <4>2. QED BY <1>2, <2>1, <2>4, <3>2, <4>1
                  DEF Others, StoreInv, PendingInv, Ready, NoLeg
      <3>3. CASE pc[r] \notin Pending
        BY <2>1, <3>3 DEF Others, Ready, Pending
      <3>4. QED BY <3>1, <3>2, <3>3 DEF Pending
    <2>14. Ready(s)'
      BY <2>1 DEF Resting, Pending, Ready
    <2>15. QED
      BY <2>7, <2>8, <2>9, <2>10, <2>11, <2>12, <2>13, <2>14
      DEF StoreInv, PendingInv
  <1>3. QED BY <1>1, <1>2 DEF DeleteTrip

(* Steps that write only waypoints: what StoreInv says of one waypoint is    *)
(* all there is to show.                                                     *)
WptOK(w) ==
    IF wpts[w].leg = None THEN wpts[w].tx = Done
    ELSE /\ w \in drawn /\ legs[wpts[w].leg].trip # None
         /\ wpts[w].tx = legs[wpts[w].leg].tx
         /\ WptSeqTaken(wpts[w].leg, wpts[w].seq) = {w} /\ wpts[w].seq > 0

LEMMA WptsStep ==
    ASSUME Inv, NEW s \in Slot, Others(s), UNCHANGED <<owner, legs>>,
           drawn \subseteq drawn', pc'[s] \in Open <=> pc[s] \in Open,
           pc[s] \in Open => req'[s] = req[s] /\ new'[s] = new[s],
           pc'[s] \notin Pending, \A w \in Waypoint : WptOK(w)'
    PROVE  StoreInv'
  <1> USE DEF Inv, StoreInv
  <1>1. RowsInv' /\ NoOrphans' /\ WptsDistinct'
    BY DEF RowsInv, NoOrphans, WptsDistinct, WptOK
  <1>2. LegsNumbered'
    BY DEF LegsNumbered, LegSeqTaken, CommittedSeqs
  <1>3. OpenInv'
    BY DEF OpenInv, Others, Open
  <1>4. NoPartialImport'
    BY DEF NoPartialImport, WptOK, Others, Open, TypeInv, TypeOK, LegRow
  <1>5. PendingInv'
    BY DEF PendingInv, Ready, Others, Pending, CommittedSeqs
  <1>6. QED BY <1>1, <1>2, <1>3, <1>4, <1>5

(* A new waypoint takes a number nobody on its leg has.                      *)
LEMMA NewWptOK ==
    ASSUME Inv, NEW l \in Leg, NEW n \in Nat, n > 0, NEW w \in Waypoint \ drawn,
           WptSeqTaken(l, n) = {}, legs[l].trip # None,
           wpts' = [wpts EXCEPT ![w] =
                      [leg |-> l, seq |-> n, tx |-> legs[l].tx]],
           drawn' = drawn \cup {w}, legs' = legs
    PROVE  \A v \in Waypoint : WptOK(v)'
  <1> USE NoneAssumption, DoneAssumption DEF Inv, StoreInv
  <1>1. \A v \in Waypoint \ {w} : wpts'[v] = wpts[v]
    BY DEF TypeInv, TypeOK
  <1>2. /\ wpts'[w].leg = l /\ wpts'[w].seq = n /\ wpts'[w].tx = legs[l].tx
        /\ wpts[w].leg = None
    BY DEF TypeInv, TypeOK, RowsInv
  <1>3. WptOK(w)'
    <2>1. WptSeqTaken(l, n)' = {w}
      BY <1>1, <1>2 DEF WptSeqTaken
    <2>2. l # None
      OBVIOUS
    <2>3. QED BY <1>2, <2>1, <2>2 DEF WptOK
  <1>4. ASSUME NEW v \in Waypoint \ {w} PROVE WptOK(v)'
    <2>1. CASE wpts[v].leg = None
      BY <1>1, <2>1 DEF WptOK, RowsInv
    <2>2. CASE wpts[v].leg # None
      <3>1. WptSeqTaken(wpts[v].leg, wpts[v].seq) = {v}
        BY <2>2 DEF WptsDistinct
      <3>2. ~(wpts[v].leg = l /\ wpts[v].seq = n)
        BY DEF WptSeqTaken
      <3>3. WptSeqTaken(wpts[v].leg, wpts[v].seq)' = {v}
        BY <1>1, <1>2, <3>1, <3>2 DEF WptSeqTaken
      <3>4. QED BY <1>1, <2>2, <3>3
                DEF WptOK, RowsInv, NoOrphans, NoPartialImport, WptsDistinct
    <2>3. QED BY <2>1, <2>2
  <1>5. QED BY <1>3, <1>4

LEMMA InsertWptStep ==
    ASSUME Inv, NEW s \in Slot, InsertWpt(s)
    PROVE  StoreInv'
  <1> USE NoneAssumption, DoneAssumption DEF Inv, CarriedOut
  <1>0. /\ pc[s] = "wptInsert" /\ TypeInv
        /\ {"ok", "refused"} \subseteq Status
        /\ req[s].leg \in Leg /\ seqNo[s] \in Nat /\ seqNo[s] > 0
        /\ legs[req[s].leg].tx = Done
    BY DEF InsertWpt, Status, TypeInv, TypeOK, ReqInv, Incoming, Request,
           StoreInv, PendingInv, Ready
  <1>1. CASE InsertFails(s, Waypoint)
    BY <1>0, <1>1, AnswerRests, RollbackStep DEF InsertFails, locals
  <1>2. CASE Answer(s, "refused") /\ UNCHANGED <<tables, locals>>
    BY <1>0, <1>2, AnswerRests, QuietStep DEF locals, Open
  <1>3. ASSUME NEW w \in Waypoint \ drawn,
               WptSeqTaken(req[s].leg, seqNo[s]) = {},
               legs[req[s].leg].trip # None,
               wpts' = [wpts EXCEPT ![w] =
                          [leg |-> req[s].leg, seq |-> seqNo[s], tx |-> Done]],
               drawn' = drawn \cup {w}, new' = [new EXCEPT ![s] = w],
               CarriedOut(s), UNCHANGED <<owner, legs, seqNo, todo, live>>
        PROVE  StoreInv'
    <2>1. Others(s) /\ Resting(s)
      BY <1>0, <1>3, AnswerRests DEF TypeInv, TypeOK
    <2>2. \A v \in Waypoint : WptOK(v)'
      BY <1>0, <1>3, NewWptOK
    <2>3. QED BY <1>0, <1>3, <2>1, <2>2, WptsStep DEF Resting, Open
  <1>4. QED BY <1>1, <1>2, <1>3 DEF InsertWpt, WptSeqFree

LEMMA DeleteWptStep ==
    ASSUME Inv, NEW s \in Slot, DeleteWpt(s)
    PROVE  StoreInv'
  <1> USE NoneAssumption, DoneAssumption DEF Inv, CarriedOut
  <1>0. /\ pc[s] = "wptDelete" /\ TypeInv
        /\ {"ok", "notFound", "refused"} \subseteq Status
        /\ UNCHANGED <<owner, legs, drawn, locals>>
        /\ req[s].wpt \in Waypoint
    BY DEF DeleteWpt, Status, TypeInv, ReqInv, Incoming, Request
  <1> PICK w \in Waypoint : req[s].wpt = w
    BY <1>0
  <1>1. CASE Answer(s, "notFound") /\ UNCHANGED wpts
    BY <1>0, <1>1, AnswerRests, QuietStep DEF locals, Open, tables
  <1>2. CASE CarriedOut(s) /\ wpts' = [wpts EXCEPT ![w] = NoWpt]
    <2>1. Others(s) /\ Resting(s)
      BY <1>0, <1>2, AnswerRests DEF locals
    <2>2. WptOK(w)'
      BY <1>2 DEF WptOK, NoWpt, TypeInv, TypeOK
    <2>3. ASSUME NEW v \in Waypoint \ {w} PROVE WptOK(v)'
      <3>1. /\ wpts'[v] = wpts[v]
            /\ \A x \in Waypoint : wpts'[x] = wpts[x] \/ wpts'[x].leg = None
        BY <1>2 DEF NoWpt, TypeInv, TypeOK
      <3>2. CASE wpts[v].leg = None
        BY <3>1, <3>2 DEF WptOK, StoreInv, RowsInv
      <3>3. CASE wpts[v].leg # None
        <4>1. WptSeqTaken(wpts[v].leg, wpts[v].seq)' = {v}
          BY <3>1, <3>3 DEF WptSeqTaken, StoreInv, WptsDistinct
        <4>2. QED BY <1>0, <3>1, <3>3, <4>1
                  DEF WptOK, StoreInv, RowsInv, NoOrphans, NoPartialImport,
                      WptsDistinct
      <3>4. QED BY <3>2, <3>3
    <2>4. QED BY <1>0, <2>1, <2>2, <2>3, WptsStep DEF Resting, Open
  <1>3. QED BY <1>1, <1>2 DEF DeleteWpt

(* An open import sees every waypoint of its leg, so its MAX(seq)+1 is free. *)
LEMMA ImportWptStep ==
    ASSUME Inv, NEW s \in Slot, ImportWpt(s)
    PROVE  StoreInv'
  <1> USE NoneAssumption, DoneAssumption DEF Inv
  <1>0. /\ pc[s] = "items" /\ TypeInv /\ new[s] \in Leg
        /\ {"notFound", "refused"} \subseteq Status
    BY DEF ImportWpt, Status, TypeInv, ReqInv
  <1> PICK l \in Leg : new[s] = l
    BY <1>0
  <1>1. ASSUME NEW st \in {"notFound", "refused"}, Rollback(s), Answer(s, st),
               UNCHANGED locals
        PROVE  StoreInv'
    BY <1>0, <1>1, AnswerRests, RollbackStep DEF locals
  <1>2. ASSUME NEW w \in Waypoint \ drawn, NEW n \in NextWptSeq(l, s),
               wpts' = [wpts EXCEPT ![w] = [leg |-> l, seq |-> n, tx |-> s]],
               drawn' = drawn \cup {w},
               UNCHANGED <<owner, legs, req, pc, seqNo, new, live, out>>
        PROVE  StoreInv'
    <2>1. /\ legs[l].tx = s /\ legs[l].trip = req[s].trip
          /\ req[s].trip \in Trip
      BY <1>0
      DEF StoreInv, OpenInv, TypeInv, ReqInv, Incoming, Request
    <2>2. n \in Nat /\ n > 0
      BY <1>0, <1>2, NextWptSeqFact DEF TypeInv
    <2>3. WptSeqTaken(l, n) = {}
      <3> DEFINE S == {wpts[v].seq : v \in WptsOf(l, s)}
      <3>1. S \in SUBSET Nat
        BY <1>0 DEF WptsOf, TypeInv, TypeOK, WptRow
      <3>2. \A k \in S : k < n
        BY <1>2, <3>1, NextSeqFact DEF NextWptSeq
      <3>3. ASSUME NEW v \in Waypoint, wpts[v].leg = l PROVE wpts[v].seq < n
        <4>1. wpts[v].tx = s
          BY <2>1, <3>3 DEF StoreInv, NoPartialImport
        <4>2. v \in WptsOf(l, s)
          BY <3>3, <4>1 DEF WptsOf, Sees
        <4>3. wpts[v].seq \in S
          BY <4>2
        <4>4. QED BY <3>2, <4>3
      <3>4. QED BY <2>2, <3>3 DEF WptSeqTaken
    <2>4. \A v \in Waypoint : WptOK(v)'
      BY <1>2, <2>1, <2>2, <2>3, NewWptOK
    <2>5. Others(s)
      BY <1>2 DEF Others
    <2>6. QED BY <1>0, <1>2, <2>4, <2>5, WptsStep DEF Open, Pending
  <1>3. QED BY <1>1, <1>2 DEF ImportWpt, InsertFails

LEMMA ImportRouteStep ==
    ASSUME Inv, NEW s \in Slot, ImportRoute(s)
    PROVE  StoreInv'
  <1> USE DEF Inv, StoreInv
  <1>0. /\ pc[s] = "items" /\ new[s] \in Leg /\ legs[new[s]].tx = s
        /\ UNCHANGED <<owner, wpts, drawn, req, pc, seqNo, new>>
    BY DEF ImportRoute, TypeInv, ReqInv, OpenInv
  <1>1. \A l \in Leg : /\ legs'[l].trip = legs[l].trip
                       /\ legs'[l].seq = legs[l].seq
                       /\ legs'[l].tx = legs[l].tx
    BY <1>0 DEF ImportRoute, TypeInv, TypeOK
  <1>2. \A l \in Leg : legs[l].trip # None => legs[l].trip \in Trip
    BY DEF TypeInv, TypeOK, LegRow
  <1>3. \A t \in Trip : CommittedSeqs(t)' = CommittedSeqs(t)
    BY <1>1 DEF CommittedSeqs
  <1>4. RowsInv' /\ WptsDistinct'
    BY <1>0, <1>1 DEF RowsInv, WptsDistinct, WptSeqTaken
  <1>5. LegsNumbered'
    BY <1>1, <1>2, <1>3 DEF LegsNumbered, LegSeqTaken
  <1>a. \A w \in Waypoint : wpts[w].leg # None => wpts[w].leg \in Leg
    BY DEF TypeInv, TypeOK, WptRow
  <1>b. NoOrphans'
    BY <1>0, <1>1, <1>a DEF NoOrphans
  <1>6. NoOrphans' /\ NoPartialImport'
    BY <1>0, <1>1, <1>a, <1>b DEF NoPartialImport
  <1>7. OpenInv'
    BY <1>0, <1>1 DEF OpenInv, TypeInv, ReqInv
  <1>8. ASSUME NEW r \in Slot PROVE Ready(r)'
    <2>1. CASE pc[r] = "legInsert"
      <3>1. req[r].trip \in Trip
        BY <2>1 DEF TypeInv, ReqInv, Incoming, Request
      <3>2. QED BY <1>0, <1>3, <2>1, <3>1 DEF PendingInv, Ready
    <2>2. CASE pc[r] \in {"wptSelect", "wptInsert"}
      <3>1. req[r].leg \in Leg
        BY <2>2 DEF TypeInv, ReqInv, Incoming, Request
      <3>2. QED BY <1>0, <1>1, <2>2, <3>1 DEF PendingInv, Ready
    <2>3. CASE pc[r] \notin Pending
      BY <1>0, <2>3 DEF Ready, Pending
    <2>4. QED BY <2>1, <2>2, <2>3 DEF Pending
  <1>9. QED BY <1>4, <1>5, <1>6, <1>7, <1>8 DEF PendingInv

LEMMA ImportEndsStep ==
    ASSUME Inv, NEW s \in Slot, ImportEnds(s)
    PROVE  StoreInv'
  <1>0. /\ pc[s] = "items" /\ TypeInv /\ UNCHANGED locals
        /\ "refused" \in Status /\ "commit" \in PC
    BY DEF ImportEnds, Status, PC, Inv
  <1>1. CASE Rollback(s) /\ Answer(s, "refused")
    BY <1>0, <1>1, AnswerRests, RollbackStep DEF locals
  <1>2. CASE Goto(s, "commit") /\ UNCHANGED tables
    <2>1. Others(s) /\ pc'[s] = "commit" /\ req' = req
      BY <1>0, <1>2, GotoType, GotoOthers DEF locals
    <2>2. Ready(s)'
      BY <2>1 DEF Ready
    <2>3. QED BY <1>0, <1>2, <2>1, <2>2, MoveStep DEF Open, locals
  <1>3. QED BY <1>1, <1>2 DEF ImportEnds

LEMMA CommitStep ==
    ASSUME Inv, NEW s \in Slot, Commit(s)
    PROVE  StoreInv'
  <1> USE NoneAssumption, DoneAssumption DEF Inv, CarriedOut
  <1>0. /\ pc[s] = "commit" /\ TypeInv /\ {"ok", "refused"} \subseteq Status
        /\ CarriedOut(s) /\ UNCHANGED <<owner, drawn, locals>>
    BY DEF Commit, Status
  <1>1. Others(s) /\ Resting(s)
    BY <1>0, AnswerRests DEF locals
  <1>2. \A l \in Leg : /\ legs'[l].trip = legs[l].trip
                       /\ legs'[l].seq = legs[l].seq
                       /\ legs'[l].tx =
                            IF legs[l].tx = s THEN Done ELSE legs[l].tx
    BY DEF Commit
  <1>3. \A w \in Waypoint : /\ wpts'[w].leg = wpts[w].leg
                            /\ wpts'[w].seq = wpts[w].seq
                            /\ wpts'[w].tx =
                                 IF wpts[w].tx = s THEN Done ELSE wpts[w].tx
    BY DEF Commit
  <1>4. \A t \in Trip : CommittedSeqs(t) \subseteq CommittedSeqs(t)'
    BY <1>2 DEF CommittedSeqs
  <1>5. \A l \in Leg : legs[l].trip # None => legs[l].trip \in Trip
    BY DEF TypeInv, TypeOK, LegRow
  <1>6. RowsInv' /\ WptsDistinct'
    BY <1>0, <1>2, <1>3 DEF StoreInv, RowsInv, WptsDistinct, WptSeqTaken
  <1>7. LegsNumbered'
    BY <1>2, <1>4, <1>5 DEF StoreInv, LegsNumbered, LegSeqTaken
  <1>a. \A w \in Waypoint : wpts[w].leg # None => wpts[w].leg \in Leg
    BY DEF TypeInv, TypeOK, WptRow
  <1>8. NoOrphans'
    BY <1>0, <1>2, <1>3, <1>a DEF StoreInv, NoOrphans
  <1>9. NoPartialImport'
    <2>1. ASSUME NEW l \in Leg, legs'[l].tx # Done
          PROVE  pc'[legs'[l].tx] \in Open /\ new'[legs'[l].tx] = l
      <3>1. legs'[l].tx = legs[l].tx /\ legs[l].tx \in Slot \ {s}
        BY <1>2, <2>1 DEF TypeInv, TypeOK, LegRow
      <3>2. QED BY <1>1, <2>1, <3>1
                DEF Others, StoreInv, NoPartialImport, Open
    <2>2. ASSUME NEW w \in Waypoint, wpts'[w].leg # None
          PROVE  wpts'[w].tx = legs'[wpts'[w].leg].tx
      <3>1. wpts[w].leg \in Leg
        BY <1>3, <2>2 DEF TypeInv, TypeOK, WptRow
      <3>2. QED BY <1>2, <1>3, <2>2, <3>1 DEF StoreInv, NoPartialImport
    <2>3. QED BY <2>1, <2>2 DEF NoPartialImport, Open
  <1>10. OpenInv'
    <2>1. ASSUME NEW r \in Slot, pc'[r] \in Open
          PROVE  /\ legs'[new'[r]].tx = r
                 /\ legs'[new'[r]].trip = req'[r].trip
                 /\ owner'[req'[r].trip] = req'[r].user
      <3>1. /\ r # s /\ pc[r] \in Open
            /\ new'[r] = new[r] /\ req'[r] = req[r]
        BY <1>1, <2>1 DEF Resting, Others
      <3>2. new[r] \in Leg
        BY <3>1 DEF Open, TypeInv, ReqInv
      <3>3. QED BY <1>0, <1>2, <3>1, <3>2 DEF StoreInv, OpenInv, Open
    <2>2. QED BY <2>1 DEF OpenInv, Open
  <1>11. ASSUME NEW r \in Slot \ {s} PROVE Ready(r)'
    <2>0. Ready(r)
      BY DEF StoreInv, PendingInv
    <2>1. CASE pc[r] = "legInsert"
      <3>1. req[r].trip \in Trip
        BY <2>1 DEF TypeInv, ReqInv, Incoming, Request
      <3>2. PICK t \in Trip : t = req[r].trip
        BY <3>1
      <3>3. owner[t] # None =>
              \A k \in 1 .. seqNo[r] - 1 : k \in CommittedSeqs(t)'
        BY <1>4, <2>0, <2>1, <3>2 DEF Ready
      <3>4. QED BY <1>0, <1>1, <2>0, <2>1, <3>2, <3>3 DEF Others, Ready
    <2>2. CASE pc[r] \in {"wptSelect", "wptInsert"}
      <3>1. req[r].leg \in Leg
        BY <2>2 DEF TypeInv, ReqInv, Incoming, Request
      <3>2. QED BY <1>0, <1>1, <1>2, <2>0, <2>2, <3>1 DEF Others, Ready
    <2>3. CASE pc[r] \notin Pending
      BY <1>1, <2>3 DEF Others, Ready, Pending
    <2>4. QED BY <2>1, <2>2, <2>3 DEF Pending
  <1>12. Ready(s)'
    BY <1>1 DEF Resting, Pending, Ready
  <1>13. QED
    BY <1>6, <1>7, <1>8, <1>9, <1>10, <1>11, <1>12 DEF StoreInv, PendingInv

LEMMA StoreStep == Inv /\ [Next]_vars => StoreInv'
  <1> SUFFICES ASSUME Inv, [Next]_vars PROVE StoreInv'
    OBVIOUS
  <1>0. CASE UNCHANGED vars
    BY <1>0 DEF vars, Inv, StoreInv, RowsInv, OpenInv, PendingInv, Ready,
       LegsNumbered, WptsDistinct, NoOrphans, NoPartialImport, LegSeqTaken,
       WptSeqTaken, CommittedSeqs
  <1>1. ASSUME NEW s \in Slot, StartDeleteTrip(s) PROVE StoreInv'
    <2>1. TypeInv /\ "deleting" \in PC
      BY DEF Inv, PC
    <2>2. Others(s) /\ pc'[s] = "deleting" /\ pc[s] = "tripDelete"
      BY <1>1, <2>1, GotoType, GotoOthers DEF StartDeleteTrip, locals
    <2>3. QED
      BY <1>1, <2>2, QuietStep DEF StartDeleteTrip, Resting, Open, Pending
  <1>2. ASSUME NEW s \in Slot, StatementFails(s) PROVE StoreInv'
    <2>1. TypeInv /\ "refused" \in Status
      BY DEF Inv, Status
    <2>2. QED
      BY <1>2, <2>1, AnswerRests, RollbackStep DEF StatementFails, locals
  <1>3. ASSUME NEW s \in Slot, Abandon(s) PROVE StoreInv'
    <2>1. CASE Vanish(s)
      <3>1. Others(s) /\ Resting(s)
        BY <2>1 DEF Vanish, Others, Resting, Pending, Open, locals, Inv,
                    TypeInv, TypeOK
      <3>2. QED BY <2>1, <3>1, RollbackStep DEF Vanish
    <2>2. CASE UNCHANGED <<tables, req, pc, seqNo, new, todo, out>>
      BY <2>2 DEF tables, Inv, StoreInv, RowsInv, OpenInv, PendingInv, Ready,
         LegsNumbered, WptsDistinct, NoOrphans, NoPartialImport, LegSeqTaken,
         WptSeqTaken, CommittedSeqs
    <2>3. QED BY <1>3, <2>1, <2>2 DEF Abandon
  <1>4. QED
    BY <1>0, <1>1, <1>2, <1>3, ReceiveStep, CreateTripStep, DeleteTripStep,
       CheckStep, SelectLegSeqStep, InsertLegStep, SelectWptSeqStep,
       InsertWptStep, DeleteWptStep, ImportWptStep, ImportRouteStep,
       ImportEndsStep, CommitStep
    DEF Next, Handle

LEMMA InvStep == Inv /\ [Next]_vars => Inv'
  BY TypeStep, StoreStep DEF Inv

LEMMA InvAlways == Spec => []Inv
  <1>1. Init => Inv
    BY NoneAssumption, DoneAssumption
    DEF Init, Inv, TypeInv, TypeOK, ReqInv, NoLeg, NoWpt, LegRow, WptRow, PC,
        Status, StoreInv, RowsInv, OpenInv, PendingInv, Ready, LegsNumbered,
        WptsDistinct, NoOrphans, NoPartialImport
  <1>2. QED BY <1>1, InvStep, PTL DEF Spec

(* The four facts a reader of the tables relies on, in every state: legs are *)
(* numbered without gap or repeat, waypoints without repeat, nothing         *)
(* outlives its parent, and what an open import wrote is its own.            *)
THEOREM LegsAreNumbered == Spec => []LegsNumbered
  <1>1. Inv => LegsNumbered
    BY DEF Inv, StoreInv
  <1>2. QED BY <1>1, InvAlways, PTL

(* No two waypoints of a leg share a number.                                 *)
THEOREM WptsAreDistinct == Spec => []WptsDistinct
  <1>1. Inv => WptsDistinct
    BY DEF Inv, StoreInv
  <1>2. QED BY <1>1, InvAlways, PTL

(* No leg outlives its trip and no waypoint its leg.                         *)
THEOREM NothingIsOrphaned == Spec => []NoOrphans
  <1>1. Inv => NoOrphans
    BY DEF Inv, StoreInv
  <1>2. QED BY <1>1, InvAlways, PTL

(* Nobody but a running import has uncommitted rows, and a waypoint is       *)
(* visible exactly when its leg is.                                          *)
THEOREM ImportsAreAtomic == Spec => []NoPartialImport
  <1>1. Inv => NoPartialImport
    BY DEF Inv, StoreInv
  <1>2. QED BY <1>1, InvAlways, PTL

(* The trip of an open import stays, and stays its user's.                   *)
THEOREM ImportsPinTheirTrip == Spec => []ImportPinsTrip
  <1>1. Inv => ImportPinsTrip
    <2> SUFFICES ASSUME Inv, NEW s \in Slot, pc[s] \in Open
                 PROVE  LegOwner(new[s]) = req[s].user
      BY DEF ImportPinsTrip, Open
    <2>1. /\ legs[new[s]].trip = req[s].trip
          /\ owner[req[s].trip] = req[s].user
      BY DEF Inv, StoreInv, OpenInv, Open
    <2>2. req[s].trip \in Trip
      BY DEF Inv, TypeInv, ReqInv, Open, Incoming, Request, StoreInv
    <2>3. QED BY <2>1, <2>2 DEF LegOwner
  <1>2. QED BY <1>1, InvAlways, PTL
-----------------------------------------------------------------------------
(* What no step of any handler undoes: identifiers stay drawn, the row of a  *)
(* deleted trip stays away, a leg stays on its trip until it goes, and a     *)
(* committed one goes only with its trip.                                    *)
TablesKeep ==
    /\ drawn \subseteq drawn'
    /\ \A t \in Trip \cap drawn : owner[t] = None => owner'[t] = None
    /\ \A l \in Leg \cap drawn : legs'[l].trip # None =>
          /\ legs'[l].trip = legs[l].trip
          /\ owner'[legs[l].trip] = owner[legs[l].trip]
    /\ \A l \in Leg : legs[l].trip # None /\ legs[l].tx = Done =>
          \/ legs'[l].trip = legs[l].trip /\ legs'[l].tx = Done
          \/ owner'[legs[l].trip] = None

LEMMA RollbackKeeps ==
    ASSUME Inv, NEW s \in Slot, Rollback(s)
    PROVE  TablesKeep
  BY NoneAssumption, DoneAssumption DEF TablesKeep, Rollback, NoLeg

LEMMA KeepStep == Inv /\ [Next]_vars => TablesKeep
  <1> SUFFICES ASSUME Inv, [Next]_vars PROVE TablesKeep
    OBVIOUS
  <1> USE NoneAssumption, DoneAssumption
  <1>0. CASE UNCHANGED tables
    BY <1>0 DEF TablesKeep, tables
  <1>1. CASE UNCHANGED <<owner, legs>> /\ drawn \subseteq drawn'
    BY <1>1 DEF TablesKeep
  <1>2. ASSUME NEW s \in Slot, Receive(s) PROVE TablesKeep
    BY <1>0, <1>2 DEF Receive
  <1>3. ASSUME NEW s \in Slot, CreateTrip(s) PROVE TablesKeep
    <2>1. ASSUME NEW t \in Trip \ drawn,
                 owner' = [owner EXCEPT ![t] = req[s].user],
                 drawn' = drawn \cup {t}, UNCHANGED legs
          PROVE  TablesKeep
      <3>1. \A u \in Trip \ {t} : owner'[u] = owner[u]
        BY <2>1 DEF Inv, TypeInv, TypeOK
      <3>2. \A l \in Leg : legs[l].trip # None => legs[l].trip \in Trip \ {t}
        BY DEF Inv, TypeInv, TypeOK, LegRow, StoreInv, RowsInv, NoOrphans
      <3>3. QED BY <2>1, <3>1, <3>2 DEF TablesKeep
    <2>2. QED BY <1>3, <2>1, RollbackKeeps DEF CreateTrip, InsertFails
  <1>4. ASSUME NEW s \in Slot, DeleteTrip(s) PROVE TablesKeep
    <2>1. CASE Cascade(req[s].trip) /\ UNCHANGED drawn
      <3>1. req[s].trip \in Trip
        BY <1>4 DEF DeleteTrip, Inv, TypeInv, ReqInv, Incoming, Request
      <3>2. PICK t \in Trip : t = req[s].trip
        BY <3>1
      <3>3. owner'[t] = None /\ \A u \in Trip \ {t} : owner'[u] = owner[u]
        BY <2>1, <3>2 DEF Cascade, Inv, TypeInv, TypeOK
      <3>4. \A l \in Leg :
              legs'[l] = IF legs[l].trip = t THEN NoLeg ELSE legs[l]
        BY <2>1, <3>2 DEF Cascade
      <3>5. \A l \in Leg : legs[l].trip # None => legs[l].trip \in Trip
        BY DEF Inv, TypeInv, TypeOK, LegRow
      <3>6. QED BY <2>1, <3>3, <3>4, <3>5 DEF TablesKeep, NoLeg
    <2>2. QED BY <1>0, <1>4, <2>1 DEF DeleteTrip
  <1>5. ASSUME NEW s \in Slot, InsertLeg(s) PROVE TablesKeep
    <2>1. ASSUME NEW l \in Leg \ drawn, NEW row \in LegRow,
                 legs' = [legs EXCEPT ![l] = row],
                 drawn' = drawn \cup {l}, UNCHANGED owner
          PROVE  TablesKeep
      <3>1. \A m \in Leg \ {l} : legs'[m] = legs[m]
        BY <2>1 DEF Inv, TypeInv, TypeOK
      <3>2. legs[l].trip = None
        BY DEF Inv, StoreInv, RowsInv
      <3>3. QED BY <2>1, <3>1, <3>2 DEF TablesKeep
    <2>2. \A x \in {s, Done} : [trip |-> req[s].trip, seq |-> seqNo[s],
                                routes |-> 0, tx |-> x] \in LegRow
      BY <1>5 DEF InsertLeg, Inv, TypeInv, TypeOK, ReqInv, Incoming, Request,
                  LegRow
    <2>3. QED BY <1>0, <1>5, <2>1, <2>2, RollbackKeeps
              DEF InsertLeg, InsertFails
  <1>6. ASSUME NEW s \in Slot, ImportRoute(s) PROVE TablesKeep
    <2>1. /\ new[s] \in Leg /\ legs[new[s]].tx = s
          /\ UNCHANGED <<owner, drawn>>
      BY <1>6 DEF ImportRoute, Inv, TypeInv, ReqInv, StoreInv, OpenInv
    <2>2. \A l \in Leg : /\ legs'[l].trip = legs[l].trip
                         /\ legs'[l].tx = legs[l].tx
      BY <1>6, <2>1 DEF ImportRoute, Inv, TypeInv, TypeOK
    <2>3. QED BY <2>1, <2>2 DEF TablesKeep
  <1>7. ASSUME NEW s \in Slot, Commit(s) PROVE TablesKeep
    BY <1>7 DEF Commit, TablesKeep
  <1>8. ASSUME NEW s \in Slot,
               InsertWpt(s) \/ DeleteWpt(s) \/ ImportWpt(s) \/ ImportEnds(s)
        PROVE  TablesKeep
    BY <1>0, <1>1, <1>8, RollbackKeeps
    DEF InsertWpt, DeleteWpt, ImportWpt, ImportEnds, InsertFails
  <1>9. ASSUME NEW s \in Slot,
               \/ CheckTrip(s) \/ CheckLeg(s) \/ StartDeleteTrip(s)
               \/ SelectLegSeq(s) \/ SelectWptSeq(s)
        PROVE  TablesKeep
    BY <1>0, <1>9
    DEF CheckTrip, CheckLeg, StartDeleteTrip, SelectLegSeq, SelectWptSeq
  <1>10. ASSUME NEW s \in Slot, StatementFails(s) \/ Abandon(s)
         PROVE  TablesKeep
    BY <1>0, <1>10, RollbackKeeps DEF StatementFails, Abandon, Vanish
  <1>11. CASE UNCHANGED vars
    BY <1>0, <1>11 DEF vars, tables
  <1>12. QED
    BY <1>2, <1>3, <1>4, <1>5, <1>6, <1>7, <1>8, <1>9, <1>10, <1>11
    DEF Next, Handle
-----------------------------------------------------------------------------
(* A step of one handler touches no other.                                   *)
Step(s) == Receive(s) \/ Handle(s) \/ StatementFails(s) \/ Abandon(s)

Apart(s) == \A r \in Slot \ {s} :
    /\ pc'[r] = pc[r] /\ req'[r] = req[r] /\ out'[r] = out[r]
    /\ new'[r] = new[r] /\ todo'[r] = todo[r] /\ seqNo'[r] = seqNo[r]

LEMMA AnswerApart ==
    ASSUME TypeInv, NEW s \in Slot, NEW st \in Status, Answer(s, st),
           \A r \in Slot \ {s} : new'[r] = new[r],
           UNCHANGED <<todo, seqNo>>
    PROVE  Apart(s)
  BY DEF Apart, Answer, TypeInv, TypeOK

LEMMA GotoApart ==
    ASSUME TypeInv, NEW s \in Slot, NEW label \in PC, Goto(s, label),
           \A r \in Slot \ {s} : /\ new'[r] = new[r] /\ todo'[r] = todo[r]
                                 /\ seqNo'[r] = seqNo[r]
    PROVE  Apart(s)
  BY DEF Apart, Goto, TypeInv, TypeOK

LEMMA StepApart ==
    ASSUME TypeInv, NEW s \in Slot, Step(s)
    PROVE  Apart(s)
  <1> USE DEF Status, PC, CarriedOut
  <1>1. CASE Receive(s) \/ Abandon(s)
    BY <1>1
    DEF Receive, Abandon, Vanish, tables, locals, Apart, TypeInv, TypeOK
  <1>2. CASE CreateTrip(s) \/ DeleteTrip(s) \/ StartDeleteTrip(s)
    BY <1>2, AnswerApart, GotoApart
    DEF CreateTrip, DeleteTrip, StartDeleteTrip, InsertFails, locals, TypeInv,
        TypeOK
  <1>3. CASE CheckTrip(s)
    BY <1>3, AnswerApart, GotoApart DEF CheckTrip, AfterCheck, locals
  <1>4. CASE CheckLeg(s)
    BY <1>4, AnswerApart, GotoApart DEF CheckLeg, locals
  <1>5. CASE SelectLegSeq(s) \/ SelectWptSeq(s)
    BY <1>5, AnswerApart, GotoApart
    DEF SelectLegSeq, SelectWptSeq, locals, TypeInv, TypeOK
  <1>6. CASE InsertLeg(s)
    <2>1. ASSUME NEW l \in Leg, new' = [new EXCEPT ![s] = l],
                 \/ todo' = [todo EXCEPT ![s] = req[s].file]
                    /\ Goto(s, "items")
                 \/ UNCHANGED todo /\ CarriedOut(s),
                 UNCHANGED seqNo
          PROVE  Apart(s)
      BY <2>1, AnswerApart, GotoApart DEF TypeInv, TypeOK
    <2>2. QED BY <1>6, <2>1, AnswerApart DEF InsertLeg, InsertFails, locals
  <1>7. CASE InsertWpt(s) \/ DeleteWpt(s)
    BY <1>7, AnswerApart
    DEF InsertWpt, DeleteWpt, InsertFails, locals, TypeInv, TypeOK
  <1>8. CASE ImportWpt(s) \/ ImportRoute(s)
    BY <1>8, AnswerApart
    DEF ImportWpt, ImportRoute, InsertFails, locals, TypeInv, TypeOK, Apart
  <1>9. CASE ImportEnds(s) \/ Commit(s) \/ StatementFails(s)
    BY <1>9, AnswerApart, GotoApart
    DEF ImportEnds, Commit, StatementFails, locals
  <1>10. QED
    BY <1>1, <1>2, <1>3, <1>4, <1>5, <1>6, <1>7, <1>8, <1>9
    DEF Step, Handle

(* What the answer of s says of the leg it asked for, and what makes that    *)
(* last: the leg goes only with its trip, whose identifier is spent.         *)
AnswerOK(s) ==
    /\ new[s] # None => new[s] \in drawn
    /\ pc[s] \notin {"idle", "answered"} \cup Open =>
          new[s] = None /\ todo[s] = <<>>
    /\ pc[s] = "commit" => todo[s] = <<>>
    /\ pc[s] = "answered" /\ req[s].op \in {"createLeg", "importGpx"} =>
          /\ out[s] = "ok" \/ new[s] # None =>
                new[s] \in Leg /\ req[s].trip \in drawn
          /\ IF out[s] = "ok" THEN WholeLeg(s) \/ owner[req[s].trip] = None
             ELSE new[s] # None => \/ legs[new[s]].trip = None
                                   \/ out[s] = "refused" /\ WholeLeg(s)

AnswerInv == \A s \in Slot : AnswerOK(s)

LEMMA AnswerLasts ==
    ASSUME Inv, Inv', NEW s \in Slot, NEW r \in Slot \ {s}, AnswerOK(r),
           Apart(s), TablesKeep
    PROVE  AnswerOK(r)'
  <1>1. /\ pc'[r] = pc[r] /\ req'[r] = req[r] /\ out'[r] = out[r]
        /\ new'[r] = new[r] /\ todo'[r] = todo[r] /\ drawn \subseteq drawn'
    BY DEF Apart, TablesKeep
  <1>2. CASE pc[r] = "answered" /\ req[r].op \in {"createLeg", "importGpx"}
    <2>1. req[r].trip \in Trip
      BY <1>2 DEF Inv, TypeInv, ReqInv, Incoming, Request
    <2>2. PICK t \in Trip : t = req[r].trip
      BY <2>1
    <2>3. CASE new[r] \in Leg /\ t \in drawn
      <3>1. PICK l \in Leg : l = new[r] /\ l \in drawn
        BY <2>3, NoneAssumption DEF AnswerOK
      <3>2. owner[t] = None => owner'[t] = None
        BY <2>3 DEF TablesKeep
      <3>3. legs[l].trip = None => legs'[l].trip = None
        BY <3>1 DEF TablesKeep
      <3>4. CASE WholeLeg(r)
        <4>1. legs[l].trip = t /\ legs[l].tx = Done /\ todo[r] = <<>>
          BY <2>2, <3>1, <3>4 DEF WholeLeg
        <4>2. CASE legs'[l].trip = t /\ legs'[l].tx = Done
          <5>1. WholeLeg(r)'
            BY <1>1, <2>2, <3>1, <4>1, <4>2 DEF WholeLeg
          <5>2. out[r] \in {"ok", "refused"}
            BY <1>2, <2>2, <3>1, <3>4, <4>1, NoneAssumption DEF AnswerOK
          <5>3. QED
            BY <1>1, <1>2, <2>2, <2>3, <3>1, <5>1, <5>2 DEF AnswerOK, Open
        <4>3. CASE owner'[t] = None
          <5>1. legs'[l].trip = None
            <6>1. legs'[l].trip # None => legs'[l].trip = t
              BY <3>1, <4>1 DEF TablesKeep
            <6>2. QED BY <4>3, <6>1 DEF Inv, StoreInv, NoOrphans
          <5>2. QED BY <1>1, <1>2, <2>2, <2>3, <3>1, <4>3, <5>1 DEF AnswerOK
        <4>4. QED BY <2>2, <4>1, <4>2, <4>3, NoneAssumption DEF TablesKeep
      <3>5. CASE ~WholeLeg(r)
        BY <1>1, <1>2, <2>2, <2>3, <3>1, <3>2, <3>3, <3>5 DEF AnswerOK
      <3>6. QED BY <3>4, <3>5
    <2>4. CASE ~(new[r] \in Leg /\ t \in drawn)
      BY <1>1, <1>2, <2>2, <2>4 DEF AnswerOK
    <2>5. QED BY <2>3, <2>4
  <1>3. CASE ~(pc[r] = "answered" /\ req[r].op \in {"createLeg", "importGpx"})
    BY <1>1, <1>3 DEF AnswerOK
  <1>4. QED BY <1>2, <1>3

(* A handler that is refused has either written nothing or rolls it back.    *)
LEMMA RefusalOK ==
    ASSUME Inv, NEW s \in Slot, AnswerOK(s), NEW st \in Status \ {"ok"},
           Answer(s, st), UNCHANGED <<new, todo>>, drawn \subseteq drawn',
           pc[s] \notin {"idle", "answered"},
           pc[s] \in Open => Rollback(s)
    PROVE  AnswerOK(s)'
  <1>1. CASE pc[s] \in Open
    <2>0. req[s].trip \in drawn
      <3>1. owner[req[s].trip] = req[s].user /\ req[s].trip \in Trip
            /\ req[s].user \in User
        BY <1>1 DEF Inv, TypeInv, ReqInv, StoreInv, OpenInv, Open, Incoming,
                    Request
      <3>2. QED BY <3>1, NoneAssumption DEF Inv, StoreInv, RowsInv
    <2>1. new[s] \in Leg /\ legs[new[s]].tx = s
      BY <1>1 DEF Inv, TypeInv, ReqInv, StoreInv, OpenInv, Open
    <2>2. legs'[new[s]].trip = None
      BY <1>1, <2>1 DEF Rollback, NoLeg
    <2>3. QED
      BY <1>1, <2>0, <2>1, <2>2, NoneAssumption
      DEF AnswerOK, Answer, Open, Inv, TypeInv, TypeOK
  <1>2. CASE pc[s] \notin Open
    BY <1>2 DEF AnswerOK, Answer, Inv, TypeInv, TypeOK
  <1>3. QED BY <1>1, <1>2

LEMMA AnswerStep ==
    ASSUME Inv, Inv', AnswerInv, [Next]_vars
    PROVE  AnswerInv'
  <1> USE NoneAssumption, DoneAssumption DEF CarriedOut
  <1>0. CASE UNCHANGED vars
    BY <1>0 DEF vars, AnswerInv, AnswerOK, WholeLeg
  <1>1. ASSUME NEW s \in Slot, Step(s) PROVE AnswerInv'
    <2> USE DEF Inv
    <2>1. AnswerOK(s) /\ Apart(s) /\ TablesKeep /\ TypeInv
      BY <1>1, StepApart, KeepStep DEF AnswerInv, Step, Next
    <2>2. AnswerOK(s)'
      <3>0. drawn \subseteq drawn'
        BY <2>1 DEF TablesKeep
      <3>1. CASE Receive(s)
        BY <3>1 DEF Receive, AnswerOK, Started, TypeInv, TypeOK
      <3>2. CASE CreateTrip(s)
        <4>1. req[s].op = "createTrip"
          BY <3>2 DEF CreateTrip, TypeInv, ReqInv
        <4>2. CASE InsertFails(s, Trip)
          BY <2>1, <3>0, <3>2, <4>2, RefusalOK
          DEF CreateTrip, InsertFails, locals, Status
        <4>3. ASSUME NEW t \in Trip, new' = [new EXCEPT ![s] = t],
                     drawn' = drawn \cup {t}, CarriedOut(s)
              PROVE  AnswerOK(s)'
          <5>1. PICK st \in Status : Answer(s, st)
            BY <4>3 DEF Status
          <5>2. QED BY <2>1, <3>2, <4>1, <4>3, <5>1
                    DEF CreateTrip, AnswerOK, Answer, Open, TypeInv, TypeOK
        <4>4. QED BY <3>2, <4>2, <4>3 DEF CreateTrip
      <3>3. CASE StartDeleteTrip(s)
        BY <2>1, <3>3 DEF StartDeleteTrip, Goto, AnswerOK, Open, locals, tables,
                          TypeInv, TypeOK
      <3>4. CASE DeleteTrip(s) \/ DeleteWpt(s)
        <4>1. req[s].op \in {"deleteTrip", "deleteWpt"} /\ UNCHANGED locals
              /\ pc[s] \in {"deleting", "wptDelete"}
          BY <3>4 DEF DeleteTrip, DeleteWpt, TypeInv, ReqInv
        <4>2. PICK st \in Status : Answer(s, st)
          BY <3>4 DEF DeleteTrip, DeleteWpt, Status
        <4>3. QED BY <2>1, <3>0, <4>1, <4>2
                  DEF AnswerOK, Answer, locals, Open, TypeInv, TypeOK
      <3>5. CASE CheckTrip(s) \/ CheckLeg(s)
        <4>1. /\ pc[s] \in {"checkTrip", "checkLeg"}
              /\ UNCHANGED <<tables, locals>>
          BY <3>5 DEF CheckTrip, CheckLeg
        <4>2. \/ \E st \in {"notFound", "refused"} : Answer(s, st)
              \/ \E label \in {"legSelect", "checkLeg", "wptSelect",
                               "wptDelete"} : Goto(s, label)
          BY <3>5 DEF CheckTrip, CheckLeg, AfterCheck
        <4>3. ASSUME NEW st \in {"notFound", "refused"}, Answer(s, st)
              PROVE  AnswerOK(s)'
          BY <2>1, <3>0, <4>1, <4>3, RefusalOK DEF locals, Open, Status
        <4>4. ASSUME NEW label \in {"legSelect", "checkLeg", "wptSelect",
                                    "wptDelete"}, Goto(s, label)
              PROVE  AnswerOK(s)'
          BY <2>1, <4>1, <4>4
          DEF AnswerOK, Goto, Open, locals, tables, TypeInv, TypeOK
        <4>5. QED BY <4>2, <4>3, <4>4
      <3>6. CASE SelectLegSeq(s) \/ SelectWptSeq(s)
        <4>1. /\ pc[s] \in {"legSelect", "wptSelect"} /\ UNCHANGED tables
              /\ UNCHANGED <<new, todo>>
          BY <3>6 DEF SelectLegSeq, SelectWptSeq, locals
        <4>2. \/ Answer(s, "notFound")
              \/ \E label \in {"legInsert", "wptInsert"} : Goto(s, label)
          BY <3>6 DEF SelectLegSeq, SelectWptSeq
        <4>3. QED BY <2>1, <3>0, <4>1, <4>2, RefusalOK
                  DEF AnswerOK, Goto, Open, tables, Status, TypeInv, TypeOK
      <3>7. CASE InsertLeg(s)
        <4>1. PICK t \in Trip : t = req[s].trip /\ t \in drawn
          BY <3>7 DEF InsertLeg, TypeInv, ReqInv, Incoming, Request,
                      StoreInv, PendingInv, Ready
        <4>2. CASE Answer(s, "refused") /\ UNCHANGED locals
          BY <2>1, <3>0, <3>7, <4>2, RefusalOK
          DEF InsertLeg, locals, Status, Open
        <4>3. ASSUME NEW l \in Leg \ drawn, drawn' = drawn \cup {l},
                     new' = [new EXCEPT ![s] = l],
                     \/ /\ legs' = [legs EXCEPT ![l] =
                              [trip |-> t, seq |-> seqNo[s],
                               routes |-> 0, tx |-> Done]]
                        /\ CarriedOut(s) /\ UNCHANGED todo
                     \/ Goto(s, "items")
              PROVE  AnswerOK(s)'
          <5>1. new'[s] = l /\ new'[s] \in drawn'
            BY <4>3 DEF TypeInv, TypeOK
          <5>2. CASE Goto(s, "items")
            BY <5>1, <5>2 DEF AnswerOK, Goto, Open, TypeInv, TypeOK
          <5>3. CASE /\ CarriedOut(s) /\ UNCHANGED todo
                     /\ legs' = [legs EXCEPT ![l] =
                           [trip |-> t, seq |-> seqNo[s],
                            routes |-> 0, tx |-> Done]]
            <6>1. legs'[l].trip = t /\ legs'[l].tx = Done
              BY <5>3 DEF TypeInv, TypeOK
            <6>2. PICK st \in {"ok", "refused"} : Answer(s, st)
              BY <5>3
            <6>3. todo'[s] = <<>>
              BY <2>1, <3>7, <5>3 DEF InsertLeg, AnswerOK, Open
            <6>4. CASE pc'[s] = "answered"
              <7>1. req'[s].trip = t /\ out'[s] = st
                BY <4>1, <6>2, <6>4 DEF Answer, TypeInv, TypeOK
              <7>2. WholeLeg(s)'
                BY <5>1, <6>1, <6>3, <7>1 DEF WholeLeg
              <7>3. QED BY <3>0, <4>1, <5>1, <6>4, <7>1, <7>2
                        DEF AnswerOK, Open
            <6>5. CASE pc'[s] = "idle"
              BY <5>1, <6>5 DEF AnswerOK
            <6>6. QED BY <6>2, <6>4, <6>5 DEF Answer, TypeInv, TypeOK
          <5>4. QED BY <4>3, <5>2, <5>3
        <4>4. QED BY <3>7, <4>1, <4>2, <4>3 DEF InsertLeg, InsertFails
      <3>8. CASE InsertWpt(s)
        <4>1. req[s].op = "createWpt"
          BY <3>8 DEF InsertWpt, TypeInv, ReqInv
        <4>2. CASE Answer(s, "refused") /\ UNCHANGED locals
          BY <2>1, <3>0, <3>8, <4>2, RefusalOK
          DEF InsertWpt, locals, Status, Open
        <4>3. ASSUME NEW w \in Waypoint, drawn' = drawn \cup {w},
                     new' = [new EXCEPT ![s] = w], CarriedOut(s)
              PROVE  AnswerOK(s)'
          <5>1. PICK st \in Status : Answer(s, st)
            BY <4>3 DEF Status
          <5>2. QED BY <2>1, <3>8, <4>1, <4>3, <5>1
                    DEF InsertWpt, AnswerOK, Answer, Open, TypeInv, TypeOK
        <4>4. QED BY <3>8, <4>2, <4>3 DEF InsertWpt, InsertFails
      <3>9. CASE ImportWpt(s)
        <4>1. CASE /\ Rollback(s) /\ UNCHANGED locals
                   /\ \E st \in {"notFound", "refused"} : Answer(s, st)
          BY <2>1, <3>0, <3>9, <4>1, RefusalOK DEF ImportWpt, locals, Status
        <4>2. CASE UNCHANGED <<req, pc, new, out>>
          BY <2>1, <3>0, <3>9, <4>2 DEF AnswerOK, ImportWpt, Open
        <4>3. QED BY <3>9, <4>1, <4>2 DEF ImportWpt, InsertFails
      <3>10. CASE ImportRoute(s)
        BY <2>1, <3>10 DEF ImportRoute, AnswerOK, Open
      <3>11. CASE ImportEnds(s)
        <4>1. CASE Rollback(s) /\ Answer(s, "refused")
          BY <2>1, <3>0, <3>11, <4>1, RefusalOK DEF ImportEnds, locals, Status
        <4>2. CASE Goto(s, "commit")
          BY <2>1, <3>0, <3>11, <4>2
          DEF AnswerOK, ImportEnds, Goto, Open, locals, TypeInv, TypeOK
        <4>3. QED BY <3>11, <4>1, <4>2 DEF ImportEnds
      <3>12. CASE Commit(s)
        <4>1. /\ new[s] \in Leg /\ legs[new[s]].tx = s
              /\ legs[new[s]].trip = req[s].trip
              /\ owner[req[s].trip] # None /\ req[s].trip \in Trip
          BY <3>12 DEF Commit, TypeInv, ReqInv, StoreInv, OpenInv, Incoming,
                       Request
        <4>2. legs'[new[s]].trip = req[s].trip /\ legs'[new[s]].tx = Done
          BY <3>12, <4>1 DEF Commit
        <4>3. req[s].trip \in drawn
          BY <4>1 DEF StoreInv, RowsInv
        <4>4. PICK st \in {"ok", "refused"} : Answer(s, st)
          BY <3>12 DEF Commit
        <4>5. new'[s] = new[s] /\ todo'[s] = <<>>
          BY <2>1, <3>12 DEF Commit, AnswerOK, locals
        <4>6. CASE pc'[s] = "answered"
          <5>1. req'[s] = req[s] /\ out'[s] = st
            BY <4>4, <4>6 DEF Answer, TypeInv, TypeOK
          <5>2. WholeLeg(s)'
            BY <4>1, <4>2, <4>5, <5>1 DEF WholeLeg
          <5>3. QED BY <3>0, <4>1, <4>2, <4>3, <4>5, <4>6, <5>1, <5>2, <2>1
                    DEF AnswerOK, Open
        <4>7. CASE pc'[s] = "idle"
          BY <2>1, <3>0, <4>5, <4>7 DEF AnswerOK
        <4>8. QED BY <4>4, <4>6, <4>7 DEF Answer, TypeInv, TypeOK
      <3>13. CASE StatementFails(s)
        BY <2>1, <3>0, <3>13, RefusalOK DEF StatementFails, locals, Status
      <3>14. CASE Abandon(s)
        BY <2>1, <3>0, <3>14
        DEF Abandon, Vanish, AnswerOK, locals, TypeInv, TypeOK, Open
      <3>15. QED
        BY <1>1, <3>1, <3>2, <3>3, <3>4, <3>5, <3>6, <3>7, <3>8, <3>9, <3>10,
           <3>11, <3>12, <3>13, <3>14 DEF Step, Handle
    <2>3. QED BY <2>1, <2>2, AnswerLasts DEF AnswerInv
  <1>2. QED BY <1>0, <1>1 DEF Next, Step

(* A leg or an import answered 201 keeps its leg, whole, for as long as the  *)
(* trip lives; one answered 404 has left no leg, and one answered 422 none   *)
(* or, when the answer to its COMMIT was lost, a whole one.                  *)
THEOREM AnswersMatchTables == Spec => []AnswerMatchesTables
  <1>1. Init => AnswerInv
    BY DEF Init, AnswerInv, AnswerOK
  <1>2. Inv /\ Inv' /\ AnswerInv /\ [Next]_vars => AnswerInv'
    BY AnswerStep
  <1>3. AnswerInv => AnswerMatchesTables
    BY DEF AnswerInv, AnswerOK, AnswerMatchesTables, WholeLeg
  <1>4. QED BY <1>1, <1>2, <1>3, InvAlways, PTL DEF Spec
-----------------------------------------------------------------------------
(* A handler about to insert a waypoint serves the user whose leg it is, for *)
(* as long as the leg is there.                                              *)
WriterOK(s) ==
    pc[s] = "wptInsert" /\ legs[req[s].leg].trip # None =>
        LegOwner(req[s].leg) = req[s].user

WriterInv == \A s \in Slot : WriterOK(s)

LEMMA WriterStep ==
    ASSUME Inv, Inv', WriterInv, [Next]_vars
    PROVE  WriterInv'
  <1>0. CASE UNCHANGED vars
    BY <1>0 DEF vars, WriterInv, WriterOK, LegOwner
  <1>1. ASSUME NEW s \in Slot, Step(s) PROVE WriterInv'
    <2> USE DEF Inv, CarriedOut
    <2>1. Apart(s) /\ TablesKeep
      BY <1>1, StepApart, KeepStep DEF Step, Next
    <2>2. ASSUME NEW r \in Slot, pc[r] = "wptInsert", req'[r] = req[r]
          PROVE  WriterOK(r)'
      <3>1. PICK l \in Leg : l = req[r].leg /\ l \in drawn
        BY <2>2 DEF StoreInv, PendingInv, Ready, TypeInv, ReqInv, Incoming,
                    Request
      <3>2. legs[l].trip \in Trip \cup {None}
        BY DEF TypeInv, TypeOK, LegRow
      <3>3. legs'[l].trip # None =>
              LegOwner(l)' = LegOwner(l) /\ legs[l].trip # None
        BY <2>1, <3>1, <3>2, NoneAssumption DEF TablesKeep, LegOwner
      <3>4. QED BY <2>2, <3>1, <3>3 DEF WriterInv, WriterOK
    <2>3. ASSUME NEW r \in Slot \ {s} PROVE WriterOK(r)'
      BY <2>1, <2>2 DEF Apart, WriterOK
    <2>4. WriterOK(s)'
      <3>1. CASE SelectWptSeq(s)
        <4>1. LegOwner(req[s].leg) = req[s].user \/ Answer(s, "notFound")
          BY <3>1 DEF SelectWptSeq
        <4>2. UNCHANGED tables
          BY <3>1 DEF SelectWptSeq
        <4>3. CASE Answer(s, "notFound")
          BY <4>3 DEF Answer, WriterOK, TypeInv, TypeOK
        <4>4. CASE LegOwner(req[s].leg) = req[s].user /\ UNCHANGED req
          BY <4>2, <4>4 DEF WriterOK, tables, LegOwner
        <4>5. QED BY <3>1, <4>1, <4>3, <4>4 DEF SelectWptSeq, Goto
      <3>2. CASE pc'[s] # "wptInsert"
        BY <3>2 DEF WriterOK
      <3>3. CASE pc[s] = "wptInsert" /\ pc'[s] = "wptInsert"
        <4>1. InsertWpt(s) \/ StatementFails(s) \/ Abandon(s)
          BY <1>1, <3>3
          DEF Step, Receive, Handle, CreateTrip, StartDeleteTrip, DeleteTrip,
              CheckTrip, CheckLeg, SelectLegSeq, SelectWptSeq, InsertLeg,
              DeleteWpt, ImportWpt, ImportRoute, ImportEnds, Commit
        <4>2. ASSUME NEW st, Answer(s, st) PROVE FALSE
          BY <3>3, <4>2 DEF Answer, TypeInv, TypeOK
        <4>3. UNCHANGED req
          BY <3>3, <4>1, <4>2 DEF InsertWpt, StatementFails, Abandon, Vanish,
                                  InsertFails, TypeInv, TypeOK
        <4>4. QED BY <2>2, <3>3, <4>3
      <3>4. CASE pc[s] # "wptInsert" /\ pc'[s] = "wptInsert"
        <4>1. ASSUME NEW st, Answer(s, st) PROVE FALSE
          BY <3>4, <4>1 DEF Answer, TypeInv, TypeOK
        <4>2. ASSUME NEW label \in PC \ {"wptInsert"}, Goto(s, label)
              PROVE  FALSE
          BY <3>4, <4>2 DEF Goto, TypeInv, TypeOK
        <4>3. ~Receive(s)
          BY <3>4 DEF Receive, Started, TypeInv, TypeOK
        <4>4. ~StatementFails(s) /\ ~Abandon(s)
          BY <3>4, <4>1 DEF StatementFails, Abandon, Vanish, TypeInv, TypeOK
        <4>5. ~CreateTrip(s) /\ ~StartDeleteTrip(s) /\ ~DeleteTrip(s)
              /\ ~DeleteWpt(s)
          BY <4>1, <4>2 DEF CreateTrip, StartDeleteTrip, DeleteTrip, DeleteWpt,
                            InsertFails, PC
        <4>6. ~CheckTrip(s) /\ ~CheckLeg(s) /\ ~SelectLegSeq(s)
          BY <4>1, <4>2 DEF CheckTrip, CheckLeg, SelectLegSeq, AfterCheck, PC
        <4>7. ~InsertLeg(s) /\ ~InsertWpt(s)
          BY <3>4, <4>1, <4>2 DEF InsertLeg, InsertWpt, InsertFails, PC
        <4>8. ~ImportWpt(s) /\ ~ImportRoute(s) /\ ~ImportEnds(s) /\ ~Commit(s)
          BY <3>4, <4>1, <4>2
          DEF ImportWpt, ImportRoute, ImportEnds, Commit, InsertFails, PC
        <4>9. QED BY <1>1, <3>1, <4>3, <4>4, <4>5, <4>6, <4>7, <4>8
                  DEF Step, Handle
      <3>5. QED BY <3>2, <3>3, <3>4
    <2>5. QED BY <2>3, <2>4 DEF WriterInv
  <1>2. QED BY <1>0, <1>1 DEF Next, Step

(* The leg of an open import is its user's.                                  *)
LEMMA OpenOwn ==
    ASSUME Inv, NEW s \in Slot, NEW l \in Leg, legs[l].tx = s
    PROVE  /\ legs[l].trip # None /\ Stakeholder(l) = req[s].user
           /\ new[s] = l
  <1> USE DoneAssumption, NoneAssumption DEF Inv, StoreInv
  <1>1. pc[s] \in Open /\ new[s] = l
    BY DEF NoPartialImport, Open
  <1>2. legs[l].trip = req[s].trip /\ owner[req[s].trip] = req[s].user
    BY <1>1 DEF OpenInv, Open
  <1>3. legs[l].trip # None
    BY DEF RowsInv
  <1>4. legs[l].trip \in Trip
    BY <1>3 DEF TypeInv, TypeOK, LegRow
  <1>5. QED BY <1>1, <1>2, <1>3, <1>4 DEF Stakeholder, LegOwner

LEMMA RollbackOwn ==
    ASSUME Inv, NEW s \in Slot, Rollback(s)
    PROVE  WritesOwn(s)
  <1>1. ASSUME NEW l \in Leg, legs'[l] # legs[l]
        PROVE  Stakeholder(l) = req[s].user
    BY <1>1, OpenOwn DEF Rollback
  <1>2. ASSUME NEW w \in Waypoint, wpts'[w] # wpts[w]
        PROVE  \E l \in Leg : /\ l \in {wpts[w].leg, wpts'[w].leg}
                              /\ Stakeholder(l) = req[s].user
    <2>1. wpts[w].tx = s
      BY <1>2 DEF Rollback
    <2>2. wpts[w].leg \in Leg /\ legs[wpts[w].leg].tx = s
      BY <2>1, DoneAssumption
      DEF Inv, StoreInv, RowsInv, NoPartialImport, TypeInv, TypeOK, WptRow
    <2>3. QED BY <2>2, OpenOwn
  <1>3. QED BY <1>1, <1>2 DEF WritesOwn, Rollback

LEMMA WriteStep ==
    ASSUME Inv, WriterInv, NEW s \in Slot, Step(s)
    PROVE  WritesOwn(s)
  <1> USE NoneAssumption, DoneAssumption DEF Inv
  <1>0. CASE UNCHANGED tables
    BY <1>0 DEF tables, WritesOwn
  <1>1. CASE CreateTrip(s)
    <2>1. ASSUME NEW t \in Trip, owner' = [owner EXCEPT ![t] = req[s].user],
                 UNCHANGED <<legs, wpts>>
          PROVE  WritesOwn(s)
      BY <2>1 DEF WritesOwn, TypeInv, TypeOK
    <2>2. QED BY <1>1, <2>1, RollbackOwn DEF CreateTrip, InsertFails
  <1>2. CASE DeleteTrip(s)
    <2>1. PICK t \in Trip : t = req[s].trip
      BY <1>2 DEF DeleteTrip, TypeInv, ReqInv, Incoming, Request
    <2>2. CASE Owns(req[s].user, t) /\ Cascade(t)
      <3>1. owner[t] = req[s].user /\ \A u \in Trip \ {t} : owner'[u] = owner[u]
        BY <2>2 DEF Owns, Cascade, TypeInv, TypeOK
      <3>2. ASSUME NEW l \in Leg, legs[l].trip = t
            PROVE  Stakeholder(l) = req[s].user
        BY <3>1, <3>2 DEF Stakeholder, LegOwner
      <3>3. \A l \in Leg : legs'[l] # legs[l] => legs[l].trip = t
        BY <2>2 DEF Cascade
      <3>4. \A w \in Waypoint : wpts'[w] # wpts[w] =>
              wpts[w].leg \in {l \in Leg : legs[l].trip = t}
        BY <2>2 DEF Cascade
      <3>5. QED BY <3>1, <3>2, <3>3, <3>4 DEF WritesOwn
    <2>3. QED BY <1>0, <1>2, <2>1, <2>2 DEF DeleteTrip
  <1>3. CASE InsertLeg(s)
    <2>1. PICK t \in Trip : t = req[s].trip
      BY <1>3 DEF InsertLeg, TypeInv, ReqInv, Incoming, Request
    <2>2. owner[t] \in {req[s].user, None} /\ seqNo[s] \in Nat
      BY <1>3, <2>1
      DEF InsertLeg, StoreInv, PendingInv, Ready, TypeInv, TypeOK
    <2>3. ASSUME NEW l \in Leg \ drawn, NEW x \in {s, Done}, owner[t] # None,
                 legs' = [legs EXCEPT ![l] = [trip |-> t, seq |-> seqNo[s],
                                              routes |-> 0, tx |-> x]],
                 UNCHANGED <<owner, wpts>>
          PROVE  WritesOwn(s)
      <3>1. legs[l].trip = None
        BY DEF StoreInv, RowsInv
      <3>2. LegOwner(l)' = owner[t]
        BY <2>3 DEF LegOwner, TypeInv, TypeOK
      <3>3. Stakeholder(l) = req[s].user
        BY <2>2, <2>3, <3>1, <3>2 DEF Stakeholder
      <3>4. \A m \in Leg \ {l} : legs'[m] = legs[m]
        BY <2>3 DEF TypeInv, TypeOK
      <3>5. QED BY <2>3, <3>3, <3>4 DEF WritesOwn
    <2>4. QED BY <1>0, <1>3, <2>1, <2>3, RollbackOwn
              DEF InsertLeg, InsertFails
  <1>4. CASE InsertWpt(s)
    <2>1. PICK l \in Leg : l = req[s].leg
      BY <1>4 DEF InsertWpt, TypeInv, ReqInv, Incoming, Request
    <2>2. ASSUME NEW w \in Waypoint, legs[l].trip # None,
                 wpts' = [wpts EXCEPT ![w] =
                            [leg |-> l, seq |-> seqNo[s], tx |-> Done]],
                 UNCHANGED <<owner, legs>>
          PROVE  WritesOwn(s)
      <3>1. Stakeholder(l) = req[s].user
        BY <1>4, <2>1, <2>2 DEF InsertWpt, WriterInv, WriterOK, Stakeholder
      <3>2. wpts'[w].leg = l /\ \A v \in Waypoint \ {w} : wpts'[v] = wpts[v]
        BY <2>2 DEF TypeInv, TypeOK
      <3>3. QED BY <2>2, <3>1, <3>2 DEF WritesOwn
    <2>3. QED BY <1>0, <1>4, <2>1, <2>2, RollbackOwn
              DEF InsertWpt, InsertFails
  <1>5. CASE DeleteWpt(s)
    <2>1. PICK w \in Waypoint : w = req[s].wpt
      BY <1>5 DEF DeleteWpt, TypeInv, ReqInv, Incoming, Request
    <2>2. CASE /\ wpts[w].leg # None /\ LegOwner(wpts[w].leg) = req[s].user
               /\ wpts' = [wpts EXCEPT ![w] = NoWpt]
      <3>1. wpts[w].leg \in Leg /\ legs[wpts[w].leg].trip # None
        BY <2>2 DEF StoreInv, NoOrphans, TypeInv, TypeOK, WptRow
      <3>2. Stakeholder(wpts[w].leg) = req[s].user
        BY <2>2, <3>1 DEF Stakeholder
      <3>3. \A v \in Waypoint \ {w} : wpts'[v] = wpts[v]
        BY <2>2 DEF TypeInv, TypeOK
      <3>4. QED BY <1>5, <3>1, <3>2, <3>3 DEF DeleteWpt, WritesOwn
    <2>3. CASE UNCHANGED wpts
      BY <1>5, <2>3 DEF DeleteWpt, WritesOwn
    <2>4. QED BY <1>5, <2>1, <2>2, <2>3 DEF DeleteWpt
  <1>6. CASE ImportWpt(s)
    <2>1. PICK l \in Leg : l = new[s] /\ legs[l].tx = s
      BY <1>6 DEF ImportWpt, TypeInv, ReqInv, StoreInv, OpenInv
    <2>2. ASSUME NEW w \in Waypoint, NEW n,
                 wpts' = [wpts EXCEPT ![w] =
                            [leg |-> l, seq |-> n, tx |-> s]],
                 UNCHANGED <<owner, legs>>
          PROVE  WritesOwn(s)
      <3>1. wpts'[w].leg = l /\ \A v \in Waypoint \ {w} : wpts'[v] = wpts[v]
        BY <2>2 DEF TypeInv, TypeOK
      <3>2. QED BY <2>1, <2>2, <3>1, OpenOwn DEF WritesOwn
    <2>3. QED BY <1>6, <2>1, <2>2, RollbackOwn DEF ImportWpt, InsertFails
  <1>7. CASE ImportRoute(s)
    <2>1. PICK l \in Leg : l = new[s] /\ legs[l].tx = s
      BY <1>7 DEF ImportRoute, TypeInv, ReqInv, StoreInv, OpenInv
    <2>2. \A m \in Leg \ {l} : legs'[m] = legs[m]
      BY <1>7, <2>1 DEF ImportRoute, TypeInv, TypeOK
    <2>3. Stakeholder(l) = req[s].user
      BY <2>1, OpenOwn
    <2>4. \A m \in Leg : legs'[m] # legs[m] => Stakeholder(m) = req[s].user
      BY <2>2, <2>3
    <2>5. QED BY <1>7, <2>4 DEF ImportRoute, WritesOwn
  <1>8. CASE Commit(s)
    <2>1. \A l \in Leg : legs'[l] # legs[l] => legs[l].tx = s
      BY <1>8 DEF Commit
    <2>2. ASSUME NEW w \in Waypoint, wpts'[w] # wpts[w]
          PROVE  wpts[w].leg \in Leg /\ legs[wpts[w].leg].tx = s
      <3>1. wpts[w].tx = s
        BY <1>8, <2>2 DEF Commit
      <3>2. QED BY <3>1
        DEF StoreInv, RowsInv, NoPartialImport, TypeInv, TypeOK, WptRow
    <2>3. \A l \in Leg : legs[l].tx = s => Stakeholder(l) = req[s].user
      BY OpenOwn
    <2>4. UNCHANGED owner
      BY <1>8 DEF Commit
    <2>5. QED BY <2>1, <2>2, <2>3, <2>4 DEF WritesOwn
  <1>9. CASE ImportEnds(s) \/ StatementFails(s) \/ Abandon(s)
    BY <1>0, <1>9, RollbackOwn
    DEF ImportEnds, StatementFails, Abandon, Vanish
  <1>10. CASE \/ Receive(s) \/ CheckTrip(s) \/ CheckLeg(s)
              \/ StartDeleteTrip(s) \/ SelectLegSeq(s) \/ SelectWptSeq(s)
    BY <1>0, <1>10 DEF Receive, CheckTrip, CheckLeg, StartDeleteTrip,
                       SelectLegSeq, SelectWptSeq
  <1>11. QED
    BY <1>1, <1>2, <1>3, <1>4, <1>5, <1>6, <1>7, <1>8, <1>9, <1>10
    DEF Step, Handle

(* No handler ever changes, adds or removes a row of another user.           *)
THEOREM OnlyOwnersWrite == Spec => OnlyOwnerWrites
  <1> DEFINE Own == \A s \in Slot : pc'[s] # pc[s] \/ todo'[s] # todo[s] =>
                        WritesOwn(s)
  <1>1. Init => WriterInv
    BY DEF Init, WriterInv, WriterOK
  <1>2. Inv /\ Inv' /\ WriterInv /\ [Next]_vars => WriterInv'
    BY WriterStep
  <1>3. Inv /\ WriterInv /\ [Next]_vars => [Own]_vars
    <2> SUFFICES ASSUME Inv, WriterInv, Next, NEW r \in Slot,
                        pc'[r] # pc[r] \/ todo'[r] # todo[r]
                 PROVE  WritesOwn(r)
      OBVIOUS
    <2>1. PICK s \in Slot : Step(s)
      BY DEF Next, Step
    <2>2. r = s
      BY <2>1, StepApart DEF Apart, Inv
    <2>3. QED BY <2>1, <2>2, WriteStep
  <1>4. QED BY <1>1, <1>2, <1>3, InvAlways, PTL DEF Spec, OnlyOwnerWrites
-----------------------------------------------------------------------------
(* A committed leg stays as it is, number and all, until its trip goes; a    *)
(* trip stays with its owner until it goes, and does not come back.         *)
RowsLast ==
    [][/\ \A l \in Leg : legs[l].trip # None /\ legs[l].tx = Done =>
             legs'[l] = legs[l] \/ owner'[legs[l].trip] = None
       /\ \A t \in Trip \cap drawn : owner'[t] \in {owner[t], None}]_vars

LEMMA CommittedLasts ==
    ASSUME Inv, NEW s \in Slot, Step(s),
           NEW l \in Leg, legs[l].trip # None, legs[l].tx = Done
    PROVE  legs'[l] = legs[l] \/ owner'[legs[l].trip] = None
  <1> USE NoneAssumption, DoneAssumption
  <1>1. l \in drawn /\ legs[l].trip \in Trip
    BY DEF Inv, StoreInv, RowsInv, TypeInv, TypeOK, LegRow
  <1>2. CASE Rollback(s)
    BY <1>2 DEF Rollback
  <1>3. CASE UNCHANGED legs
    BY <1>3
  <1>4. CASE InsertLeg(s)
    BY <1>1, <1>2, <1>4
    DEF InsertLeg, InsertFails, tables, Inv, TypeInv, TypeOK
  <1>5. CASE DeleteTrip(s)
    BY <1>1, <1>5 DEF DeleteTrip, Cascade, tables, Inv, TypeInv, TypeOK
  <1>6. CASE ImportRoute(s)
    <2>1. new[s] # l
      BY <1>6 DEF ImportRoute, Inv, StoreInv, OpenInv
    <2>2. QED BY <1>6, <2>1 DEF ImportRoute, Inv, TypeInv, TypeOK
  <1>7. CASE Commit(s)
    BY <1>7 DEF Commit
  <1>8. CASE \/ CreateTrip(s) \/ InsertWpt(s) \/ DeleteWpt(s) \/ ImportWpt(s)
             \/ ImportEnds(s) \/ StatementFails(s) \/ Abandon(s)
    BY <1>2, <1>3, <1>8
    DEF CreateTrip, InsertWpt, DeleteWpt, ImportWpt, ImportEnds, InsertFails,
        StatementFails, Abandon, Vanish, tables
  <1>9. CASE \/ Receive(s) \/ CheckTrip(s) \/ CheckLeg(s)
             \/ StartDeleteTrip(s) \/ SelectLegSeq(s) \/ SelectWptSeq(s)
    BY <1>3, <1>9 DEF Receive, CheckTrip, CheckLeg, StartDeleteTrip,
                      SelectLegSeq, SelectWptSeq, tables
  <1>10. QED BY <1>4, <1>5, <1>6, <1>7, <1>8, <1>9 DEF Step, Handle

LEMMA OwnerLasts ==
    ASSUME Inv, NEW s \in Slot, Step(s), NEW t \in Trip, t \in drawn
    PROVE  owner'[t] \in {owner[t], None}
  <1>1. CASE UNCHANGED owner
    BY <1>1
  <1>2. CASE CreateTrip(s)
    BY <1>2 DEF CreateTrip, InsertFails, Rollback, Inv, TypeInv, TypeOK
  <1>3. CASE DeleteTrip(s)
    BY <1>3 DEF DeleteTrip, Cascade, tables, Inv, TypeInv, TypeOK
  <1>4. CASE \/ InsertLeg(s) \/ InsertWpt(s) \/ DeleteWpt(s) \/ ImportWpt(s)
             \/ ImportRoute(s) \/ ImportEnds(s) \/ Commit(s)
             \/ StatementFails(s) \/ Abandon(s)
    BY <1>1, <1>4
    DEF InsertLeg, InsertWpt, DeleteWpt, ImportWpt, ImportRoute, ImportEnds,
        Commit, StatementFails, Abandon, Vanish, InsertFails, Rollback, tables
  <1>5. CASE \/ Receive(s) \/ CheckTrip(s) \/ CheckLeg(s)
             \/ StartDeleteTrip(s) \/ SelectLegSeq(s) \/ SelectWptSeq(s)
    BY <1>1, <1>5 DEF Receive, CheckTrip, CheckLeg, StartDeleteTrip,
                      SelectLegSeq, SelectWptSeq, tables
  <1>6. QED BY <1>2, <1>3, <1>4, <1>5 DEF Step, Handle

(* No insert that fails, no import that rolls back or ends, and no request   *)
(* of another user touches a leg once it is committed: it goes only with its *)
(* trip, and a trip never changes hands.                                    *)
THEOREM CommittedRowsLast == Spec => RowsLast
  <1> DEFINE Last ==
        /\ \A l \in Leg : legs[l].trip # None /\ legs[l].tx = Done =>
              legs'[l] = legs[l] \/ owner'[legs[l].trip] = None
        /\ \A t \in Trip \cap drawn : owner'[t] \in {owner[t], None}
  <1>1. Inv /\ [Next]_vars => [Last]_vars
    BY CommittedLasts, OwnerLasts DEF Next, Step
  <1>2. QED BY <1>1, InvAlways, PTL DEF Spec, RowsLast
-----------------------------------------------------------------------------
(* Who waits for whom.  A handler under way waits for a connection, which    *)
(* those that hold one keep from it; for the key of its leg, which an open   *)
(* import has written; or for the row of its trip, which one has locked.     *)
UnderWay(s) == pc[s] \notin {"idle", "answered"}

AwaitsConn(s) ==
    /\ pc[s] \in {"tripInsert", "tripDelete", "checkTrip", "checkLeg",
                  "legSelect", "wptSelect", "wptDelete", "items"}
    /\ ~HasConn(s)
KeyWriters(s) ==
    {legs[l].tx : l \in LegSeqTaken(req[s].trip, seqNo[s])} \ {Done}
RowLockers(s) ==
    {legs[l].tx : l \in {m \in Leg : legs[m].trip = req[s].trip}} \ {Done}

AwaitsKey(s) == pc[s] = "legInsert" /\ KeyWriters(s) # {}
AwaitsRow(s) == /\ pc[s] = "deleting" /\ Owns(req[s].user, req[s].trip)
                /\ RowLockers(s) # {}

WaitsFor(s, r) ==
    \/ AwaitsConn(s) /\ r \in Slot /\ Holds(r)
    \/ AwaitsKey(s) /\ r \in KeyWriters(s)
    \/ AwaitsRow(s) /\ r \in RowLockers(s)
Waits(s) == AwaitsConn(s) \/ AwaitsKey(s) \/ AwaitsRow(s)

(* Whoever waits, waits for handlers that are under way; each of them goes   *)
(* on, or waits for imports only, which all go on.                           *)
WaitsEnd ==
    \A s \in Slot : Waits(s) =>
        /\ \E r \in Slot : WaitsFor(s, r)
        /\ \A r : WaitsFor(s, r) =>
              /\ r \in Slot /\ UnderWay(r)
              /\ \A q : WaitsFor(r, q) =>
                    q \in Slot /\ UnderWay(q) /\ ~Waits(q)

LEMMA ImportsGoOn ==
    ASSUME Inv, NEW s \in Slot, NEW r, r \in KeyWriters(s) \cup RowLockers(s)
    PROVE  r \in Slot /\ UnderWay(r) /\ ~Waits(r)
  <1>1. PICK l \in Leg : legs[l].tx = r /\ r # Done
    BY DEF KeyWriters, LegSeqTaken, RowLockers
  <1>2. r \in Slot /\ pc[r] \in {"items", "commit"}
    BY <1>1 DEF Inv, TypeInv, TypeOK, LegRow, StoreInv, NoPartialImport
  <1>3. QED
    BY <1>2 DEF UnderWay, Waits, AwaitsConn, AwaitsKey, AwaitsRow, HasConn,
                Holds

LEMMA HoldersGoOn ==
    ASSUME Inv, NEW r \in Slot, Holds(r)
    PROVE  /\ UnderWay(r)
           /\ \A q : WaitsFor(r, q) =>
                 q \in Slot /\ UnderWay(q) /\ ~Waits(q)
  <1>1. UnderWay(r) /\ ~AwaitsConn(r)
    BY DEF Holds, UnderWay, AwaitsConn, HasConn
  <1>2. QED BY <1>1, ImportsGoOn DEF WaitsFor

(* A full pool is held by somebody.                                          *)
LEMMA PoolHeld == ~FreeConn => \E r \in Slot : Holds(r)
  <1>1. CASE {s \in Slot : Holds(s)} = {}
    <2>1. Cardinality({s \in Slot : Holds(s)}) = 0
      BY <1>1, FS_EmptySet
    <2>2. QED BY <2>1, PoolAssumption DEF FreeConn
  <1>2. QED BY <1>1

LEMMA InvWaitsEnd == Inv => WaitsEnd
  <1> SUFFICES ASSUME Inv, NEW s \in Slot, Waits(s)
               PROVE  /\ \E r \in Slot : WaitsFor(s, r)
                      /\ \A r : WaitsFor(s, r) =>
                            /\ r \in Slot /\ UnderWay(r)
                            /\ \A q : WaitsFor(r, q) =>
                                  q \in Slot /\ UnderWay(q) /\ ~Waits(q)
    BY DEF WaitsEnd
  <1>1. \E r \in Slot : WaitsFor(s, r)
    <2>1. CASE AwaitsConn(s)
      BY <2>1, PoolHeld DEF AwaitsConn, HasConn, WaitsFor
    <2>2. CASE AwaitsKey(s)
      BY <2>2, ImportsGoOn DEF AwaitsKey, WaitsFor
    <2>3. CASE AwaitsRow(s)
      BY <2>3, ImportsGoOn DEF AwaitsRow, WaitsFor
    <2>4. QED BY <2>1, <2>2, <2>3 DEF Waits
  <1>2. ASSUME NEW r, WaitsFor(s, r)
        PROVE  /\ r \in Slot /\ UnderWay(r)
               /\ \A q : WaitsFor(r, q) =>
                     q \in Slot /\ UnderWay(q) /\ ~Waits(q)
    <2>1. CASE r \in Slot /\ Holds(r)
      BY <2>1, HoldersGoOn
    <2>2. CASE r \in KeyWriters(s) \cup RowLockers(s)
      BY <2>2, ImportsGoOn DEF WaitsFor, Waits
    <2>3. QED BY <1>2, <2>1, <2>2 DEF WaitsFor
  <1>3. QED BY <1>1, <1>2

(* The pool, the keys of open imports and the rows they lock never make      *)
(* handlers wait for each other: whoever waits, waits for one that goes on,  *)
(* at once or after an import that goes on.                                  *)
THEOREM NobodyWaitsInACircle == Spec => []WaitsEnd
  BY InvAlways, InvWaitsEnd, PTL

-----------------------------------------------------------------------------
(* The refinement of TripBook: every statement of every handler changes the  *)
(* committed rows as one request on the book does, or not at all.            *)

(* A finite set of positive numbers with everything below each of them is    *)
(* the first so many numbers.                                                *)
LEMMA InitialSegment ==
    ASSUME NEW S, IsFiniteSet(S), S \subseteq Nat \ {0},
           \A k \in S : 1 .. k \subseteq S
    PROVE  Cardinality(S) \in Nat /\ S = 1 .. Cardinality(S)
  <1> DEFINE n == Cardinality(S)
  <1>1. n \in Nat
    BY FS_CardinalityType
  <1>2. IsFiniteSet(1 .. n) /\ Cardinality(1 .. n) = n
    BY <1>1, FS_Interval
  <1>3. ASSUME NEW k \in S PROVE k \in 1 .. n
    <2>1. k \in Nat /\ k > 0
      OBVIOUS
    <2>2. Cardinality(1 .. k) = k
      BY <2>1, FS_Interval
    <2>3. Cardinality(1 .. k) <= Cardinality(S)
      BY <2>1, FS_Subset
    <2>4. QED BY <1>1, <2>1, <2>2, <2>3
  <1>4. S \subseteq 1 .. n
    BY <1>3
  <1>5. QED BY <1>1, <1>2, <1>4, FS_Subset

(* What Inv says too little of for the book: identifiers handed out so far   *)
(* are finitely many, and a leg never has more routes than its file.         *)
ItemsInv ==
    /\ IsFiniteSet(drawn)
    /\ \A s \in Slot : pc[s] \in Open =>
          legs[new[s]].routes + Len(todo[s]) <= MaxItems

(* The leg of an open import is out of reach of every other handler.         *)
LEMMA OpenLegStays ==
    ASSUME Inv, NEW s \in Slot, Step(s),
           NEW l \in Leg, legs[l].tx \in Slot \ {s}
    PROVE  legs'[l] = legs[l]
  <1> USE NoneAssumption, DoneAssumption
  <1>1. l \in drawn /\ legs[l].tx # Done
    BY DEF Inv, StoreInv, RowsInv
  <1>2. CASE Rollback(s)
    BY <1>2 DEF Rollback
  <1>3. CASE UNCHANGED legs
    BY <1>3
  <1>4. CASE InsertLeg(s)
    BY <1>1, <1>2, <1>4
    DEF InsertLeg, InsertFails, tables, Inv, TypeInv, TypeOK
  <1>5. CASE DeleteTrip(s)
    BY <1>1, <1>5 DEF DeleteTrip, Cascade, Locked, tables
  <1>6. CASE ImportRoute(s)
    <2>1. new[s] # l
      BY <1>6 DEF ImportRoute, Inv, StoreInv, OpenInv
    <2>2. QED BY <1>6, <2>1 DEF ImportRoute, Inv, TypeInv, TypeOK
  <1>7. CASE Commit(s)
    BY <1>7 DEF Commit
  <1>8. CASE \/ CreateTrip(s) \/ InsertWpt(s) \/ DeleteWpt(s) \/ ImportWpt(s)
             \/ ImportEnds(s) \/ StatementFails(s) \/ Abandon(s)
    BY <1>2, <1>3, <1>8
    DEF CreateTrip, InsertWpt, DeleteWpt, ImportWpt, ImportEnds, InsertFails,
        StatementFails, Abandon, Vanish, tables
  <1>9. CASE \/ Receive(s) \/ CheckTrip(s) \/ CheckLeg(s)
             \/ StartDeleteTrip(s) \/ SelectLegSeq(s) \/ SelectWptSeq(s)
    BY <1>3, <1>9 DEF Receive, CheckTrip, CheckLeg, StartDeleteTrip,
                      SelectLegSeq, SelectWptSeq, tables
  <1>10. QED BY <1>4, <1>5, <1>6, <1>7, <1>8, <1>9 DEF Step, Handle

(* A step draws at most one identifier.                                      *)
LEMMA DrawnStep ==
    ASSUME NEW s \in Slot, Step(s)
    PROVE  drawn' = drawn \/ \E x : drawn' = drawn \cup {x}
  <1>1. CASE CreateTrip(s)
    BY <1>1 DEF CreateTrip, InsertFails, Rollback
  <1>2. CASE InsertLeg(s)
    BY <1>2 DEF InsertLeg, InsertFails, Rollback, tables
  <1>3. CASE InsertWpt(s)
    BY <1>3 DEF InsertWpt, InsertFails, Rollback, tables
  <1>4. CASE ImportWpt(s)
    BY <1>4 DEF ImportWpt, InsertFails, Rollback
  <1>5. CASE \/ ImportRoute(s) \/ ImportEnds(s) \/ Commit(s) \/ DeleteWpt(s)
             \/ DeleteTrip(s) \/ StatementFails(s) \/ Abandon(s)
    BY <1>5 DEF ImportRoute, ImportEnds, Commit, DeleteWpt, DeleteTrip,
                StatementFails, Abandon, Vanish, Rollback, tables
  <1>6. CASE \/ Receive(s) \/ CheckTrip(s) \/ CheckLeg(s)
             \/ StartDeleteTrip(s) \/ SelectLegSeq(s) \/ SelectWptSeq(s)
    BY <1>6 DEF Receive, CheckTrip, CheckLeg, StartDeleteTrip,
                SelectLegSeq, SelectWptSeq, tables
  <1>7. QED BY <1>1, <1>2, <1>3, <1>4, <1>5, <1>6 DEF Step, Handle

LEMMA ItemsStep ==
    ASSUME Inv, Inv', ItemsInv, [Next]_vars
    PROVE  ItemsInv'
  <1>0. CASE UNCHANGED vars
    BY <1>0 DEF vars, ItemsInv
  <1>1. ASSUME NEW s \in Slot, Step(s) PROVE ItemsInv'
    <2> USE DEF Inv, CarriedOut
    <2>1. IsFiniteSet(drawn)'
      <3>1. \A x : IsFiniteSet(drawn \cup {x})
        BY FS_AddElement DEF ItemsInv
      <3>2. QED BY <1>1, <3>1, DrawnStep DEF ItemsInv
    <2>2. ASSUME NEW r \in Slot \ {s}, pc'[r] \in Open
          PROVE  legs'[new'[r]].routes + Len(todo'[r]) <= MaxItems
      <3>1. pc'[r] = pc[r] /\ new'[r] = new[r] /\ todo'[r] = todo[r]
        BY <1>1, StepApart DEF Apart
      <3>2. new[r] \in Leg /\ legs[new[r]].tx = r
        BY <2>2, <3>1 DEF TypeInv, ReqInv, StoreInv, OpenInv, Open
      <3>3. legs'[new[r]] = legs[new[r]]
        BY <1>1, <3>2, OpenLegStays
      <3>4. QED BY <2>2, <3>1, <3>3 DEF ItemsInv
    <2>3. ASSUME pc'[s] \in Open
          PROVE  legs'[new'[s]].routes + Len(todo'[s]) <= MaxItems
      <3>0. ASSUME NEW st, Answer(s, st) PROVE FALSE
        BY <2>3, <3>0 DEF Answer, Open, TypeInv, TypeOK
      <3>1. CASE InsertLeg(s)
        <4>1. ASSUME NEW l \in Leg, new' = [new EXCEPT ![s] = l],
                     req[s].op = "importGpx",
                     legs' = [legs EXCEPT ![l] =
                                [trip |-> req[s].trip, seq |-> seqNo[s],
                                 routes |-> 0, tx |-> s]],
                     todo' = [todo EXCEPT ![s] = req[s].file]
              PROVE  legs'[new'[s]].routes + Len(todo'[s]) <= MaxItems
          <5>1. req[s].file \in File
            BY <3>1, <4>1 DEF InsertLeg, TypeInv, ReqInv, Incoming, Request
          <5>2. /\ req[s].file \in Seq(Item)
                /\ Len(req[s].file) \in Nat /\ Len(req[s].file) <= MaxItems
            BY <5>1, FileAssumption
          <5>3. legs'[new'[s]].routes = 0 /\ todo'[s] = req[s].file
            BY <4>1 DEF TypeInv, TypeOK
          <5>4. QED BY <5>2, <5>3
        <4>2. QED BY <3>0, <3>1, <4>1 DEF InsertLeg, InsertFails
      <3>2. CASE pc[s] = "items"
        <4>1. new[s] \in Leg /\ legs[new[s]].tx = s
          BY <3>2 DEF TypeInv, ReqInv, StoreInv, OpenInv
        <4>2. /\ todo[s] \in Seq(Item) /\ legs[new[s]].routes \in Nat
              /\ legs[new[s]].routes + Len(todo[s]) <= MaxItems
          BY <3>2, <4>1 DEF ItemsInv, Open, TypeInv, TypeOK, LegRow
        <4>3. \/ ImportWpt(s) \/ ImportRoute(s) \/ ImportEnds(s)
              \/ StatementFails(s) \/ Abandon(s)
          BY <1>1, <3>2
          DEF Step, Receive, Handle, CreateTrip, StartDeleteTrip, DeleteTrip,
              CheckTrip, CheckLeg, SelectLegSeq, SelectWptSeq, InsertLeg,
              InsertWpt, DeleteWpt, Commit
        <4>4. CASE ImportWpt(s)
          <5>1. /\ todo[s] # <<>> /\ legs' = legs /\ new' = new
                /\ todo' = [todo EXCEPT ![s] = Tail(todo[s])]
            BY <3>0, <4>4 DEF ImportWpt, InsertFails
          <5>2. Len(todo'[s]) = Len(todo[s]) - 1 /\ Len(todo[s]) \in Nat
            BY <4>2, <5>1 DEF TypeInv, TypeOK
          <5>3. QED BY <4>2, <5>1, <5>2, MaxItemsAssumption
        <4>5. CASE ImportRoute(s)
          <5>1. /\ todo[s] # <<>> /\ new' = new
                /\ todo' = [todo EXCEPT ![s] = Tail(todo[s])]
                /\ legs'[new[s]].routes = legs[new[s]].routes + 1
            BY <4>1, <4>5 DEF ImportRoute, TypeInv, TypeOK
          <5>2. Len(todo'[s]) = Len(todo[s]) - 1 /\ Len(todo[s]) \in Nat
            BY <4>2, <5>1 DEF TypeInv, TypeOK
          <5>3. QED BY <4>2, <5>1, <5>2, MaxItemsAssumption
        <4>6. CASE ImportEnds(s)
          BY <3>0, <4>2, <4>6 DEF ImportEnds, tables, locals
        <4>7. CASE StatementFails(s) \/ Abandon(s)
          <5>1. ~Vanish(s)
            BY <2>3 DEF Vanish, Open, TypeInv, TypeOK
          <5>2. QED BY <3>0, <3>2, <4>7, <5>1
                    DEF StatementFails, Abandon, InFlight
        <4>8. QED BY <4>3, <4>4, <4>5, <4>6, <4>7
      <3>3. CASE pc[s] = "commit"
        <4>1. Commit(s) \/ StatementFails(s) \/ Abandon(s)
          BY <1>1, <3>3
          DEF Step, Receive, Handle, CreateTrip, StartDeleteTrip, DeleteTrip,
              CheckTrip, CheckLeg, SelectLegSeq, SelectWptSeq, InsertLeg,
              InsertWpt, DeleteWpt, ImportWpt, ImportRoute, ImportEnds
        <4>2. ~Vanish(s)
          BY <2>3 DEF Vanish, Open, TypeInv, TypeOK
        <4>3. UNCHANGED <<legs, new, todo>>
          BY <3>0, <4>1, <4>2 DEF Commit, StatementFails, Abandon, tables
        <4>4. QED BY <3>3, <4>3 DEF ItemsInv, Open
      <3>4. CASE pc[s] \notin Open /\ ~InsertLeg(s)
        <4>1. ASSUME NEW label \in PC \ Open, Goto(s, label) PROVE FALSE
          BY <2>3, <4>1 DEF Goto, TypeInv, TypeOK
        <4>2. ~Receive(s)
          BY <2>3 DEF Receive, Started, Open, TypeInv, TypeOK
        <4>3. ~StatementFails(s) /\ ~Abandon(s)
          BY <2>3, <3>0, <3>4 DEF StatementFails, Abandon, Vanish, TypeInv,
                                  TypeOK, Open
        <4>4. ~CreateTrip(s) /\ ~StartDeleteTrip(s) /\ ~DeleteTrip(s)
              /\ ~DeleteWpt(s) /\ ~InsertWpt(s)
          BY <3>0, <4>1 DEF CreateTrip, StartDeleteTrip, DeleteTrip, DeleteWpt,
                            InsertWpt, InsertFails, PC, Open
        <4>5. ~CheckTrip(s) /\ ~CheckLeg(s) /\ ~SelectLegSeq(s)
              /\ ~SelectWptSeq(s)
          BY <3>0, <4>1 DEF CheckTrip, CheckLeg, SelectLegSeq, SelectWptSeq,
                            AfterCheck, PC, Open
        <4>6. ~ImportWpt(s) /\ ~ImportRoute(s) /\ ~ImportEnds(s) /\ ~Commit(s)
          BY <3>4 DEF ImportWpt, ImportRoute, ImportEnds, Commit, Open
        <4>7. QED BY <1>1, <3>4, <4>2, <4>3, <4>4, <4>5, <4>6
                  DEF Step, Handle
      <3>5. QED BY <3>1, <3>2, <3>3, <3>4 DEF Open
    <2>4. QED BY <2>1, <2>2, <2>3 DEF ItemsInv
  <1>2. QED BY <1>0, <1>1 DEF Next, Step

LEMMA ItemsAlways == Spec => [](Inv /\ ItemsInv)
  <1>1. Init => ItemsInv
    BY FS_EmptySet DEF Init, ItemsInv, Open
  <1>2. Inv /\ Inv' /\ ItemsInv /\ [Next]_vars => ItemsInv'
    BY ItemsStep
  <1>3. QED BY <1>1, <1>2, InvAlways, PTL DEF Spec
-----------------------------------------------------------------------------
(* The statements that a handler still makes, at most.                       *)
StatementsLeft(s) ==
    CASE pc[s] \in {"idle", "answered"} -> 0
      [] pc[s] \in {"tripInsert", "deleting", "wptInsert", "wptDelete",
                    "commit"} -> 1
      [] pc[s] \in {"tripDelete", "wptSelect"} -> 2
      [] pc[s] = "checkLeg" -> 3
      [] pc[s] = "items" -> Len(todo[s]) + 2
      [] pc[s] = "legInsert" -> MaxItems + 3
      [] pc[s] = "legSelect" -> MaxItems + 4
      [] pc[s] = "checkTrip" -> MaxItems + 5

(* A handler has MaxItems + 5 statements to make at most.  Every one that it *)
(* makes leaves fewer, and nothing but a new request leaves it more.         *)
StatementsCount ==
    [][\A s \in Slot :
          /\ StatementsLeft(s) <= MaxItems + 5
          /\ Handle(s) => StatementsLeft(s)' < StatementsLeft(s)
          /\ ~Receive(s) => StatementsLeft(s)' <= StatementsLeft(s)]_vars

LeftOK ==
    \A s \in Slot :
       /\ StatementsLeft(s) \in 0 .. MaxItems + 5
       /\ StatementsLeft(s) = 0 <=> ~UnderWay(s)
       /\ pc[s] = "items" => Len(todo[s]) \in 0 .. MaxItems

LEMMA LeftBound == TypeInv /\ ItemsInv => LeftOK
  <1> SUFFICES ASSUME TypeInv, ItemsInv, NEW s \in Slot
               PROVE  /\ StatementsLeft(s) \in 0 .. MaxItems + 5
                      /\ StatementsLeft(s) = 0 <=> ~UnderWay(s)
                      /\ pc[s] = "items" => Len(todo[s]) \in 0 .. MaxItems
    BY DEF LeftOK
  <1>1. ASSUME pc[s] = "items" PROVE Len(todo[s]) \in 0 .. MaxItems
    <2>1. todo[s] \in Seq(Item) /\ new[s] \in Leg
      BY <1>1 DEF TypeInv, TypeOK, ReqInv
    <2>2. Len(todo[s]) \in Nat /\ legs[new[s]].routes \in Nat
      BY <2>1 DEF TypeInv, TypeOK, LegRow
    <2>3. legs[new[s]].routes + Len(todo[s]) <= MaxItems
      BY <1>1 DEF ItemsInv, Open
    <2>4. QED BY <2>2, <2>3, MaxItemsAssumption
  <1>2. pc[s] \in PC
    BY DEF TypeInv, TypeOK
  <1>3. QED BY <1>1, <1>2, MaxItemsAssumption DEF StatementsLeft, UnderWay, PC

LEMMA LeftBoundNext == TypeInv' /\ ItemsInv' => LeftOK'
  BY LeftBound, PTL

(* An answer, of whatever kind, is the end of the request.                   *)
LEMMA AnswerEnds ==
    ASSUME TypeInv, NEW s \in Slot, NEW st, Answer(s, st)
    PROVE  StatementsLeft(s)' = 0
  <1>1. pc'[s] \in {"idle", "answered"}
    BY DEF Answer, TypeInv, TypeOK
  <1>2. QED BY <1>1 DEF StatementsLeft

LEMMA GotoLeaves ==
    ASSUME TypeInv, NEW s \in Slot, NEW label, Goto(s, label)
    PROVE  pc'[s] = label
  BY DEF Goto, TypeInv, TypeOK

LEMMA HandleCounts ==
    ASSUME TypeInv, ItemsInv, TypeInv', ItemsInv', NEW s \in Slot, Handle(s)
    PROVE  StatementsLeft(s)' < StatementsLeft(s)
  <1> USE DEF CarriedOut
  <1>0. UnderWay(s)
    BY DEF Handle, CreateTrip, StartDeleteTrip, DeleteTrip, CheckTrip,
           CheckLeg, SelectLegSeq, SelectWptSeq, InsertLeg, InsertWpt,
           DeleteWpt, ImportWpt, ImportRoute, ImportEnds, Commit, UnderWay
  <1>1. StatementsLeft(s) > 0 /\ StatementsLeft(s) \in Nat
    BY <1>0, LeftBound, MaxItemsAssumption DEF LeftOK
  <1>2. CASE \E st : Answer(s, st)
    BY <1>1, <1>2, AnswerEnds
  <1>3. CASE StartDeleteTrip(s)
    BY <1>3, GotoLeaves DEF StartDeleteTrip, StatementsLeft
  <1>4. CASE CheckTrip(s) /\ ~\E st : Answer(s, st)
    BY <1>4, GotoLeaves, MaxItemsAssumption
    DEF CheckTrip, AfterCheck, StatementsLeft
  <1>5. CASE CheckLeg(s) /\ ~\E st : Answer(s, st)
    BY <1>5, GotoLeaves DEF CheckLeg, StatementsLeft
  <1>6. CASE SelectLegSeq(s) /\ ~\E st : Answer(s, st)
    BY <1>6, GotoLeaves, MaxItemsAssumption DEF SelectLegSeq, StatementsLeft
  <1>7. CASE SelectWptSeq(s) /\ ~\E st : Answer(s, st)
    BY <1>7, GotoLeaves DEF SelectWptSeq, StatementsLeft
  <1>8. CASE InsertLeg(s) /\ ~\E st : Answer(s, st)
    <2>1. pc[s] = "legInsert" /\ pc'[s] = "items"
      BY <1>8, GotoLeaves DEF InsertLeg, InsertFails
    <2>2. Len(todo'[s]) \in 0 .. MaxItems
      BY <2>1, LeftBoundNext DEF LeftOK
    <2>3. QED BY <2>1, <2>2, MaxItemsAssumption DEF StatementsLeft
  <1>9. CASE /\ ImportWpt(s) \/ ImportRoute(s)
             /\ ~\E st : Answer(s, st)
    <2>1. /\ pc[s] = "items" /\ pc' = pc /\ todo[s] # <<>>
          /\ todo' = [todo EXCEPT ![s] = Tail(todo[s])]
      BY <1>9 DEF ImportWpt, ImportRoute, InsertFails
    <2>2. todo[s] \in Seq(Item)
      BY DEF TypeInv, TypeOK
    <2>3. Len(todo'[s]) = Len(todo[s]) - 1 /\ Len(todo[s]) \in Nat
      BY <2>1, <2>2 DEF TypeInv, TypeOK
    <2>4. QED BY <2>1, <2>3 DEF StatementsLeft
  <1>10. CASE ImportEnds(s) /\ ~\E st : Answer(s, st)
    <2>1. pc[s] = "items" /\ pc'[s] = "commit"
      BY <1>10, GotoLeaves DEF ImportEnds
    <2>2. Len(todo[s]) \in Nat
      BY <2>1, LeftBound DEF LeftOK
    <2>3. QED BY <2>1, <2>2 DEF StatementsLeft
  <1>11. CASE \/ CreateTrip(s) \/ DeleteTrip(s) \/ InsertWpt(s)
              \/ DeleteWpt(s) \/ Commit(s)
    BY <1>2, <1>11
    DEF CreateTrip, DeleteTrip, InsertWpt, DeleteWpt, Commit, InsertFails
  <1>12. QED
    BY <1>2, <1>3, <1>4, <1>5, <1>6, <1>7, <1>8, <1>9, <1>10, <1>11
    DEF Handle

LEMMA StepCounts ==
    ASSUME Inv, ItemsInv, Inv', ItemsInv', NEW r \in Slot, Step(r),
           NEW s \in Slot, ~Receive(s)
    PROVE  StatementsLeft(s)' <= StatementsLeft(s)
  <1>0. StatementsLeft(s) \in Nat
    BY LeftBound, MaxItemsAssumption DEF Inv, LeftOK
  <1>1. ASSUME pc'[s] = pc[s], todo'[s] = todo[s]
        PROVE  StatementsLeft(s)' = StatementsLeft(s)
    BY <1>1 DEF StatementsLeft
  <1>2. CASE s # r
    BY <1>0, <1>1, <1>2, StepApart DEF Inv, Apart
  <1>3. CASE s = r /\ Handle(s)
    <2>1. StatementsLeft(s)' \in Nat
      BY LeftBoundNext, MaxItemsAssumption DEF Inv, LeftOK
    <2>2. QED BY <1>0, <1>3, <2>1, HandleCounts DEF Inv
  <1>4. CASE StatementFails(s)
    BY <1>0, <1>4, AnswerEnds DEF StatementFails, Inv
  <1>5. CASE Abandon(s)
    <2>1. CASE Vanish(s)
      <3>1. pc'[s] = "idle"
        BY <2>1 DEF Vanish, Inv, TypeInv, TypeOK
      <3>2. StatementsLeft(s)' = 0
        BY <3>1 DEF StatementsLeft
      <3>3. QED BY <1>0, <3>2
    <2>2. QED BY <1>0, <1>1, <1>5, <2>1 DEF Abandon
  <1>6. QED BY <1>2, <1>3, <1>4, <1>5 DEF Step

(* However its statements interleave with those of others, a handler makes   *)
(* MaxItems + 5 of them at most for a request: none that it makes, that      *)
(* fails or that it waits for makes it begin again.                          *)
THEOREM RequestsTakeBoundedStatements == Spec => StatementsCount
  <1> DEFINE Counts ==
        \A s \in Slot :
          /\ StatementsLeft(s) <= MaxItems + 5
          /\ Handle(s) => StatementsLeft(s)' < StatementsLeft(s)
          /\ ~Receive(s) => StatementsLeft(s)' <= StatementsLeft(s)
  <1>1. Inv /\ ItemsInv /\ Inv' /\ ItemsInv' /\ [Next]_vars => [Counts]_vars
    <2> SUFFICES ASSUME Inv, ItemsInv, Inv', ItemsInv', Next, NEW s \in Slot
                 PROVE  /\ StatementsLeft(s) <= MaxItems + 5
                        /\ Handle(s) =>
                             StatementsLeft(s)' < StatementsLeft(s)
                        /\ ~Receive(s) =>
                             StatementsLeft(s)' <= StatementsLeft(s)
      OBVIOUS
    <2>1. StatementsLeft(s) <= MaxItems + 5
      BY LeftBound, MaxItemsAssumption DEF Inv, LeftOK
    <2>2. Handle(s) => StatementsLeft(s)' < StatementsLeft(s)
      BY HandleCounts DEF Inv
    <2>3. PICK r \in Slot : Step(r)
      BY DEF Next, Step
    <2>4. QED BY <2>1, <2>2, <2>3, StepCounts
  <1>2. QED BY <1>1, ItemsAlways, PTL DEF Spec, StatementsCount

-----------------------------------------------------------------------------
(* The committed legs of a trip stand on its page in the order of their      *)
(* numbers, each at a place of its own.                                      *)
Shelf ==
    \A t \in Trip :
        /\ Length(t) \in Nat /\ CommittedSeqs(t) = 1 .. Length(t)
        /\ \A i \in 1 .. Length(t) :
              /\ LegAt(t, i) \in Leg /\ Committed(LegAt(t, i), t)
              /\ legs[LegAt(t, i)].seq = i
        /\ \A l \in Leg : Committed(l, t) =>
              legs[l].seq \in 1 .. Length(t) /\ LegAt(t, legs[l].seq) = l

LEMMA SeqsFinite ==
    ASSUME Inv, ItemsInv, NEW t \in Trip
    PROVE  IsFiniteSet(CommittedSeqs(t))
  <1> DEFINE L == {l \in Leg : Committed(l, t)}
             f == [l \in L |-> legs[l].seq]
  <1>1. L \subseteq drawn
    BY NoneAssumption DEF Inv, StoreInv, RowsInv, Committed
  <1>2. IsFiniteSet(L)
    BY <1>1, FS_Subset DEF ItemsInv
  <1>3. f \in Surjection(L, CommittedSeqs(t))
    BY DEF Surjection, CommittedSeqs, Committed
  <1>4. QED BY <1>2, <1>3, FS_Surjection

LEMMA ShelfInv == Inv /\ ItemsInv => Shelf
  <1> SUFFICES ASSUME Inv, ItemsInv, NEW t \in Trip
               PROVE  /\ Length(t) \in Nat /\ CommittedSeqs(t) = 1 .. Length(t)
                      /\ \A i \in 1 .. Length(t) :
                            /\ LegAt(t, i) \in Leg
                            /\ Committed(LegAt(t, i), t)
                            /\ legs[LegAt(t, i)].seq = i
                      /\ \A l \in Leg : Committed(l, t) =>
                            /\ legs[l].seq \in 1 .. Length(t)
                            /\ LegAt(t, legs[l].seq) = l
    BY DEF Shelf
  <1>1. CommittedSeqs(t) = {legs[l].seq : l \in {m \in Leg : Committed(m, t)}}
    BY DEF CommittedSeqs, Committed
  <1>2. \A l \in Leg : Committed(l, t) =>
          /\ legs[l].seq \in Nat \ {0}
          /\ 1 .. legs[l].seq - 1 \subseteq CommittedSeqs(t)
          /\ LegSeqTaken(t, legs[l].seq) = {l}
    <2> SUFFICES ASSUME NEW l \in Leg, Committed(l, t)
                 PROVE  /\ legs[l].seq \in Nat \ {0}
                        /\ 1 .. legs[l].seq - 1 \subseteq CommittedSeqs(t)
                        /\ LegSeqTaken(t, legs[l].seq) = {l}
      OBVIOUS
    <2>1. legs[l].seq \in Nat /\ legs[l].trip = t /\ t # None
      BY NoneAssumption DEF Committed, Inv, TypeInv, TypeOK, LegRow
    <2>2. QED BY <2>1 DEF Inv, StoreInv, LegsNumbered
  <1>3. Length(t) \in Nat /\ CommittedSeqs(t) = 1 .. Length(t)
    <2>1. CommittedSeqs(t) \subseteq Nat \ {0}
      BY <1>1, <1>2
    <2>2. ASSUME NEW k \in CommittedSeqs(t)
          PROVE  1 .. k \subseteq CommittedSeqs(t)
      <3>1. PICK l \in Leg : Committed(l, t) /\ legs[l].seq = k
        BY <1>1
      <3>2. QED BY <1>2, <2>1, <3>1
    <2>3. QED BY <2>1, <2>2, SeqsFinite, InitialSegment DEF Length
  <1>4. ASSUME NEW i \in 1 .. Length(t)
        PROVE  /\ LegAt(t, i) \in Leg /\ Committed(LegAt(t, i), t)
               /\ legs[LegAt(t, i)].seq = i
    <2>1. \E l \in Leg : Committed(l, t) /\ legs[l].seq = i
      BY <1>1, <1>3
    <2>2. QED BY <2>1 DEF LegAt
  <1>5. ASSUME NEW l \in Leg, Committed(l, t)
        PROVE  legs[l].seq \in 1 .. Length(t) /\ LegAt(t, legs[l].seq) = l
    <2>1. legs[l].seq \in 1 .. Length(t)
      BY <1>1, <1>3, <1>5
    <2>2. PICK m \in Leg : m = LegAt(t, legs[l].seq) /\ Committed(m, t)
                           /\ legs[m].seq = legs[l].seq
      BY <1>4, <2>1
    <2>3. m \in LegSeqTaken(t, legs[l].seq)
      BY <2>2 DEF LegSeqTaken, Committed
    <2>4. QED BY <1>2, <1>5, <2>1, <2>2, <2>3
  <1>6. QED BY <1>3, <1>4, <1>5

(* What keeps the places of the legs of a trip, and what keeps its page.     *)
SamePlaces(t) ==
    \A l \in Leg : /\ Committed(l, t)' <=> Committed(l, t)
                   /\ Committed(l, t) => legs'[l].seq = legs[l].seq

SameLegs(t) ==
    SamePlaces(t) /\ \A l \in Leg : Committed(l, t) => UNCHANGED Contents(l)

LEMMA PlacesKept ==
    ASSUME Shelf, Shelf', NEW t \in Trip, SamePlaces(t)
    PROVE  /\ Length(t)' = Length(t)
           /\ \A i \in 1 .. Length(t) : LegAt(t, i)' = LegAt(t, i)
  <1>1. CommittedSeqs(t)' = CommittedSeqs(t)
    <2>1. CommittedSeqs(t) = {legs[l].seq : l \in {m \in Leg : Committed(m, t)}}
      BY DEF CommittedSeqs, Committed
    <2>2. CommittedSeqs(t)' =
            {legs'[l].seq : l \in {m \in Leg : Committed(m, t)'}}
      BY DEF CommittedSeqs, Committed
    <2>3. QED BY <2>1, <2>2 DEF SamePlaces
  <1>2. ASSUME NEW i \in 1 .. Length(t) PROVE LegAt(t, i)' = LegAt(t, i)
    <2>1. PICK l \in Leg : /\ l = LegAt(t, i) /\ Committed(l, t)
                           /\ legs[l].seq = i
      BY DEF Shelf
    <2>2. Committed(l, t)' /\ legs'[l].seq = i
      BY <2>1 DEF SamePlaces
    <2>3. QED BY <2>1, <2>2 DEF Shelf
  <1>3. QED BY <1>1, <1>2 DEF Length

LEMMA PageKept ==
    ASSUME Shelf, Shelf', NEW t \in Trip, SameLegs(t), owner'[t] = owner[t]
    PROVE  Page(t)' = Page(t)
  <1>1. /\ Length(t)' = Length(t)
        /\ \A i \in 1 .. Length(t) : LegAt(t, i)' = LegAt(t, i)
    BY PlacesKept DEF SameLegs
  <1>2. \A i \in 1 .. Length(t) :
          Contents(LegAt(t, i))' = Contents(LegAt(t, i))
    BY <1>1 DEF Shelf, SameLegs, Contents
  <1>3. QED BY <1>1, <1>2 DEF Page
-----------------------------------------------------------------------------
(* Steps of the tables as steps of the book.                                 *)

(* A waypoint is in the book where its leg is committed.                     *)
LEMMA InBookFact ==
    ASSUME Inv, Shelf, NEW w \in Waypoint, Abstract!InBook(w)
    PROVE  wpts[w].leg \in Leg /\ legs[wpts[w].leg].tx = Done
  <1>1. PICK t \in Trip : /\ Book[t] # None
                          /\ \E i \in DOMAIN Book[t].legs :
                                w \in Book[t].legs[i].wpts
    BY DEF Abstract!InBook
  <1>2. Book[t].legs = [i \in 1 .. Length(t) |-> Contents(LegAt(t, i))]
    BY <1>1 DEF Book, Page
  <1>3. PICK i \in 1 .. Length(t) : w \in Contents(LegAt(t, i)).wpts
    BY <1>1, <1>2
  <1>4. wpts[w].leg = LegAt(t, i)
    BY <1>3 DEF Contents
  <1>5. QED BY <1>4 DEF Shelf, Committed

(* The page of a trip is a page, never None.                                 *)
PageOK(t) ==
    /\ Page(t) # None /\ Book[t] = Page(t)
    /\ Page(t).legs \in Seq([wpts : SUBSET Waypoint, routes : Nat])
    /\ Len(Page(t).legs) = Length(t)
    /\ DOMAIN Page(t).legs = 1 .. Length(t)
    /\ \A i \in 1 .. Length(t) : Page(t).legs[i] = Contents(LegAt(t, i))

Pages == \A t \in Trip : owner[t] # None => PageOK(t)

LEMMA PagesInv == Inv /\ Shelf => Pages
  <1> SUFFICES ASSUME Inv, Shelf, NEW t \in Trip, owner[t] # None
               PROVE  PageOK(t)
    BY DEF Pages
  <1> DEFINE C == [wpts : SUBSET Waypoint, routes : Nat]
             L == [i \in 1 .. Length(t) |-> Contents(LegAt(t, i))]
  <1>1. \A i \in 1 .. Length(t) : Contents(LegAt(t, i)) \in C
    BY DEF Shelf, Contents, Inv, TypeInv, TypeOK, LegRow
  <1>2. L \in Seq(C) /\ Len(L) = Length(t)
    <2>1. Length(t) \in Nat
      BY DEF Shelf
    <2> HIDE DEF C
    <2>2. QED BY <1>1, <2>1
  <1>3. owner[t] \in User
    BY DEF Inv, TypeInv, TypeOK
  <1>4. Page(t) \in [owner : User, legs : Seq(C)]
    BY <1>2, <1>3 DEF Page
  <1>5. QED BY <1>2, <1>4, PageAssumption DEF PageOK, Page, Book

(* Rows of an open transaction, absent rows and locals: none of the book's.  *)
InTrip(l) == legs[l].trip # None /\ legs[l].tx = Done
OnLeg(w) == wpts[w].leg # None /\ wpts[w].tx = Done

Unseen ==
    /\ owner' = owner /\ \A t \in Trip : t \in drawn' <=> t \in drawn
    /\ \A l \in Leg : InTrip(l) \/ InTrip(l)' => legs'[l] = legs[l]
    /\ \A w \in Waypoint : OnLeg(w) \/ OnLeg(w)' => wpts'[w] = wpts[w]

LEMMA UnseenStep ==
    ASSUME Inv, Inv', Shelf, Shelf', Unseen
    PROVE  UNCHANGED Abstract!bookVars
  <1> USE NoneAssumption
  <1>1. ASSUME NEW t \in Trip PROVE SameLegs(t)
    <2>1. ASSUME NEW l \in Leg, Committed(l, t) \/ Committed(l, t)'
          PROVE  legs'[l] = legs[l]
      BY <2>1 DEF Unseen, Committed, InTrip
    <2>2. ASSUME NEW l \in Leg, Committed(l, t)
          PROVE  UNCHANGED Contents(l)
      <3>1. legs'[l] = legs[l] /\ legs[l].tx = Done /\ l # None
        BY <2>1, <2>2 DEF Committed
      <3>2. \A w \in Waypoint : wpts[w].leg = l => wpts[w].tx = Done
        BY <3>1 DEF Inv, StoreInv, NoPartialImport
      <3>3. \A w \in Waypoint : wpts'[w].leg = l => wpts'[w].tx = Done
        BY <3>1 DEF Inv, StoreInv, NoPartialImport
      <3>4. \A w \in Waypoint : wpts'[w].leg = l <=> wpts[w].leg = l
        BY <3>1, <3>2, <3>3 DEF Unseen, OnLeg
      <3>5. QED BY <3>1, <3>4 DEF Contents
    <2>3. QED BY <2>1, <2>2 DEF SameLegs, SamePlaces, Committed
  <1>2. \A t \in Trip : Page(t)' = Page(t)
    BY <1>1, PageKept DEF Unseen
  <1>3. Book' = Book
    BY <1>2 DEF Book, Unseen
  <1>4. Closed' = Closed
    BY DEF Closed, Unseen
  <1>5. QED BY <1>3, <1>4 DEF Abstract!bookVars

LEMMA OpenStep ==
    ASSUME Inv, Inv', Shelf, Shelf', NEW u \in User, NEW t \in Trip \ drawn,
           owner' = [owner EXCEPT ![t] = u], drawn' = drawn \cup {t},
           UNCHANGED <<legs, wpts>>
    PROVE  Abstract!Open(u, t)
  <1> USE NoneAssumption
  <1>1. owner[t] = None /\ owner'[t] = u
        /\ \A v \in Trip \ {t} : owner'[v] = owner[v]
    BY DEF Inv, TypeInv, TypeOK, StoreInv, RowsInv
  <1>2. \A v \in Trip : SameLegs(v)
    BY DEF SameLegs, SamePlaces, Committed, Contents
  <1>3. \A v \in Trip \ {t} : Page(v)' = Page(v)
    BY <1>1, <1>2, PageKept
  <1>4. Page(t)' = [owner |-> u, legs |-> <<>>]
    <2>1. CommittedSeqs(t)' = {}
      BY <1>1 DEF CommittedSeqs, Inv, StoreInv, NoOrphans
    <2>2. Length(t)' = 0
      BY <2>1, FS_EmptySet DEF Length
    <2>3. [i \in 1 .. Length(t)' |-> Contents(LegAt(t, i))'] = <<>>
      BY <2>2
    <2>4. QED BY <1>1, <2>3 DEF Page
  <1>5. Book' = [Book EXCEPT ![t] = [owner |-> u, legs |-> <<>>]]
    BY <1>1, <1>3, <1>4 DEF Book
  <1>6. Book[t] = None /\ t \notin Closed /\ Closed' = Closed
    BY <1>1 DEF Book, Closed
  <1>7. QED BY <1>5, <1>6 DEF Abstract!Open

LEMMA CloseStep ==
    ASSUME Inv, Inv', Shelf, Shelf', NEW u \in User, NEW t \in Trip,
           owner[t] = u, Cascade(t), UNCHANGED drawn
    PROVE  Abstract!Close(u, t)
  <1> USE NoneAssumption
  <1>1. owner'[t] = None /\ \A v \in Trip \ {t} : owner'[v] = owner[v]
    BY DEF Cascade, Inv, TypeInv, TypeOK
  <1>2. ASSUME NEW v \in Trip \ {t} PROVE SameLegs(v)
    <2>1. \A l \in Leg :
            legs'[l] = IF legs[l].trip = t THEN NoLeg ELSE legs[l]
      BY DEF Cascade
    <2>2. SamePlaces(v)
      BY <2>1 DEF SamePlaces, Committed, NoLeg
    <2>3. ASSUME NEW l \in Leg, Committed(l, v) PROVE UNCHANGED Contents(l)
      <3>1. legs'[l] = legs[l] /\ legs[l].trip # t
        BY <2>1, <2>3 DEF Committed
      <3>2. \A w \in Waypoint :
              wpts'[w] = IF wpts[w].leg \in {m \in Leg : legs[m].trip = t}
                         THEN NoWpt ELSE wpts[w]
        BY DEF Cascade
      <3>3. \A w \in Waypoint : wpts'[w].leg = l <=> wpts[w].leg = l
        BY <3>1, <3>2 DEF NoWpt
      <3>4. QED BY <3>1, <3>3 DEF Contents
    <2>4. QED BY <2>2, <2>3 DEF SameLegs
  <1>3. \A v \in Trip \ {t} : Page(v)' = Page(v)
    BY <1>1, <1>2, PageKept
  <1>4. Book' = [Book EXCEPT ![t] = None]
    BY <1>1, <1>3 DEF Book
  <1>5. Book[t] # None /\ Book[t].owner = u
    <2>1. owner[t] # None
      OBVIOUS
    <2>2. Page(t).owner = u
      BY DEF Page
    <2>3. QED BY <2>1, <2>2, PagesInv DEF Pages, PageOK
  <1>6. Closed' = Closed \cup {t}
    <2>1. t \in drawn
      BY DEF Inv, StoreInv, RowsInv
    <2>2. ASSUME NEW v \in Trip
          PROVE  v \in Closed' <=> v \in Closed \cup {t}
      BY <1>1, <2>1 DEF Closed
    <2>3. QED BY <2>2 DEF Closed
  <1>7. QED BY <1>4, <1>5, <1>6 DEF Abstract!Close

(* A leg becomes the last one of its trip, with nothing in it that was in    *)
(* the book before.                                                          *)
LEMMA AppendStep ==
    ASSUME Inv, Inv', Shelf, Shelf', NEW u \in User, NEW t \in Trip,
           NEW l \in Leg, owner[t] = u, owner' = owner,
           \A v \in Trip : v \in drawn' <=> v \in drawn,
           \A v \in Trip : ~Committed(l, v), Committed(l, t)',
           \A m \in Leg \ {l}, v \in Trip :
               /\ Committed(m, v)' <=> Committed(m, v)
               /\ Committed(m, v) => /\ legs'[m].seq = legs[m].seq
                                     /\ UNCHANGED Contents(m),
           legs'[l].routes <= MaxItems,
           \A w \in Waypoint : wpts'[w].leg = l => ~Abstract!InBook(w)
    PROVE  Abstract!AppendLeg(u, t)
  <1> USE NoneAssumption
  <1> DEFINE C == [wpts : SUBSET Waypoint, routes : Nat]
  <1>0. owner[t] # None /\ owner'[t] # None
    OBVIOUS
  <1>1. Pages /\ Pages'
    BY PagesInv, PTL
  <1>2. PageOK(t) /\ PageOK(t)'
    BY <1>0, <1>1 DEF Pages
  <1>3. PICK n \in Nat : n = Length(t)
    BY DEF Shelf
  <1>a. PICK c : c = Contents(l)'
    OBVIOUS
  <1>4. legs'[l].seq \notin CommittedSeqs(t)
    <2> SUFFICES ASSUME NEW m \in Leg, Committed(m, t),
                        legs[m].seq = legs'[l].seq
                 PROVE  FALSE
      BY DEF CommittedSeqs, Committed
    <2>1. m # l /\ Committed(m, t)' /\ legs'[m].seq = legs'[l].seq
      OBVIOUS
    <2>2. QED BY <2>1 DEF Shelf
  <1>5. CommittedSeqs(t)' = CommittedSeqs(t) \cup {legs'[l].seq}
    <2>1. CommittedSeqs(t) = {legs[m].seq : m \in {m \in Leg : Committed(m, t)}}
      BY DEF CommittedSeqs, Committed
    <2>2. CommittedSeqs(t)' =
            {legs'[m].seq : m \in {m \in Leg : Committed(m, t)'}}
      BY DEF CommittedSeqs, Committed
    <2>3. QED BY <2>1, <2>2
  <1>6. Length(t)' = n + 1 /\ legs'[l].seq = n + 1
    <2>1. CommittedSeqs(t) = 1 .. n
      BY <1>3 DEF Shelf
    <2>2. IsFiniteSet(1 .. n) /\ Cardinality(1 .. n) = n
      BY <1>3, FS_Interval
    <2>3. Length(t)' = n + 1
      <3>1. Cardinality((1 .. n) \cup {legs'[l].seq}) = n + 1
        BY <1>4, <2>1, <2>2, FS_AddElement
      <3>2. QED BY <1>5, <2>1, <3>1 DEF Length
    <2>4. legs'[l].seq \in 1 .. n + 1
      BY <2>3 DEF Shelf
    <2>5. QED BY <1>3, <1>4, <2>1, <2>3, <2>4
  <1>7. LegAt(t, n + 1)' = l
    BY <1>6 DEF Shelf
  <1>8. ASSUME NEW i \in 1 .. n
        PROVE  Contents(LegAt(t, i))' = Contents(LegAt(t, i))
    <2>1. PICK m \in Leg : /\ m = LegAt(t, i) /\ Committed(m, t)
                           /\ legs[m].seq = i
      BY <1>3 DEF Shelf
    <2>2. /\ m # l /\ Committed(m, t)' /\ legs'[m].seq = i
          /\ UNCHANGED Contents(m)
      BY <2>1
    <2>3. LegAt(t, i)' = m
      BY <2>2 DEF Shelf
    <2>4. QED BY <2>1, <2>2, <2>3 DEF Contents
  <1>9. c \in C /\ c.routes \in 0 .. MaxItems /\ c.wpts \in SUBSET Waypoint
    BY <1>a, MaxItemsAssumption DEF Contents, Inv, TypeInv, TypeOK, LegRow
  <1>10. Page(t)'.legs = Append(Page(t).legs, c)
    <2> DEFINE L == Page(t).legs
               M == Page(t)'.legs
    <2>1. /\ L \in Seq(C) /\ Len(L) = n
          /\ \A i \in 1 .. n : L[i] = Contents(LegAt(t, i))
      BY <1>2, <1>3 DEF PageOK
    <2>2. M \in Seq(C) /\ Len(M) = n + 1
          /\ \A i \in 1 .. n + 1 : M[i] = Contents(LegAt(t, i))'
      BY <1>2, <1>6 DEF PageOK
    <2>3. \A i \in 1 .. n : M[i] = L[i]
      BY <1>3, <1>8, <2>1, <2>2
    <2>4. M[n + 1] = c
      <3>1. n + 1 \in 1 .. n + 1
        BY <1>3
      <3>2. M[n + 1] = Contents(LegAt(t, n + 1))'
        BY <2>2, <3>1
      <3>3. QED BY <1>a, <1>7, <3>2 DEF Contents
    <2> HIDE DEF L, M, C
    <2>5. /\ Append(L, c) \in Seq(C) /\ Len(Append(L, c)) = n + 1
          /\ \A i \in 1 .. n : Append(L, c)[i] = L[i]
          /\ Append(L, c)[n + 1] = c
      BY <1>9, <2>1, AppendProperties
    <2>6. \A i \in 1 .. n + 1 : M[i] = Append(L, c)[i]
      BY <1>3, <2>3, <2>4, <2>5
    <2>7. M = Append(L, c)
      BY <2>2, <2>5, <2>6, SeqEqual
    <2>8. QED BY <2>7 DEF L, M
  <1>11. \A v \in Trip \ {t} : Page(v)' = Page(v)
    <2>1. ASSUME NEW v \in Trip \ {t} PROVE SameLegs(v)
      <3>1. ~Committed(l, v) /\ ~Committed(l, v)'
        BY DEF Committed
      <3>2. QED BY <3>1 DEF SameLegs, SamePlaces
    <2>2. QED BY <2>1, PageKept
  <1>12. Page(t)' = [Page(t) EXCEPT !.legs = Append(Page(t).legs, c)]
    <2>1. Page(t)' = [owner |-> u, legs |-> Page(t)'.legs]
      BY DEF Page
    <2>2. Page(t) = [owner |-> u, legs |-> Page(t).legs]
      BY DEF Page
    <2>3. QED BY <1>10, <2>1, <2>2
  <1>13. Book' = [Book EXCEPT ![t].legs = Append(Book[t].legs, c)]
    BY <1>2, <1>11, <1>12 DEF Book, PageOK
  <1>14. Closed' = Closed
    BY DEF Closed
  <1>15. Book[t] # None /\ Book[t].owner = u
    <2>1. Page(t).owner = u
      BY DEF Page
    <2>2. QED BY <1>2, <2>1 DEF PageOK
  <1>16. c \in Abstract!Contents
    BY <1>a, <1>9 DEF Abstract!Contents, Contents
  <1>17. \A w \in c.wpts : ~Abstract!InBook(w)
    BY <1>a DEF Contents
  <1>18. QED BY <1>13, <1>14, <1>15, <1>16, <1>17 DEF Abstract!AppendLeg

(* The waypoints of one committed leg become W.                              *)
Edited(u, t, l, i, W) ==
    /\ Book[t] # None /\ Book[t].owner = u
    /\ i \in DOMAIN Book[t].legs /\ Book[t].legs[i] = Contents(l)
    /\ Book' = [Book EXCEPT ![t].legs[i].wpts = W]
    /\ Closed' = Closed

LEMMA EditStep ==
    ASSUME Inv, Inv', Shelf, Shelf', NEW u \in User, NEW t \in Trip,
           NEW l \in Leg, NEW i, NEW W, owner[t] = u, Committed(l, t),
           legs[l].seq = i, UNCHANGED <<owner, legs>>,
           \A v \in Trip : v \in drawn' <=> v \in drawn,
           Contents(l)'.wpts = W, Contents(l)'.routes = Contents(l).routes,
           \A m \in Leg \ {l} : UNCHANGED Contents(m)
    PROVE  Edited(u, t, l, i, W)
  <1> USE NoneAssumption
  <1>0. owner[t] # None /\ owner'[t] # None
    OBVIOUS
  <1>1. Pages /\ Pages'
    BY PagesInv, PTL
  <1>2. PageOK(t) /\ PageOK(t)'
    BY <1>0, <1>1 DEF Pages
  <1>3. PICK n \in Nat : n = Length(t)
    BY DEF Shelf
  <1>4. i \in 1 .. n /\ LegAt(t, i) = l
    BY <1>3 DEF Shelf
  <1>5. \A v \in Trip : SamePlaces(v)
    BY DEF SamePlaces, Committed
  <1>6. /\ Length(t)' = n
        /\ \A j \in 1 .. n : LegAt(t, j)' = LegAt(t, j)
    BY <1>3, <1>5, PlacesKept
  <1>7. \A j \in 1 .. n \ {i} :
          Contents(LegAt(t, j))' = Contents(LegAt(t, j))
    <2>1. ASSUME NEW j \in 1 .. n \ {i}
          PROVE  Contents(LegAt(t, j))' = Contents(LegAt(t, j))
      <3>1. PICK m \in Leg : m = LegAt(t, j) /\ legs[m].seq = j
        BY <1>3 DEF Shelf
      <3>2. m # l /\ LegAt(t, j)' = m
        BY <1>6, <3>1
      <3>3. QED BY <3>1, <3>2 DEF Contents
    <2>2. QED BY <2>1
  <1>8. Contents(LegAt(t, i))' = [Contents(l) EXCEPT !.wpts = W]
    <2>1. PICK V, r : V = Contents(l).wpts /\ r = Contents(l).routes
      OBVIOUS
    <2>2. Contents(l) = [wpts |-> V, routes |-> r]
      BY <2>1 DEF Contents
    <2>b. Contents(l)' = [wpts |-> W, routes |-> r]
      BY <2>1 DEF Contents
    <2>3. Contents(l)' = [Contents(l) EXCEPT !.wpts = W]
      BY <2>2, <2>b
    <2>4. LegAt(t, i)' = l
      BY <1>4, <1>6
    <2>5. Contents(LegAt(t, i))' = Contents(l)'
      BY <2>4 DEF Contents
    <2>6. QED BY <2>3, <2>5
  <1>9. /\ DOMAIN Page(t).legs = 1 .. n /\ DOMAIN Page(t)'.legs = 1 .. n
        /\ \A j \in 1 .. n : Page(t).legs[j] = Contents(LegAt(t, j))
        /\ \A j \in 1 .. n : Page(t)'.legs[j] = Contents(LegAt(t, j))'
    BY <1>2, <1>3, <1>6 DEF PageOK
  <1>10. Page(t).legs[i] = Contents(l)
    BY <1>4, <1>9
  <1>11. Page(t)'.legs = [Page(t).legs EXCEPT ![i].wpts = W]
    <2> DEFINE L == Page(t).legs
               M == Page(t)'.legs
    <2>1. M[i] = [L[i] EXCEPT !.wpts = W]
      BY <1>4, <1>8, <1>9, <1>10
    <2>2. \A j \in 1 .. n \ {i} : M[j] = L[j]
      BY <1>7, <1>9
    <2>3. L = [j \in 1 .. n |-> L[j]] /\ M = [j \in 1 .. n |-> M[j]]
      BY <1>3, <1>6 DEF Page
    <2> HIDE DEF L, M
    <2>4. M = [L EXCEPT ![i].wpts = W]
      BY <1>4, <2>1, <2>2, <2>3
    <2>5. QED BY <2>4 DEF L, M
  <1>12. /\ Page(t)' = [owner |-> u, legs |-> Page(t)'.legs]
         /\ Page(t) = [owner |-> u, legs |-> Page(t).legs]
    BY DEF Page
  <1>13. Page(t)' = [Page(t) EXCEPT !.legs[i].wpts = W]
    BY <1>11, <1>12
  <1>14. ASSUME NEW v \in Trip \ {t} PROVE Page(v)' = Page(v)
    <2>1. SameLegs(v)
      BY <1>5 DEF SameLegs, Committed
    <2>2. QED BY <2>1, PageKept
  <1>15. Book' = [Book EXCEPT ![t].legs[i].wpts = W]
    BY <1>2, <1>13, <1>14 DEF Book, PageOK
  <1>16. Closed' = Closed
    BY DEF Closed
  <1>17. Book[t] = Page(t) /\ Page(t) # None
    BY <1>2 DEF PageOK
  <1>18. Page(t).owner = u
    BY DEF Page
  <1>19. i \in DOMAIN Page(t).legs
    BY <1>4, <1>9
  <1>20. QED BY <1>10, <1>15, <1>16, <1>17, <1>18, <1>19 DEF Edited
-----------------------------------------------------------------------------
(* Every step of a handler, in the book.                                     *)
BookStep == [Abstract!Next]_(Abstract!bookVars)

LEMMA UnseenIs ==
    ASSUME Inv, Inv', Shelf, Shelf', Unseen
    PROVE  BookStep
  BY UnseenStep DEF BookStep

LEMMA TablesUnseen ==
    ASSUME UNCHANGED tables
    PROVE  Unseen
  BY DEF tables, Unseen

LEMMA RollbackUnseen ==
    ASSUME Inv, NEW s \in Slot, Rollback(s)
    PROVE  Unseen
  BY DoneAssumption DEF Rollback, Unseen, InTrip, OnLeg, NoLeg, NoWpt

LEMMA CreateTripInBook ==
    ASSUME Inv, Inv', Shelf, Shelf', NEW s \in Slot, CreateTrip(s)
    PROVE  BookStep
  <1>1. req[s].user \in User
    BY DEF CreateTrip, Inv, TypeInv, ReqInv, Incoming, Request
  <1>2. ASSUME NEW t \in Trip \ drawn,
               owner' = [owner EXCEPT ![t] = req[s].user],
               drawn' = drawn \cup {t}, UNCHANGED <<legs, wpts>>
        PROVE  BookStep
    <2>1. Abstract!Open(req[s].user, t)
      BY <1>1, <1>2, OpenStep
    <2>2. QED BY <1>1, <2>1 DEF BookStep, Abstract!Next
  <1>3. QED BY <1>2, RollbackUnseen, UnseenIs DEF CreateTrip, InsertFails

LEMMA DeleteTripInBook ==
    ASSUME Inv, Inv', Shelf, Shelf', NEW s \in Slot, DeleteTrip(s)
    PROVE  BookStep
  <1>1. req[s].trip \in Trip /\ req[s].user \in User
    BY DEF DeleteTrip, Inv, TypeInv, ReqInv, Incoming, Request
  <1>2. CASE UNCHANGED tables
    BY <1>2, TablesUnseen, UnseenIs
  <1>3. CASE Owns(req[s].user, req[s].trip) /\ Cascade(req[s].trip)
             /\ UNCHANGED drawn
    <2>1. Abstract!Close(req[s].user, req[s].trip)
      BY <1>1, <1>3, CloseStep DEF Owns
    <2>2. QED BY <1>1, <2>1 DEF BookStep, Abstract!Next
  <1>4. QED BY <1>2, <1>3 DEF DeleteTrip

LEMMA InsertLegInBook ==
    ASSUME Inv, Inv', Shelf, Shelf', NEW s \in Slot, InsertLeg(s)
    PROVE  BookStep
  <1> USE NoneAssumption, DoneAssumption
  <1>1. req[s].trip \in Trip /\ seqNo[s] \in Nat
    BY DEF InsertLeg, Inv, TypeInv, TypeOK, ReqInv, Incoming, Request
  <1>2. PICK t \in Trip : t = req[s].trip
    BY <1>1
  <1>3. ASSUME NEW l \in Leg \ drawn, drawn' = drawn \cup {l},
               owner[t] # None, NEW x \in {s, Done},
               legs' = [legs EXCEPT ![l] = [trip |-> t, seq |-> seqNo[s],
                                            routes |-> 0, tx |-> x]],
               UNCHANGED <<owner, wpts>>
        PROVE  BookStep
    <2>1. /\ legs[l].trip = None
          /\ \A m \in Leg \ {l} : legs'[m] = legs[m]
          /\ legs'[l].trip = t /\ legs'[l].tx = x /\ legs'[l].routes = 0
      BY <1>3 DEF Inv, StoreInv, RowsInv, TypeInv, TypeOK
    <2>2. \A v \in Trip : v \in drawn' <=> v \in drawn
      BY <1>3, IdAssumption
    <2>3. CASE x = s
      <3>1. Unseen
        BY <1>3, <2>1, <2>2, <2>3 DEF Unseen, InTrip, OnLeg
      <3>2. QED BY <3>1, UnseenIs
    <2>4. CASE x = Done
      <3>1. owner[t] \in User
        BY <1>3 DEF Inv, TypeInv, TypeOK
      <3>2. \A w \in Waypoint : wpts'[w].leg # l
        BY <1>3, <2>1 DEF Inv, StoreInv, NoOrphans
      <3>3. /\ \A v \in Trip : ~Committed(l, v)
            /\ Committed(l, t)'
        BY <2>1, <2>4 DEF Committed
      <3>4. \A m \in Leg \ {l}, v \in Trip :
              /\ Committed(m, v)' <=> Committed(m, v)
              /\ legs'[m].seq = legs[m].seq
              /\ UNCHANGED Contents(m)
        BY <1>3, <2>1 DEF Committed, Contents
      <3>5. legs'[l].routes <= MaxItems
        BY <2>1, MaxItemsAssumption
      <3>6. Abstract!AppendLeg(owner[t], t)
        BY <1>3, <2>2, <3>1, <3>2, <3>3, <3>4, <3>5, AppendStep
      <3>7. QED BY <3>1, <3>6 DEF BookStep, Abstract!Next
    <2>5. QED BY <2>3, <2>4
  <1>4. QED BY <1>2, <1>3, TablesUnseen, RollbackUnseen, UnseenIs
            DEF InsertLeg, InsertFails

LEMMA CommitInBook ==
    ASSUME Inv, Inv', Shelf, Shelf', ItemsInv, NEW s \in Slot, Commit(s)
    PROVE  BookStep
  <1> USE NoneAssumption, DoneAssumption
  <1>1. /\ req[s].trip \in Trip /\ new[s] \in Leg /\ pc[s] = "commit"
        /\ legs[new[s]].tx = s /\ legs[new[s]].trip = req[s].trip
        /\ owner[req[s].trip] = req[s].user /\ req[s].user \in User
    BY DEF Commit, Inv, TypeInv, TypeOK, ReqInv, Incoming, Request, StoreInv,
           OpenInv
  <1>2. PICK t \in Trip : t = req[s].trip
    BY <1>1
  <1>3. PICK l \in Leg : l = new[s]
    BY <1>1
  <1>4. \A m \in Leg : legs[m].tx = s => m = l
    BY <1>3 DEF Inv, StoreInv, NoPartialImport
  <1>5. \A m \in Leg \ {l} : legs'[m] = legs[m]
    BY <1>4 DEF Commit
  <1>6. /\ legs'[l].trip = t /\ legs'[l].tx = Done
        /\ legs'[l].routes = legs[l].routes
    BY <1>1, <1>2, <1>3 DEF Commit
  <1>7. \A w \in Waypoint : wpts'[w].leg = wpts[w].leg
    BY DEF Commit
  <1>8. \A m \in Leg \ {l}, v \in Trip :
          /\ Committed(m, v)' <=> Committed(m, v)
          /\ legs'[m].seq = legs[m].seq
          /\ UNCHANGED Contents(m)
    BY <1>5, <1>7 DEF Committed, Contents
  <1>9. (\A v \in Trip : ~Committed(l, v)) /\ Committed(l, t)'
    BY <1>1, <1>3, <1>6 DEF Committed
  <1>10. legs'[l].routes <= MaxItems
    <2>1. /\ legs[l].routes \in Nat /\ Len(todo[s]) \in Nat
          /\ legs[l].routes + Len(todo[s]) <= MaxItems
      BY <1>1, <1>3 DEF ItemsInv, Open, Inv, TypeInv, TypeOK, LegRow
    <2>2. QED BY <1>6, <2>1, MaxItemsAssumption
  <1>11. \A w \in Waypoint : wpts'[w].leg = l => ~Abstract!InBook(w)
    BY <1>1, <1>3, <1>7, InBookFact
  <1>12. UNCHANGED <<owner, drawn>>
    BY DEF Commit
  <1>13. Abstract!AppendLeg(req[s].user, t)
    BY <1>1, <1>2, <1>8, <1>9, <1>10, <1>11, <1>12, AppendStep
  <1>14. QED BY <1>1, <1>13 DEF BookStep, Abstract!Next

LEMMA InsertWptInBook ==
    ASSUME Inv, Inv', Shelf, Shelf', NEW s \in Slot, InsertWpt(s)
    PROVE  BookStep
  <1> USE NoneAssumption, DoneAssumption
  <1>1. /\ req[s].leg \in Leg /\ pc[s] = "wptInsert"
        /\ legs[req[s].leg].tx = Done
    BY DEF InsertWpt, Inv, TypeInv, ReqInv, Incoming, Request, StoreInv,
           PendingInv, Ready
  <1>2. PICK l \in Leg : l = req[s].leg
    BY <1>1
  <1>3. ASSUME NEW w \in Waypoint \ drawn, legs[l].trip # None,
               wpts' = [wpts EXCEPT ![w] =
                          [leg |-> l, seq |-> seqNo[s], tx |-> Done]],
               drawn' = drawn \cup {w}, UNCHANGED <<owner, legs>>
        PROVE  BookStep
    <2>1. PICK t \in Trip : t = legs[l].trip
      BY <1>3 DEF Inv, TypeInv, TypeOK, LegRow
    <2>2. PICK u \in User : u = owner[t]
      BY <1>3, <2>1 DEF Inv, TypeInv, TypeOK, StoreInv, NoOrphans
    <2>3. Committed(l, t)
      BY <1>1, <1>2, <2>1 DEF Committed
    <2>4. \A v \in Trip : v \in drawn' <=> v \in drawn
      BY <1>3, IdAssumption
    <2>5. /\ wpts[w].leg = None /\ wpts'[w].leg = l
          /\ \A x \in Waypoint \ {w} : wpts'[x] = wpts[x]
      BY <1>3 DEF Inv, TypeInv, TypeOK, StoreInv, RowsInv
    <2>a. PICK W : W = Contents(l).wpts \cup {w}
      OBVIOUS
    <2>6. Contents(l)'.wpts = W /\ Contents(l)'.routes = Contents(l).routes
      BY <1>3, <2>5, <2>a DEF Contents
    <2>7. \A m \in Leg \ {l} : UNCHANGED Contents(m)
      BY <1>3, <2>5 DEF Contents
    <2>8. ~Abstract!InBook(w)
      BY <2>5, InBookFact
    <2>9. PICK i : i = legs[l].seq
      OBVIOUS
    <2>10. Edited(u, t, l, i, W)
      BY <1>3, <2>2, <2>3, <2>4, <2>6, <2>7, <2>9, EditStep
    <2>11. Abstract!AddWaypoint(u, t, i, w)
      BY <2>8, <2>10, <2>a DEF Edited, Abstract!AddWaypoint
    <2>12. QED BY <2>10, <2>11 DEF Edited, BookStep, Abstract!Next
  <1>4. QED BY <1>2, <1>3, TablesUnseen, RollbackUnseen, UnseenIs
            DEF InsertWpt, InsertFails

LEMMA DeleteWptInBook ==
    ASSUME Inv, Inv', Shelf, Shelf', NEW s \in Slot, DeleteWpt(s)
    PROVE  BookStep
  <1> USE NoneAssumption, DoneAssumption
  <1>1. PICK w \in Waypoint : w = req[s].wpt
    BY DEF DeleteWpt, Inv, TypeInv, ReqInv, Incoming, Request
  <1>2. CASE UNCHANGED wpts
    BY <1>2, TablesUnseen, UnseenIs DEF DeleteWpt, tables
  <1>3. CASE /\ wpts[w].leg # None /\ Sees(s, wpts[w])
             /\ wpts' = [wpts EXCEPT ![w] = NoWpt]
    <2>1. PICK l \in Leg : l = wpts[w].leg
      BY <1>3 DEF Inv, TypeInv, TypeOK, WptRow
    <2>2. wpts[w].tx = legs[l].tx /\ legs[l].trip # None
      BY <1>3, <2>1 DEF Inv, StoreInv, NoPartialImport, NoOrphans
    <2>3. legs[l].tx # s
      BY DEF DeleteWpt, Inv, StoreInv, NoPartialImport
    <2>4. PICK t \in Trip : t = legs[l].trip /\ Committed(l, t)
      BY <1>3, <2>2, <2>3 DEF Sees, Committed, Inv, TypeInv, TypeOK, LegRow
    <2>5. PICK u \in User : u = owner[t]
      BY <2>2, <2>4 DEF Inv, TypeInv, TypeOK, StoreInv, NoOrphans
    <2>6. UNCHANGED <<owner, legs, drawn>>
      BY DEF DeleteWpt
    <2>7. wpts'[w].leg = None
          /\ \A x \in Waypoint \ {w} : wpts'[x] = wpts[x]
      BY <1>3 DEF Inv, TypeInv, TypeOK, NoWpt
    <2>a. PICK W : W = Contents(l).wpts \ {w}
      OBVIOUS
    <2>8. Contents(l)'.wpts = W /\ Contents(l)'.routes = Contents(l).routes
      BY <2>1, <2>6, <2>7, <2>a DEF Contents
    <2>9. \A m \in Leg \ {l} : UNCHANGED Contents(m)
      BY <2>1, <2>6, <2>7 DEF Contents
    <2>10. PICK i : i = legs[l].seq
      OBVIOUS
    <2>11. Edited(u, t, l, i, W)
      BY <2>4, <2>5, <2>6, <2>8, <2>9, <2>10, EditStep
    <2>12. w \in Contents(l).wpts
      BY <2>1 DEF Contents
    <2>13. Abstract!RemoveWaypoint(u, t, i, w)
      BY <2>11, <2>12, <2>a DEF Edited, Abstract!RemoveWaypoint
    <2>14. QED BY <2>11, <2>13 DEF Edited, BookStep, Abstract!Next
  <1>4. QED BY <1>1, <1>2, <1>3 DEF DeleteWpt

LEMMA ImportInBook ==
    ASSUME Inv, Inv', Shelf, Shelf', NEW s \in Slot,
           ImportWpt(s) \/ ImportRoute(s)
    PROVE  BookStep
  <1> USE NoneAssumption, DoneAssumption
  <1>1. PICK l \in Leg : l = new[s] /\ legs[l].tx = s
    BY DEF ImportWpt, ImportRoute, Inv, TypeInv, ReqInv, StoreInv, OpenInv
  <1>2. ASSUME NEW w \in Waypoint \ drawn, NEW n,
               wpts' = [wpts EXCEPT ![w] = [leg |-> l, seq |-> n, tx |-> s]],
               drawn' = drawn \cup {w}, UNCHANGED <<owner, legs>>
        PROVE  Unseen
    <2>1. \A v \in Trip : v \in drawn' <=> v \in drawn
      BY <1>2, IdAssumption
    <2>2. /\ wpts[w].leg = None /\ wpts'[w].tx = s
          /\ \A x \in Waypoint \ {w} : wpts'[x] = wpts[x]
      BY <1>2 DEF Inv, TypeInv, TypeOK, StoreInv, RowsInv
    <2>3. QED BY <1>2, <2>1, <2>2 DEF Unseen, InTrip, OnLeg
  <1>3. CASE ImportWpt(s)
    BY <1>1, <1>2, <1>3, RollbackUnseen, UnseenIs DEF ImportWpt, InsertFails
  <1>4. CASE ImportRoute(s)
    <2>1. /\ legs'[l].tx = s
          /\ \A m \in Leg \ {l} : legs'[m] = legs[m]
      BY <1>1, <1>4 DEF ImportRoute, Inv, TypeInv, TypeOK
    <2>2. Unseen
      BY <1>1, <1>4, <2>1 DEF ImportRoute, Unseen, InTrip, OnLeg
    <2>3. QED BY <2>2, UnseenIs
  <1>5. QED BY <1>3, <1>4

LEMMA StepInBook ==
    ASSUME Inv, Inv', Shelf, Shelf', ItemsInv, NEW s \in Slot, Step(s)
    PROVE  BookStep
  <1>1. CASE \/ CreateTrip(s) \/ DeleteTrip(s) \/ InsertLeg(s)
             \/ InsertWpt(s) \/ DeleteWpt(s) \/ ImportWpt(s)
             \/ ImportRoute(s) \/ Commit(s)
    BY <1>1, CreateTripInBook, DeleteTripInBook, InsertLegInBook,
       InsertWptInBook, DeleteWptInBook, ImportInBook, CommitInBook
  <1>2. CASE ImportEnds(s) \/ StatementFails(s) \/ Abandon(s)
    BY <1>2, TablesUnseen, RollbackUnseen, UnseenIs
    DEF ImportEnds, StatementFails, Abandon, Vanish
  <1>3. CASE \/ Receive(s) \/ CheckTrip(s) \/ CheckLeg(s)
             \/ StartDeleteTrip(s) \/ SelectLegSeq(s) \/ SelectWptSeq(s)
    BY <1>3, TablesUnseen, UnseenIs
    DEF Receive, CheckTrip, CheckLeg, StartDeleteTrip, SelectLegSeq,
        SelectWptSeq
  <1>4. QED BY <1>1, <1>2, <1>3 DEF Step, Handle

(* However the statements of concurrent requests interleave, fail and roll   *)
(* back, the committed tables change as the book of TripBook does: one       *)
(* request at a time, each at once or not at all.                            *)
THEOREM TablesImplementBook == Spec => ImplementsBook
  <1>1. Init => Abstract!Init
    BY DEF Init, Abstract!Init, Book, Closed
  <1>2. Inv /\ Inv' /\ Shelf /\ Shelf' /\ ItemsInv /\ [Next]_vars => BookStep
    <2> SUFFICES ASSUME Inv, Inv', Shelf, Shelf', ItemsInv, [Next]_vars
                 PROVE  BookStep
      OBVIOUS
    <2>1. CASE UNCHANGED vars
      BY <2>1, TablesUnseen, UnseenIs DEF vars, tables
    <2>2. QED BY <2>1, StepInBook DEF Next, Step
  <1>3. Inv /\ ItemsInv => Shelf
    BY ShelfInv
  <1>4. BookStep => [Abstract!Next]_(Abstract!bookVars)
    BY DEF BookStep
  <1>5. QED
    BY <1>1, <1>2, <1>3, <1>4, ItemsAlways, PTL
    DEF Spec, ImplementsBook, Abstract!Spec
=============================================================================
