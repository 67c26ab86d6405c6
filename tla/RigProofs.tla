------------------------------ MODULE RigProofs ------------------------------
(***************************************************************************)
(* Theorems about the rig page, RigPage, and the gear of a rig, GearList,   *)
(* for any editors, texts, items and numbers of calls, rigs and retries.    *)
(* Each is proved of its part and holds of MCRig, whose behaviours are      *)
(* behaviours of both parts.                                               *)
(***************************************************************************)
EXTENDS MCRig, Integers, FiniteSetTheorems, TLAPS

(* A set of identifiers that is not empty has a largest: of the sets of      *)
(* those from x on, for x in S, one has no other below it.                  *)
LEMMA SomeNewest ==
    ASSUME NEW N \in Nat, NEW S, S \subseteq 1 .. N, S # {}
    PROVE  Rig!Max(S) \in S
  <1> DEFINE From(x) == S \cap (x .. N)
             T == {From(x) : x \in S}
             R == StrictSubsetOrdering(1 .. N)
  <1>1. IsFiniteSet(1 .. N)
    BY FS_Interval
  <1>2. \A x \in S : From(x) \in SUBSET (1 .. N)
    OBVIOUS
  <1>3. \A x \in S : IsFiniteSet(From(x))
    BY <1>1, <1>2, FS_Subset
  <1>4. T \subseteq FiniteSubsetsOf(1 .. N) /\ T # {}
    BY <1>2, <1>3 DEF FiniteSubsetsOf
  <1>5. PICK W \in T : \A V \in T : ~(<<V, W>> \in R)
    <2> HIDE DEF T, R
    <2>1. IsWellFoundedOn(StrictSubsetOrdering(1 .. N),
                          FiniteSubsetsOf(1 .. N))
      BY FS_StrictSubsetOrderingWellFounded
    <2>2. QED BY <1>4, <2>1, WFMin DEF R
  <1>6. PICK x \in S : W = From(x)
    BY <1>5
  <1>7. ASSUME NEW y \in S, y > x PROVE FALSE
    <2>1. From(y) \subseteq From(x) /\ x \in From(x) /\ x \notin From(y)
      BY <1>7
    <2>2. <<From(y), From(x)>> \in R
      BY <1>2, <2>1 DEF StrictSubsetOrdering
    <2>3. QED BY <1>5, <1>6, <2>2
  <1>8. \A y \in S : x >= y
    BY <1>7
  <1>9. QED BY <1>8 DEF Rig!Max
-----------------------------------------------------------------------------
(* The rig page.  Drafts belong to the rig that is shown, once one is shown. *)
FromShown == Rig!Rig # None => from = Rig!Rig.id

(* A call carries what its kind needs: a save is of a rig and complete.      *)
CallComplete(m) ==
    /\ m.arg.kind \in {"save", "create"} => m.arg.val \in Rig!Vals
    /\ m.arg.kind \in {"save", "delete"} => m.arg.id \in Rig!Id
    /\ m.arg.kind = "save" => m.arg.from = m.arg.id

CallsComplete == \A c \in Call : call[c] # None => CallComplete(call[c])

(* With no call under way nothing writes: an answered list is the table, and *)
(* so is the one that is shown unless its last fetch failed.  A call begins  *)
(* on a list that came, so that its end drops a fetch under way.            *)
NothingWrites == \A c \in Call : call[c] = None

ListFollows ==
    /\ NothingWrites => /\ query.st = "answered" => query.got = rigs
                        /\ Rig!Settled(query) => query.data = rigs
    /\ NothingWrites \/ query.data # None
    /\ query.st = "answered" => query.got # None

RigInv == Rig!TypeOK /\ FromShown /\ CallsComplete /\ ListFollows
-----------------------------------------------------------------------------
(* The shown rig is one of the list.                                        *)
LEMMA RigShown ==
    ASSUME NEW list \in Rig!Rows \cup {None}, Rig!RigOf(list) # None
    PROVE  /\ list \in Rig!Rows
           /\ Rig!RigOf(list).id \in Rig!Id
           /\ Rig!RigOf(list).row \in Rig!Row
  <1> DEFINE ids == {i \in Rig!Id : list[i] # None}
  <1>1. list # None /\ ids # {}
    BY DEF Rig!RigOf
  <1>2. Rig!Max(ids) \in ids
    BY <1>1, SomeNewest, RigAssumption DEF Rig!FieldAssumption, Rig!Id
  <1>3. Rig!RigOf(list) = [id |-> Rig!Max(ids), row |-> list[Rig!Max(ids)]]
    BY <1>1 DEF Rig!RigOf
  <1>4. QED BY <1>1, <1>2, <1>3 DEF Rig!Rows

LEMMA RigStart == Rig!Init => RigInv
  <1> SUFFICES ASSUME Rig!Init PROVE RigInv
    OBVIOUS
  <1> USE RigAssumption DEF Rig!FieldAssumption
  <1>1. rigs \in Rig!Rows
    BY DEF Rig!Init, Rig!Rows, Rig!Row, Rig!Fresh, Rig!Id
  <1>2. query \in Rig!Query(Rig!Rows \cup {None})
    BY DEF Rig!Init, Rig!Opened, Rig!Query
  <1>3. Rig!TypeOK
    <2>1. prompt \in BOOLEAN /\ dialog \in BOOLEAN
      BY DEF Rig!Init
    <2>2. used \in 0 .. MaxRigs /\ sent \in 0 .. MaxCalls
      BY DEF Rig!Init
    <2>3. draft \in Rig!Draft
      BY DEF Rig!Init, Rig!Draft
    <2>4. QED
      BY <1>1, <1>2, <2>1, <2>2, <2>3, Zenon
         DEF Rig!Init, Rig!TypeOK, Rig!Form
  <1>4. Rig!Rig = None
    BY DEF Rig!Init, Rig!Opened, Rig!Rig, Rig!RigOf
  <1>5. ListFollows
    BY DEF Rig!Init, Rig!Opened, Rig!Settled, ListFollows, NothingWrites
  <1>6. QED
    BY <1>3, <1>4, <1>5 DEF Rig!Init, RigInv, FromShown, CallsComplete

(* A mutation begins.                                                       *)
LEMMA RigBegins ==
    ASSUME RigInv, NEW kind \in {"save", "create", "delete"},
           NEW id \in Rig!Id \cup {None}, NEW val \in Rig!Vals \cup {None},
           kind \in {"save", "create"} => val \in Rig!Vals,
           kind \in {"save", "delete"} => id \in Rig!Id,
           kind = "save" => from = id,
           Rig!Begin(kind, id, val)
    PROVE  /\ call' \in [Call -> Rig!Mutation(Rig!Arg, {None}) \cup {None}]
           /\ sent' \in 0 .. MaxCalls
           /\ CallsComplete' /\ ~NothingWrites'
  <1> USE RigAssumption DEF Rig!FieldAssumption
  <1> DEFINE a == [kind |-> kind, id |-> id, val |-> val, from |-> from]
  <1>1. a \in Rig!Arg
    BY DEF Rig!Arg, RigInv, Rig!TypeOK
  <1>2. Rig!Started(a) \in Rig!Mutation(Rig!Arg, {None})
    BY <1>1, RetriesAssumption DEF Rig!Started, Rig!Mutation
  <1>3. PICK c \in Call : call' = [call EXCEPT ![c] = Rig!Started(a)]
    BY DEF Rig!Begin
  <1>4. call' \in [Call -> Rig!Mutation(Rig!Arg, {None}) \cup {None}]
    BY <1>2, <1>3 DEF RigInv, Rig!TypeOK
  <1>5. sent' \in 0 .. MaxCalls
    BY DEF Rig!Begin, RigInv, Rig!TypeOK
  <1>6. CallComplete(Rig!Started(a))
    BY DEF CallComplete, Rig!Started
  <1>7. CallsComplete'
    BY <1>3, <1>6 DEF CallsComplete, CallComplete, RigInv, Rig!TypeOK
  <1>8. call'[c] # None
    BY <1>2, <1>3 DEF RigInv, Rig!TypeOK
  <1>9. QED BY <1>4, <1>5, <1>7, <1>8 DEF NothingWrites

(* Steps that leave the table, the query and the calls alone.               *)
LEMMA PageSteps ==
    ASSUME RigInv, UNCHANGED <<rigs, used, query, from, call, sent>>,
           editor' \in Field \cup {None}, draft' \in Rig!Draft,
           says' \in {"idle", "saving", "saved", "error"},
           prompt' \in BOOLEAN, dialog' \in BOOLEAN, form' \in Rig!Form
    PROVE  RigInv'
  <1>1. Rig!TypeOK'
    BY DEF RigInv, Rig!TypeOK
  <1>2. QED
    BY <1>1 DEF RigInv, FromShown, Rig!Rig, CallsComplete, ListFollows,
                NothingWrites

(* What the page shows is of the list it has.                               *)
LEMMA ViewShows ==
    ASSUME RigInv, Rig!View = "rig"
    PROVE  /\ Rig!Rig # None /\ from = Rig!Rig.id
           /\ Rig!Rig.id \in Rig!Id /\ Rig!Rig.row \in Rig!Row
  <1>1. Rig!Rig # None
    BY DEF Rig!View
  <1>2. query.data \in Rig!Rows \cup {None}
    BY DEF RigInv, Rig!TypeOK, Rig!Query
  <1>3. QED BY <1>1, <1>2, RigShown DEF Rig!Rig, RigInv, FromShown

LEMMA LeaveStep == ASSUME RigInv, Rig!Leave PROVE RigInv'
  <1> USE DEF Rig!Leave
  <1>1. editor' \in Field \cup {None}
    OBVIOUS
  <1>2. CASE UNCHANGED <<call, sent>>
    BY <1>1, <1>2, PageSteps DEF RigInv, Rig!TypeOK
  <1>3. CASE /\ ~Rig!Refused /\ says' = "saving"
             /\ Rig!Begin("save", Rig!Rig.id, draft)
    <2>1. draft \in Rig!Vals
      BY <1>3 DEF Rig!Refused, Rig!Vals, Rig!Draft, RigInv, Rig!TypeOK
    <2>2. /\ call' \in [Call -> Rig!Mutation(Rig!Arg, {None}) \cup {None}]
          /\ sent' \in 0 .. MaxCalls
          /\ CallsComplete' /\ ~NothingWrites'
      BY <1>3, <2>1, ViewShows, RigBegins
    <2>3. Rig!TypeOK'
      BY <1>1, <1>3, <2>2 DEF RigInv, Rig!TypeOK
    <2>4. query.data # None
      BY ViewShows DEF Rig!Rig, Rig!RigOf
    <2>5. QED BY <2>2, <2>3, <2>4 DEF RigInv, FromShown, Rig!Rig, ListFollows
  <1>4. QED BY <1>2, <1>3

LEMMA SubmitSteps ==
    ASSUME RigInv, Rig!ConfirmDelete \/ Rig!Submit
    PROVE  RigInv'
  <1>1. /\ call' \in [Call -> Rig!Mutation(Rig!Arg, {None}) \cup {None}]
        /\ sent' \in 0 .. MaxCalls
        /\ CallsComplete' /\ ~NothingWrites'
    <2>1. CASE Rig!ConfirmDelete
      BY <2>1, ViewShows, RigBegins DEF Rig!ConfirmDelete
    <2>2. CASE Rig!Submit
      <3>1. form \in Rig!Vals
        BY <2>2 DEF Rig!Submit, RigInv, Rig!TypeOK, Rig!Form
      <3>2. QED BY <2>2, <3>1, RigBegins DEF Rig!Submit
    <2>3. QED BY <2>1, <2>2
  <1>2. UNCHANGED <<rigs, used, query, editor, draft, from, says, prompt,
                    dialog, form>>
    BY DEF Rig!ConfirmDelete, Rig!Submit, Rig!page
  <1>3. Rig!TypeOK'
    BY <1>1, <1>2 DEF RigInv, Rig!TypeOK
  <1>4. query.data # None
    BY DEF Rig!ConfirmDelete, Rig!Submit, Rig!View
  <1>5. QED
    BY <1>1, <1>2, <1>3, <1>4 DEF RigInv, FromShown, Rig!Rig, ListFollows

LEMMA EditorSteps ==
    ASSUME RigInv,
           \/ \E f \in Field : Rig!Edit(f)
           \/ \E v \in Text \cup {Bad} : Rig!Type(v)
           \/ Rig!Escape \/ Rig!SavedFades \/ Rig!Prompt
           \/ Rig!OpenDialog \/ Rig!CloseDialog
           \/ \E v \in Rig!Form : Rig!Fill(v)
    PROVE  RigInv'
  <1> USE PageSteps DEF RigInv, Rig!TypeOK
  <1>1. CASE \E f \in Field : Rig!Edit(f)
    BY <1>1 DEF Rig!Edit
  <1>2. CASE \E v \in Text \cup {Bad} : Rig!Type(v)
    <2>1. draft' \in Rig!Draft
      BY <1>2 DEF Rig!Type, Rig!Draft
    <2>2. QED BY <1>2, <2>1 DEF Rig!Type
  <1>3. CASE Rig!Escape
    <2>1. editor \in Field
      BY <1>3 DEF Rig!Escape, Rig!Escapes
    <2>2. Rig!Rig.row.val[editor] \in Text
      BY <1>3, <2>1, ViewShows DEF Rig!Escape, Rig!Row, Rig!Vals
    <2>3. draft' \in Rig!Draft
      BY <1>3, <2>2 DEF Rig!Escape, Rig!Draft
    <2>4. QED BY <1>3, <2>3 DEF Rig!Escape
  <1>4. CASE Rig!SavedFades
    BY <1>4 DEF Rig!SavedFades
  <1>5. CASE Rig!Prompt
    BY <1>5 DEF Rig!Prompt
  <1>6. CASE Rig!OpenDialog
    BY <1>6 DEF Rig!OpenDialog
  <1>7. CASE Rig!CloseDialog
    BY <1>7 DEF Rig!CloseDialog, Rig!Form
  <1>8. CASE \E v \in Rig!Form : Rig!Fill(v)
    BY <1>8 DEF Rig!Fill
  <1>9. QED BY <1>1, <1>2, <1>3, <1>4, <1>5, <1>6, <1>7, <1>8

(* A list arrives: the drafts become those of the rig it shows.              *)
LEMMA FetchedStep == ASSUME RigInv, Rig!Fetched PROVE RigInv'
  <1> USE DEF RigInv, Rig!TypeOK, Rig!Fetched
  <1>1. /\ query' \in Rig!Query(Rig!Rows \cup {None})
        /\ query'.data = query.got /\ query'.st = "idle"
        /\ query'.data \in Rig!Rows \cup {None}
    BY DEF Rig!Arrived, Rig!Query
  <1>2. Rig!Rig' = Rig!RigOf(query'.data)
    BY DEF Rig!Rig
  <1>3. Rig!Rig' # None => /\ Rig!Rig'.id \in Rig!Id
                           /\ Rig!Rig'.row \in Rig!Row
    BY <1>1, <1>2, RigShown
  <1>4. /\ from' \in Rig!Id \cup {None} /\ draft' \in Rig!Draft
        /\ FromShown'
    <2>1. CASE Rig!Rig' \in {None, Rig!Rig}
      BY <2>1 DEF Rig!ResetDrafts, FromShown
    <2>2. CASE Rig!Rig' \notin {None, Rig!Rig}
      <3>1. draft' = Rig!Rig'.row.val /\ from' = Rig!Rig'.id
        BY <2>2 DEF Rig!ResetDrafts
      <3>2. Rig!Rig'.row.val \in Rig!Vals
        BY <1>3, <2>2 DEF Rig!Row
      <3>3. draft' \in Rig!Draft
        BY <3>1, <3>2 DEF Rig!Vals, Rig!Draft
      <3>4. QED BY <1>3, <2>2, <3>1, <3>3 DEF FromShown
    <2>3. QED BY <2>1, <2>2
  <1>5. form' \in Rig!Form
    BY DEF Rig!Unmount, Rig!Form
  <1>6. ListFollows'
    BY <1>1 DEF ListFollows, NothingWrites, Rig!Settled
  <1>7. Rig!TypeOK'
    BY <1>1, <1>4, <1>5
  <1>8. QED BY <1>4, <1>6, <1>7 DEF CallsComplete

(* The other steps of the query keep what it shows.                         *)
LEMMA QuerySteps ==
    ASSUME RigInv, Rig!FetchFails \/ Rig!Refetch \/ Rig!List
    PROVE  RigInv'
  <1> USE DEF RigInv, Rig!TypeOK
  <1>1. /\ query' \in Rig!Query(Rig!Rows \cup {None})
        /\ query'.data = query.data
    <2>1. CASE Rig!FetchFails
      BY <2>1 DEF Rig!FetchFails, Rig!Failed, Rig!Query
    <2>2. CASE Rig!Refetch
      BY <2>2 DEF Rig!Refetch, Rig!Asked, Rig!Query
    <2>3. CASE Rig!List
      BY <2>3 DEF Rig!List, Rig!Answered, Rig!Query
    <2>4. QED BY <2>1, <2>2, <2>3
  <1>2. /\ query'.st = "answered" => query'.got = rigs
        /\ ~Rig!Settled(query')
    BY DEF Rig!FetchFails, Rig!Refetch, Rig!List, Rig!Failed, Rig!Asked,
           Rig!Marked, Rig!Answered, Rig!Query, Rig!Settled
  <1>0. rigs # None
    BY RigAssumption DEF Rig!FieldAssumption
  <1>3. form' \in Rig!Form
    BY DEF Rig!FetchFails, Rig!Refetch, Rig!List, Rig!Unmount, Rig!Form,
           Rig!page
  <1>4. UNCHANGED <<rigs, used, editor, draft, from, says, prompt, dialog,
                    call, sent>>
    BY DEF Rig!FetchFails, Rig!Refetch, Rig!List, Rig!page
  <1>5. Rig!TypeOK'
    BY <1>1, <1>3, <1>4
  <1>6. FromShown' /\ CallsComplete'
    BY <1>1, <1>4 DEF FromShown, Rig!Rig, CallsComplete
  <1>7. ListFollows'
    BY <1>0, <1>1, <1>2, <1>4 DEF ListFollows, NothingWrites, Rig!Settled
  <1>8. QED BY <1>5, <1>6, <1>7

(* A mutation returns: the list is asked for again.                         *)
LEMMA ReturnStep ==
    ASSUME RigInv, NEW c \in Call, Rig!Return(c)
    PROVE  RigInv'
  <1> USE DEF RigInv, Rig!TypeOK, Rig!Return
  <1>1. /\ query' \in Rig!Query(Rig!Rows \cup {None})
        /\ query'.data = query.data /\ query'.st = "asked"
        /\ query.data # None
    BY DEF ListFollows, NothingWrites, Rig!AfterCall, Rig!Asked, Rig!Query
  <1>2. /\ call' \in [Call -> Rig!Mutation(Rig!Arg, {None}) \cup {None}]
        /\ \A d \in Call : call'[d] # None => call'[d] = call[d]
    OBVIOUS
  <1>3. /\ says' \in {"idle", "saving", "saved", "error"}
        /\ form' \in Rig!Form
    BY DEF Rig!Outcome, Rig!Form
  <1>4. prompt' \in BOOLEAN /\ dialog' \in BOOLEAN
    BY DEF Rig!Outcome
  <1>5. Rig!TypeOK'
    BY <1>1, <1>2, <1>3, <1>4
  <1>6. FromShown' /\ CallsComplete'
    BY <1>1, <1>2 DEF FromShown, Rig!Rig, CallsComplete
  <1>7. ListFollows'
    BY <1>1 DEF ListFollows, Rig!Settled
  <1>8. QED BY <1>5, <1>6, <1>7

LEMMA RigMissed ==
    ASSUME NEW m \in Rig!Mutation(Rig!Arg, {None})
    PROVE  /\ Rig!Missed(m) \in Rig!Mutation(Rig!Arg, {None})
           /\ Rig!Missed(m).arg = m.arg
  <1> USE DEF Rig!Mutation, Rig!Missed, Rig!Started
  <1>1. CASE m.tries < Retries
    <2>1. m.tries + 1 \in 0 .. Retries
      BY <1>1, RetriesAssumption
    <2>2. QED BY <1>1, <2>1
  <1>2. CASE ~(m.tries < Retries)
    <2>1. Rig!Missed(m) = [m EXCEPT !.st = "error", !.ans = None]
      BY <1>2
    <2>2. QED BY <2>1
  <1>3. QED BY <1>1, <1>2

(* What the server does to a call keeps what it carries.                    *)
LEMMA CallChanges ==
    ASSUME RigInv, NEW c \in Call, call[c] # None,
           NEW m, m \in {Rig!Done(call[c], None), Rig!Missed(call[c])},
           call' = [call EXCEPT ![c] = m], UNCHANGED <<from, query>>
    PROVE  /\ call' \in [Call -> Rig!Mutation(Rig!Arg, {None}) \cup {None}]
           /\ FromShown' /\ CallsComplete' /\ ListFollows'
  <1> USE RigAssumption DEF Rig!FieldAssumption, RigInv, Rig!TypeOK
  <1>1. call[c] \in Rig!Mutation(Rig!Arg, {None})
    OBVIOUS
  <1>2. m \in Rig!Mutation(Rig!Arg, {None}) /\ m.arg = call[c].arg
    <2>1. CASE m = Rig!Done(call[c], None)
      BY <1>1, <2>1 DEF Rig!Done, Rig!Mutation
    <2>2. CASE m = Rig!Missed(call[c])
      BY <1>1, <2>2, RigMissed
    <2>3. QED BY <2>1, <2>2
  <1>3. call' \in [Call -> Rig!Mutation(Rig!Arg, {None}) \cup {None}]
    BY <1>2
  <1>4. CallsComplete'
    BY <1>2 DEF CallsComplete, CallComplete
  <1>5. call'[c] # None
    BY <1>2
  <1>6. FromShown' /\ ListFollows'
    BY <1>5 DEF FromShown, Rig!Rig, ListFollows, NothingWrites
  <1>7. QED BY <1>3, <1>4, <1>6

LEMMA ServeStep ==
    ASSUME RigInv, NEW c \in Call, Rig!Serve(c)
    PROVE  RigInv'
  <1> USE DEF RigInv, Rig!TypeOK, Rig!Serve
  <1> DEFINE a == call[c].arg
  <1>1. CallComplete(call[c]) /\ a.kind \in {"save", "create", "delete"}
    BY DEF CallsComplete, Rig!Mutation, Rig!Arg
  <1>2. rigs' \in Rig!Rows /\ used' \in 0 .. MaxRigs
    <2>1. CASE a.kind = "create" /\ Rig!Create(a)
      <3>1. used' \in 0 .. MaxRigs
        BY <2>1, RigAssumption DEF Rig!Create, Rig!FieldAssumption
      <3>2. Rig!Fresh(a.val) \in Rig!Row
        BY <1>1, <2>1 DEF CallComplete, Rig!Fresh, Rig!Row
      <3>3. QED BY <2>1, <3>1, <3>2 DEF Rig!Create, Rig!Rows
    <2>2. CASE a.kind = "save" /\ Rig!Update(a)
      <3>1. a.id \in Rig!Id /\ a.val \in Rig!Vals /\ rigs[a.id] \in Rig!Row
        BY <1>1, <2>2 DEF CallComplete, Rig!Update, Rig!Rows
      <3>2. [val |-> a.val, at |-> rigs[a.id].at + 1] \in Rig!Row
        BY <3>1 DEF Rig!Row
      <3>3. QED BY <2>2, <3>1, <3>2 DEF Rig!Update, Rig!Rows
    <2>3. CASE a.kind = "delete" /\ Rig!Delete(a)
      BY <2>3 DEF Rig!Delete, Rig!Rows
    <2>4. QED BY <2>1, <2>2, <2>3
  <1>3. /\ call' \in [Call -> Rig!Mutation(Rig!Arg, {None}) \cup {None}]
        /\ FromShown' /\ CallsComplete' /\ ListFollows'
    BY CallChanges DEF Rig!page
  <1>4. Rig!TypeOK'
    BY <1>2, <1>3 DEF Rig!page
  <1>5. QED BY <1>3, <1>4

LEMMA MissStep ==
    ASSUME RigInv, NEW c \in Call, Rig!Miss(c)
    PROVE  RigInv'
  <1> USE DEF RigInv, Rig!Miss
  <1>1. /\ call' \in [Call -> Rig!Mutation(Rig!Arg, {None}) \cup {None}]
        /\ FromShown' /\ CallsComplete' /\ ListFollows'
    BY CallChanges DEF Rig!page
  <1>2. Rig!TypeOK'
    BY <1>1 DEF Rig!TypeOK, Rig!page
  <1>3. QED BY <1>1, <1>2

LEMMA RigStep == RigInv /\ [Rig!Next]_(Rig!vars) => RigInv'
  <1> SUFFICES ASSUME RigInv, [Rig!Next]_(Rig!vars) PROVE RigInv'
    OBVIOUS
  <1>1. CASE UNCHANGED Rig!vars
    BY <1>1 DEF Rig!vars, Rig!page, RigInv, Rig!TypeOK, FromShown, Rig!Rig,
                CallsComplete, ListFollows, NothingWrites
  <1>2. CASE Rig!Next
    BY <1>2, EditorSteps, LeaveStep, SubmitSteps, FetchedStep, QuerySteps,
       ReturnStep, ServeStep, MissStep DEF Rig!Next
  <1>3. QED BY <1>1, <1>2

LEMMA RigAlways == Rig!Spec => []RigInv
  BY RigStart, RigStep, PTL DEF Rig!Spec
-----------------------------------------------------------------------------
(* The gear of a rig.  Identifiers do not come back: the table, the lists of *)
(* the page and its open dialogs only have items that were given.            *)
OnlyDrawn(list) == \A i \in Thing : list[i] # None => i \in drawn
ListDrawn(list) == list # None => OnlyDrawn(list)

ItemsDrawn ==
    /\ OnlyDrawn(gear)
    /\ ListDrawn(gearQuery.data) /\ ListDrawn(gearQuery.got)
    /\ editing # None => editing \in drawn
    /\ dropping # None => dropping \in drawn

(* A handler that found nothing to write still finds nothing, and what was   *)
(* refused is still missing: a rig that went and an item that went stay away.*)
RefusalHolds(c) ==
    LET m == gearCall[c]
        i == m.arg.id
        gone == i \in drawn /\ gear[i] = None IN
    /\ m.arg.kind \in {"update", "delete"} => i \in drawn
    /\ m.arg.kind \in {"update", "delete"} /\ stage[c] = "second"
         => ~rig \/ gone
    /\ m.ans \in {"no_rig", "no_reference"} => ~rig
    /\ m.ans = "no_gear" => gone

GearCalls ==
    \A c \in Call : IF gearCall[c] = None THEN stage[c] = "first"
                    ELSE RefusalHolds(c)

NoGearCalls == \A c \in Call : gearCall[c] = None

GearFollows ==
    /\ NoGearCalls /\ rig =>
          /\ gearQuery.st = "answered" => gearQuery.got = gear
          /\ Gear!Settled(gearQuery) => gearQuery.data = gear
    /\ NoGearCalls \/ gearQuery.data # None
    /\ gearQuery.st = "answered" => gearQuery.got # None

GearInv == /\ Gear!TypeOK /\ Gear!NoGearWithoutRig
           /\ ItemsDrawn /\ GearCalls /\ GearFollows

GearMutation == Gear!Mutation(Gear!Arg, Gear!Reply \cup {None})
-----------------------------------------------------------------------------
LEMMA GearStart == Gear!Init => GearInv
  <1> SUFFICES ASSUME Gear!Init PROVE GearInv
    OBVIOUS
  <1> USE DEF Gear!Init
  <1>1. gear \in Gear!Gear /\ drawn \subseteq Thing
    BY DEF Gear!Gear, Gear!Form
  <1>2. gearQuery \in Gear!Query(Gear!Gear \cup {None})
    BY DEF Gear!Opened, Gear!Query
  <1>3. gearSent \in 0 .. MaxCalls
    BY RigAssumption DEF Gear!GearAssumption
  <1>4. Gear!TypeOK
    BY <1>1, <1>2, <1>3, Zenon DEF Gear!TypeOK, Gear!Form
  <1>5. ItemsDrawn
    BY DEF ItemsDrawn, ListDrawn, OnlyDrawn, Gear!Opened
  <1>6. GearCalls /\ GearFollows
    BY DEF GearCalls, GearFollows, NoGearCalls, Gear!Opened, Gear!Settled
  <1>7. QED BY <1>4, <1>5, <1>6 DEF GearInv, Gear!NoGearWithoutRig

(* A mutation begins, of an item that was given unless it adds one.          *)
LEMMA GearBegins ==
    ASSUME GearInv, NEW k \in Gear!Kind, NEW i \in Thing \cup {None},
           NEW v \in Text \cup {None}, k # "create" => i \in drawn,
           Gear!Begin(k, i, v), Gear!View = "list",
           UNCHANGED <<rig, gear, drawn, gearQuery, adding, editing, dropping,
                       gearForm, stage>>
    PROVE  GearInv'
  <1> USE RigAssumption DEF Gear!GearAssumption, GearInv, Gear!TypeOK,
                            Gear!Begin
  <1> DEFINE a == [kind |-> k, id |-> i, val |-> v]
  <1>1. a \in Gear!Arg
    BY DEF Gear!Arg
  <1>2. Gear!Started(a) \in GearMutation
    BY <1>1, RetriesAssumption DEF Gear!Started, Gear!Mutation, GearMutation
  <1>3. PICK c \in Call : /\ gearCall[c] = None
                          /\ gearCall' = [gearCall EXCEPT ![c] =
                                            Gear!Started(a)]
                          /\ watch' = [watch EXCEPT ![k] = c]
    OBVIOUS
  <1>4. /\ gearCall' \in [Call -> GearMutation \cup {None}]
        /\ gearCall'[c] # None
    BY <1>2, <1>3 DEF GearMutation
  <1>5. watch' \in [Gear!Kind -> Call \cup {None}]
    BY <1>3
  <1>6. gearSent' \in 0 .. MaxCalls
    OBVIOUS
  <1>7. Gear!TypeOK'
    BY <1>4, <1>5, <1>6 DEF GearMutation
  <1>8. GearCalls'
    <2>1. RefusalHolds(c)'
      BY <1>3 DEF RefusalHolds, GearCalls, Gear!Started, Gear!Reply
    <2>2. \A d \in Call \ {c} : gearCall'[d] = gearCall[d]
      BY <1>3
    <2>3. QED BY <1>4, <2>1, <2>2 DEF GearCalls, RefusalHolds
  <1>9. GearFollows'
    BY <1>4 DEF GearFollows, NoGearCalls, Gear!View
  <1>10. QED
    BY <1>7, <1>8, <1>9
       DEF ItemsDrawn, ListDrawn, OnlyDrawn, Gear!NoGearWithoutRig

(* Steps of the page leave the rows and the calls alone.                     *)
LEMMA GearPageSteps ==
    ASSUME GearInv,
           UNCHANGED <<rig, gear, drawn, gearCall, stage, gearSent>>,
           gearQuery' \in Gear!Query(Gear!Gear \cup {None}),
           gearQuery' = gearQuery
             \/ /\ ListDrawn(gearQuery'.data) /\ ListDrawn(gearQuery'.got)
                /\ gearQuery'.data = gearQuery.data
                /\ gearQuery'.st = "answered" => gearQuery'.got # None
                /\ rig => /\ gearQuery'.st = "answered" => gearQuery'.got = gear
                          /\ Gear!Settled(gearQuery') /\ NoGearCalls
                               => gearQuery'.data = gear,
           adding' \in BOOLEAN, gearForm' \in Gear!Form,
           editing' \in (drawn \cap Thing) \cup {None},
           dropping' \in (drawn \cap Thing) \cup {None},
           watch' \in [Gear!Kind -> Call \cup {None}]
    PROVE  GearInv'
  <1> USE DEF GearInv
  <1>1. Gear!TypeOK'
    BY DEF Gear!TypeOK
  <1>2. ItemsDrawn'
    BY DEF ItemsDrawn, ListDrawn, OnlyDrawn
  <1>3. GearFollows'
    BY DEF GearFollows, NoGearCalls, Gear!Settled
  <1>4. QED
    BY <1>1, <1>2, <1>3 DEF GearCalls, RefusalHolds, Gear!NoGearWithoutRig

LEMMA DialogSteps ==
    ASSUME GearInv,
           \/ Gear!OpenAdd \/ Gear!Dismiss
           \/ \E i \in Thing : Gear!OpenEdit(i) \/ Gear!OpenDelete(i)
           \/ \E v \in Gear!Form : Gear!Fill(v)
    PROVE  GearInv'
  <1> USE GearPageSteps DEF GearInv, Gear!TypeOK, Gear!Form
  <1>0. /\ editing \in (drawn \cap Thing) \cup {None}
        /\ dropping \in (drawn \cap Thing) \cup {None}
    BY DEF ItemsDrawn
  <1>1. CASE Gear!OpenAdd
    BY <1>0, <1>1 DEF Gear!OpenAdd
  <1>2. CASE Gear!Dismiss
    BY <1>0, <1>2 DEF Gear!Dismiss, Gear!Close
  <1>3. ASSUME NEW i \in Thing, Gear!OpenEdit(i) \/ Gear!OpenDelete(i)
        PROVE  GearInv'
    <2>1. gearQuery.data # None
      BY <1>3 DEF Gear!OpenEdit, Gear!OpenDelete, Gear!View
    <2>2. gearQuery.data \in Gear!Gear /\ gearQuery.data[i] # None
      BY <1>3, <2>1 DEF Gear!OpenEdit, Gear!OpenDelete, Gear!Query
    <2>3. i \in drawn /\ gearQuery.data[i] \in Text
      BY <2>1, <2>2 DEF ItemsDrawn, ListDrawn, OnlyDrawn, Gear!Gear
    <2>4. QED BY <1>0, <1>3, <2>3 DEF Gear!OpenEdit, Gear!OpenDelete
  <1>4. CASE \E v \in Gear!Form : Gear!Fill(v)
    BY <1>0, <1>4 DEF Gear!Fill
  <1>5. QED BY <1>1, <1>2, <1>3, <1>4

LEMMA GearSubmits ==
    ASSUME GearInv,
           Gear!SubmitAdd \/ Gear!SubmitEdit \/ Gear!ConfirmDelete
    PROVE  GearInv'
  <1> USE GearBegins DEF Gear!Kind, Gear!page
  <1>0. /\ editing # None => editing \in drawn /\ editing \in Thing
        /\ dropping # None => dropping \in drawn /\ dropping \in Thing
        /\ gearForm \in Text \cup {None}
    BY DEF GearInv, Gear!TypeOK, ItemsDrawn, Gear!Form
  <1>1. CASE Gear!SubmitAdd
    BY <1>0, <1>1 DEF Gear!SubmitAdd
  <1>2. CASE Gear!SubmitEdit
    BY <1>0, <1>2 DEF Gear!SubmitEdit
  <1>3. CASE Gear!ConfirmDelete
    BY <1>0, <1>3 DEF Gear!ConfirmDelete
  <1>4. QED BY <1>1, <1>2, <1>3

LEMMA GearQuerySteps ==
    ASSUME GearInv,
           Gear!Fetched \/ Gear!FetchFails \/ Gear!Refetch \/ Gear!List
    PROVE  GearInv'
  <1> USE DEF GearInv, Gear!TypeOK
  <1>0. /\ editing \in (drawn \cap Thing) \cup {None}
        /\ dropping \in (drawn \cap Thing) \cup {None}
    BY DEF ItemsDrawn
  <1> DEFINE q == gearQuery'
  <1>1. CASE Gear!Fetched
    <2>1. q \in Gear!Query(Gear!Gear \cup {None})
          /\ q.data = gearQuery.got /\ q.st = "idle" /\ q.got = None
      BY <1>1 DEF Gear!Fetched, Gear!Arrived, Gear!Query
    <2>2. Gear!TypeOK'
      BY <1>1, <2>1 DEF Gear!Fetched, Gear!page
    <2>3. ItemsDrawn'
      BY <1>1, <2>1
         DEF Gear!Fetched, Gear!page, ItemsDrawn, ListDrawn, OnlyDrawn
    <2>4. GearFollows'
      BY <1>1, <2>1 DEF Gear!Fetched, GearFollows, NoGearCalls, Gear!Settled
    <2>5. QED
      BY <1>1, <2>2, <2>3, <2>4 DEF Gear!Fetched, GearCalls, RefusalHolds,
                                    Gear!NoGearWithoutRig
  <1>2. CASE Gear!FetchFails
    <2>1. /\ q \in Gear!Query(Gear!Gear \cup {None})
          /\ q.data = gearQuery.data /\ q.got = None /\ q.st = "idle" /\ q.err
      BY <1>2 DEF Gear!FetchFails, Gear!Failed, Gear!Query
    <2>2. watch' \in [Gear!Kind -> Call \cup {None}]
      BY <1>2 DEF Gear!FetchFails
    <2>3. ListDrawn(q.data) /\ ListDrawn(q.got) /\ ~Gear!Settled(q)
      BY <2>1 DEF ItemsDrawn, ListDrawn, OnlyDrawn, Gear!Settled
    <2>4. QED BY <1>0, <1>2, <2>1, <2>2, <2>3, GearPageSteps
                 DEF Gear!FetchFails, Gear!Form
  <1>3. CASE Gear!Refetch \/ Gear!List
    <2>1. /\ q \in Gear!Query(Gear!Gear \cup {None})
          /\ q.data = gearQuery.data /\ q.got \in {None, gear}
          /\ q.st \in {"asked", "answered"}
          /\ q.st = "answered" => q.got = gear /\ q.got # None
      <3>1. CASE Gear!Refetch
        BY <3>1 DEF Gear!Refetch, Gear!Asked, Gear!Query
      <3>2. CASE Gear!List
        BY <3>2, RigAssumption DEF Gear!GearAssumption, Gear!List,
                                   Gear!Answered, Gear!Query
      <3>3. QED BY <1>3, <3>1, <3>2
    <2>2. ListDrawn(q.data) /\ ListDrawn(q.got) /\ ~Gear!Settled(q)
      BY <2>1 DEF ItemsDrawn, ListDrawn, OnlyDrawn, Gear!Settled
    <2>3. QED BY <1>0, <1>3, <2>1, <2>2, GearPageSteps
                 DEF Gear!Refetch, Gear!List, Gear!page, Gear!Form
  <1>4. QED BY <1>1, <1>2, <1>3

(* A mutation returns: the list is asked for again.                          *)
LEMMA GearReturns ==
    ASSUME GearInv, NEW c \in Call, Gear!Return(c)
    PROVE  GearInv'
  <1> USE DEF GearInv, Gear!TypeOK, Gear!Return
  <1>1. /\ gearQuery' \in Gear!Query(Gear!Gear \cup {None})
        /\ gearQuery'.data = gearQuery.data /\ gearQuery'.got = None
        /\ gearQuery'.st = "asked" /\ gearQuery.data # None
    BY DEF GearFollows, NoGearCalls, Gear!AfterCall, Gear!Asked, Gear!Query
  <1>2. /\ gearCall' = [gearCall EXCEPT ![c] = None]
        /\ stage' = [stage EXCEPT ![c] = "first"]
        /\ watch' \in [Gear!Kind -> Call \cup {None}]
        /\ UNCHANGED <<rig, gear, drawn, gearSent>>
    OBVIOUS
  <1>3. /\ adding' \in BOOLEAN /\ editing' \in {editing, None}
        /\ dropping' \in {dropping, None} /\ gearForm' \in {gearForm, None}
    OBVIOUS
  <1>4. Gear!TypeOK'
    BY <1>1, <1>2, <1>3 DEF Gear!Form
  <1>5. ItemsDrawn'
    BY <1>1, <1>2, <1>3 DEF ItemsDrawn, ListDrawn, OnlyDrawn
  <1>6. GearCalls'
    BY <1>2 DEF GearCalls, RefusalHolds
  <1>7. GearFollows'
    BY <1>1 DEF GearFollows, Gear!Settled
  <1>8. Gear!NoGearWithoutRig'
    BY <1>2 DEF Gear!NoGearWithoutRig
  <1>9. QED BY <1>4, <1>5, <1>6, <1>7, <1>8

(* The rig goes, and its gear: what was refused stays refused.               *)
LEMMA RigGoes == ASSUME GearInv, Gear!RigDeleted PROVE GearInv'
  <1> USE DEF GearInv, Gear!TypeOK, Gear!RigDeleted, Gear!page
  <1>1. rig' = FALSE /\ gear' \in Gear!Gear
        /\ \A i \in Thing : gear'[i] = None
    BY DEF Gear!Gear, Gear!Form
  <1>2. Gear!TypeOK'
    BY <1>1
  <1>3. ItemsDrawn'
    BY <1>1 DEF ItemsDrawn, ListDrawn, OnlyDrawn
  <1>4. GearCalls'
    <2>1. ASSUME NEW c \in Call, gearCall[c] # None, RefusalHolds(c)
          PROVE  RefusalHolds(c)'
      BY <1>1, <2>1 DEF RefusalHolds
    <2>2. QED BY <2>1 DEF GearCalls
  <1>5. GearFollows' /\ Gear!NoGearWithoutRig'
    BY <1>1 DEF GearFollows, NoGearCalls, Gear!NoGearWithoutRig
  <1>6. QED BY <1>2, <1>3, <1>4, <1>5

(* A step of the handler of c: what it does to the rows and to its call.     *)
LEMMA HandlerStep ==
    ASSUME GearInv, NEW c \in Call, gearCall[c] # None,
           NEW m \in GearMutation, NEW s \in {"first", "second"},
           gearCall' = [gearCall EXCEPT ![c] = m],
           stage' = [stage EXCEPT ![c] = s],
           UNCHANGED <<rig, gearQuery, adding, editing, dropping, gearForm,
                       watch, gearSent>>,
           gear' \in Gear!Gear, drawn' \in SUBSET Thing, drawn \subseteq drawn',
           OnlyDrawn(gear)', rig \/ gear' = gear,
           \A i \in drawn : gear[i] = None => gear'[i] = None,
           RefusalHolds(c)'
    PROVE  GearInv'
  <1> USE RigAssumption DEF Gear!GearAssumption, GearInv, Gear!TypeOK,
                            GearMutation
  <1>1. gearCall' \in [Call -> GearMutation \cup {None}] /\ gearCall'[c] # None
    OBVIOUS
  <1>2. Gear!TypeOK'
    BY <1>1
  <1>3. ItemsDrawn'
    BY DEF ItemsDrawn, ListDrawn, OnlyDrawn
  <1>4. GearCalls'
    <2>1. ASSUME NEW d \in Call \ {c}
          PROVE  IF gearCall'[d] = None THEN stage'[d] = "first"
                 ELSE RefusalHolds(d)'
      <3>1. gearCall'[d] = gearCall[d] /\ stage'[d] = stage[d]
        OBVIOUS
      <3>2. CASE gearCall[d] = None
        BY <3>1, <3>2 DEF GearCalls
      <3>3. CASE gearCall[d] # None
        BY <3>1, <3>3 DEF GearCalls, RefusalHolds
      <3>4. QED BY <3>2, <3>3
    <2>2. QED BY <1>1, <2>1 DEF GearCalls
  <1>5. GearFollows'
    BY <1>1 DEF GearFollows, NoGearCalls
  <1>6. Gear!NoGearWithoutRig'
    BY DEF Gear!NoGearWithoutRig
  <1>7. QED BY <1>2, <1>3, <1>4, <1>5, <1>6

LEMMA GearMissed ==
    ASSUME NEW m \in GearMutation
    PROVE  /\ Gear!Missed(m) \in GearMutation
           /\ Gear!Missed(m).arg = m.arg /\ Gear!Missed(m).ans = None
  <1> USE DEF GearMutation, Gear!Mutation, Gear!Missed, Gear!Started
  <1>1. CASE m.tries < Retries
    <2>1. m.tries + 1 \in 0 .. Retries
      BY <1>1, RetriesAssumption
    <2>2. QED BY <1>1, <2>1
  <1>2. CASE ~(m.tries < Retries)
    <2>1. Gear!Missed(m) = [m EXCEPT !.st = "error", !.ans = None]
      BY <1>2
    <2>2. QED BY <2>1
  <1>3. QED BY <1>1, <1>2

(* The handler answers r.                                                    *)
LEMMA GearAnswers ==
    ASSUME GearInv, NEW c \in Call, gearCall[c] # None, NEW r \in Gear!Reply,
           Gear!Answer(c, r)
    PROVE  \E m \in GearMutation :
              /\ m.arg = gearCall[c].arg /\ m.ans = r
              /\ gearCall' = [gearCall EXCEPT ![c] = m]
              /\ stage' = [stage EXCEPT ![c] = "first"]
  <1>1. gearCall[c] \in GearMutation
    BY DEF GearInv, Gear!TypeOK, GearMutation
  <1>2. CASE r = "done"
    <2> DEFINE m == Gear!Done(gearCall[c], r)
    <2>1. m \in GearMutation /\ m.arg = gearCall[c].arg /\ m.ans = r
      BY <1>1 DEF Gear!Done, GearMutation, Gear!Mutation
    <2>2. QED BY <1>2, <2>1 DEF Gear!Answer
  <1>3. CASE r # "done"
    <2> DEFINE m == [Gear!Missed(gearCall[c]) EXCEPT !.ans = r]
    <2>1. m \in GearMutation /\ m.arg = gearCall[c].arg /\ m.ans = r
      BY <1>1, GearMissed DEF GearMutation, Gear!Mutation
    <2>2. QED BY <1>3, <2>1 DEF Gear!Answer
  <1>4. QED BY <1>2, <1>3

LEMMA ServingFacts ==
    ASSUME GearInv, NEW c \in Call, NEW k, NEW s, Gear!Serving(c, k, s)
    PROVE  /\ gearCall[c] # None /\ gearCall[c] \in GearMutation
           /\ gearCall[c].arg \in Gear!Arg /\ gearCall[c].arg.kind \in k
           /\ RefusalHolds(c) /\ stage[c] = s
  BY DEF Gear!Serving, GearInv, Gear!TypeOK, GearCalls, GearMutation,
         Gear!Mutation

LEMMA CheckRigStep ==
    ASSUME GearInv, NEW c \in Call, Gear!CheckRig(c)
    PROVE  GearInv'
  <1> USE DEF Gear!CheckRig, Gear!page
  <1>1. /\ gearCall[c] # None /\ gearCall[c] \in GearMutation
        /\ gearCall[c].arg.kind = "create" /\ RefusalHolds(c)
    BY ServingFacts
  <1>2. PICK m \in GearMutation, s \in {"first", "second"} :
           /\ gearCall' = [gearCall EXCEPT ![c] = m]
           /\ stage' = [stage EXCEPT ![c] = s]
           /\ m.arg = gearCall[c].arg
           /\ m.ans = gearCall[c].ans \/ (m.ans = "no_rig" /\ ~rig)
    <2>1. CASE rig
      <3>1. gearCall' = [gearCall EXCEPT ![c] = gearCall[c]]
        BY <2>1 DEF Gear!Second, GearInv, Gear!TypeOK
      <3>2. QED BY <1>1, <2>1, <3>1 DEF Gear!Second
    <2>2. CASE ~rig
      BY <1>1, <2>2, GearAnswers DEF Gear!Reply
    <2>3. QED BY <2>1, <2>2
  <1>3. RefusalHolds(c)'
    BY <1>1, <1>2 DEF RefusalHolds, GearInv, Gear!TypeOK
  <1>4. gear' \in Gear!Gear /\ drawn' \in SUBSET Thing /\ OnlyDrawn(gear)'
    BY DEF GearInv, Gear!TypeOK, ItemsDrawn, ListDrawn, OnlyDrawn
  <1>5. QED BY <1>1, <1>2, <1>3, <1>4, HandlerStep

LEMMA InsertStep ==
    ASSUME GearInv, NEW c \in Call, Gear!Insert(c)
    PROVE  GearInv'
  <1> USE DEF Gear!Insert, Gear!page
  <1>1. /\ gearCall[c] # None /\ gearCall[c] \in GearMutation
        /\ gearCall[c].arg \in Gear!Arg
        /\ gearCall[c].arg.kind = "create" /\ RefusalHolds(c)
    BY ServingFacts
  <1>2. CASE rig
    <2>1. PICK i \in Thing \ drawn :
             /\ gear' = [gear EXCEPT ![i] = gearCall[c].arg.val]
             /\ drawn' = drawn \cup {i}
             /\ Gear!Answer(c, "done")
      BY <1>2 DEF Gear!ForeignKey
    <2>2. PICK m \in GearMutation :
             /\ m.arg = gearCall[c].arg /\ m.ans = "done"
             /\ gearCall' = [gearCall EXCEPT ![c] = m]
             /\ stage' = [stage EXCEPT ![c] = "first"]
      BY <1>1, <2>1, GearAnswers DEF Gear!Reply
    <2>3. RefusalHolds(c)'
      <3>1. gearCall'[c] = m
        BY <2>2 DEF GearInv, Gear!TypeOK
      <3>2. gearCall'[c].arg.kind = "create" /\ gearCall'[c].ans = "done"
        BY <1>1, <2>2, <3>1
      <3>3. QED BY <3>2 DEF RefusalHolds
    <2>4. gear' \in Gear!Gear /\ drawn' \in SUBSET Thing
      BY <1>1, <2>1 DEF GearInv, Gear!TypeOK, Gear!Gear, Gear!Arg
    <2>5. /\ OnlyDrawn(gear)'
          /\ \A j \in drawn : gear[j] = None => gear'[j] = None
      <3>1. gear \in Gear!Gear /\ drawn \subseteq Thing /\ OnlyDrawn(gear)
        BY DEF GearInv, Gear!TypeOK, ItemsDrawn
      <3>2. \A j \in Thing \ {i} : gear'[j] = gear[j]
        BY <2>1, <3>1 DEF Gear!Gear
      <3>3. \A j \in Thing : gear'[j] # None => j \in drawn'
        <4>1. ASSUME NEW j \in Thing, gear'[j] # None, j # i
              PROVE  j \in drawn
          <5>1. gear[j] # None
            BY <3>2, <4>1
          <5>2. QED BY <3>1, <5>1 DEF OnlyDrawn
        <4>2. QED BY <2>1, <4>1
      <3>4. QED BY <2>1, <3>1, <3>2, <3>3 DEF OnlyDrawn
    <2>6. QED BY <1>1, <1>2, <2>1, <2>2, <2>3, <2>4, <2>5, HandlerStep
  <1>3. CASE ~rig
    <2>1. PICK m \in GearMutation :
             /\ m.arg = gearCall[c].arg /\ m.ans = "no_reference"
             /\ gearCall' = [gearCall EXCEPT ![c] = m]
             /\ stage' = [stage EXCEPT ![c] = "first"]
      BY <1>1, <1>3, GearAnswers DEF Gear!Reply, Gear!ForeignKey
    <2>2. RefusalHolds(c)'
      BY <1>1, <1>3, <2>1 DEF RefusalHolds, GearInv, Gear!TypeOK
    <2>3. gear' \in Gear!Gear /\ drawn' \in SUBSET Thing /\ OnlyDrawn(gear)'
          /\ UNCHANGED <<gear, drawn>>
      BY <1>3 DEF GearInv, Gear!TypeOK, ItemsDrawn, ListDrawn, OnlyDrawn,
                  Gear!ForeignKey
    <2>4. QED BY <1>1, <2>1, <2>2, <2>3, HandlerStep
  <1>4. QED BY <1>2, <1>3

LEMMA WriteStep ==
    ASSUME GearInv, NEW c \in Call, Gear!Write(c)
    PROVE  GearInv'
  <1> USE DEF Gear!Write, Gear!page
  <1> DEFINE a == gearCall[c].arg
  <1>1. /\ gearCall[c] # None /\ gearCall[c] \in GearMutation
        /\ a \in Gear!Arg /\ a.kind \in {"update", "delete"}
        /\ RefusalHolds(c)
    BY ServingFacts
  <1>2. a.id \in drawn /\ a.id \in Thing /\ gear \in Gear!Gear
    BY <1>1 DEF RefusalHolds, GearInv, Gear!TypeOK
  <1>3. CASE rig /\ gear[a.id] # None
    <2>1. PICK m \in GearMutation :
             /\ m.arg = a /\ m.ans = "done"
             /\ gearCall' = [gearCall EXCEPT ![c] = m]
             /\ stage' = [stage EXCEPT ![c] = "first"]
      BY <1>1, <1>3, GearAnswers DEF Gear!Reply
    <2>2. gearCall'[c] = m /\ stage'[c] = "first"
      BY <2>1 DEF GearInv, Gear!TypeOK
    <2>3. RefusalHolds(c)'
      BY <1>2, <2>1, <2>2 DEF RefusalHolds
    <2>4. gear' = [gear EXCEPT ![a.id] = a.val] /\ UNCHANGED drawn
      BY <1>3
    <2>5. gear' \in Gear!Gear /\ drawn' \in SUBSET Thing
      BY <1>1, <1>2, <2>4 DEF GearInv, Gear!TypeOK, Gear!Gear, Gear!Arg
    <2>6. /\ OnlyDrawn(gear)'
          /\ \A j \in drawn : gear[j] = None => gear'[j] = None
      BY <1>2, <1>3, <2>4
         DEF GearInv, Gear!TypeOK, Gear!Gear, ItemsDrawn, OnlyDrawn
    <2>7. QED BY <1>1, <1>3, <2>1, <2>3, <2>4, <2>5, <2>6, HandlerStep
  <1>4. CASE ~(rig /\ gear[a.id] # None)
    <2>1. /\ gearCall' = [gearCall EXCEPT ![c] = gearCall[c]]
          /\ stage' = [stage EXCEPT ![c] = "second"]
          /\ UNCHANGED <<rig, gear, drawn, gearCall>>
      BY <1>4 DEF Gear!Second, GearInv, Gear!TypeOK
    <2>2. RefusalHolds(c)'
      BY <1>1, <1>2, <1>4, <2>1 DEF RefusalHolds
    <2>3. gear' \in Gear!Gear /\ drawn' \in SUBSET Thing /\ OnlyDrawn(gear)'
      BY <2>1 DEF GearInv, Gear!TypeOK, ItemsDrawn, OnlyDrawn
    <2>4. QED BY <1>1, <2>1, <2>2, <2>3, HandlerStep
  <1>5. QED BY <1>3, <1>4

LEMMA ExplainStep ==
    ASSUME GearInv, NEW c \in Call, Gear!Explain(c)
    PROVE  GearInv'
  <1> USE DEF Gear!Explain, Gear!page
  <1>1. /\ gearCall[c] # None
        /\ gearCall[c].arg.kind \in {"update", "delete"}
        /\ RefusalHolds(c) /\ stage[c] = "second"
    BY ServingFacts
  <1>2. PICK m \in GearMutation :
           /\ m.arg = gearCall[c].arg /\ m.ans = Gear!Missing(c)
           /\ gearCall' = [gearCall EXCEPT ![c] = m]
           /\ stage' = [stage EXCEPT ![c] = "first"]
    BY <1>1, GearAnswers DEF Gear!Reply, Gear!Missing
  <1>3. gearCall'[c] = m /\ stage'[c] = "first"
    BY <1>2 DEF GearInv, Gear!TypeOK
  <1>4. RefusalHolds(c)'
    BY <1>1, <1>2, <1>3 DEF RefusalHolds, Gear!Missing
  <1>5. gear' \in Gear!Gear /\ drawn' \in SUBSET Thing /\ OnlyDrawn(gear)'
    BY DEF GearInv, Gear!TypeOK, ItemsDrawn, OnlyDrawn
  <1>6. QED BY <1>1, <1>2, <1>4, <1>5, HandlerStep

LEMMA GearMissStep ==
    ASSUME GearInv, NEW c \in Call, Gear!Miss(c)
    PROVE  GearInv'
  <1> USE DEF Gear!Miss, Gear!page
  <1>1. /\ gearCall[c] # None /\ gearCall[c] \in GearMutation
        /\ RefusalHolds(c)
    BY DEF GearInv, Gear!TypeOK, GearCalls, GearMutation
  <1>2. PICK m \in GearMutation :
           /\ m.arg = gearCall[c].arg /\ m.ans = None
           /\ gearCall' = [gearCall EXCEPT ![c] = m]
           /\ stage' = [stage EXCEPT ![c] = "first"]
    BY <1>1, GearMissed
  <1>3. gearCall'[c] = m /\ stage'[c] = "first"
    BY <1>2 DEF GearInv, Gear!TypeOK
  <1>4. RefusalHolds(c)'
    BY <1>1, <1>2, <1>3, RigAssumption
       DEF RefusalHolds, Gear!GearAssumption, Gear!Reply
  <1>5. gear' \in Gear!Gear /\ drawn' \in SUBSET Thing /\ OnlyDrawn(gear)'
    BY DEF GearInv, Gear!TypeOK, ItemsDrawn, OnlyDrawn
  <1>6. QED BY <1>1, <1>2, <1>4, <1>5, HandlerStep

LEMMA GearStep == GearInv /\ [Gear!Next]_(Gear!vars) => GearInv'
  <1> SUFFICES ASSUME GearInv, [Gear!Next]_(Gear!vars) PROVE GearInv'
    OBVIOUS
  <1>1. CASE UNCHANGED Gear!vars
    BY <1>1 DEF Gear!vars, Gear!page, GearInv, Gear!TypeOK, ItemsDrawn,
                ListDrawn, OnlyDrawn, GearCalls, RefusalHolds, GearFollows,
                NoGearCalls, Gear!NoGearWithoutRig
  <1>2. CASE Gear!Next
    BY <1>2, DialogSteps, GearSubmits, GearQuerySteps, GearReturns, RigGoes,
       CheckRigStep, InsertStep, WriteStep, ExplainStep, GearMissStep
       DEF Gear!Next
  <1>3. QED BY <1>1, <1>2

LEMMA GearAlways == Gear!Spec => []GearInv
  BY GearStart, GearStep, PTL DEF Gear!Spec
-----------------------------------------------------------------------------
(* The page: a behaviour of MCRig is one of both of its parts, each of which *)
(* may stay as it is.                                                       *)
LEMMA BothParts == Spec => Rig!Spec /\ Gear!Spec
  <1>1. Init => Rig!Init /\ Gear!Init
    BY DEF Init
  <1>2. [Next]_vars => [Rig!Next]_(Rig!vars) /\ [Gear!Next]_(Gear!vars)
    BY DEF Next, vars, inRig, inGear, Rig!vars, Rig!page, Gear!vars, Gear!page
  <1>3. QED BY <1>1, <1>2, PTL DEF Spec, Rig!Spec, Gear!Spec

(* Every reachable state of the rig page is well typed.                      *)
THEOREM RigTypeCorrect == Spec => []TypeOK
  <1>1. RigInv /\ GearInv => TypeOK
    BY DEF RigInv, GearInv, TypeOK
  <1>2. QED BY <1>1, RigAlways, GearAlways, BothParts, PTL

(* A save puts into a rig only drafts that were filled from that rig, however*)
(* many rigs, calls, retries and late lists there are.                       *)
THEOREM SavesKeepToTheirRig == Spec => []SavesOwnRig
  <1>1. RigInv => SavesOwnRig
    BY DEF RigInv, CallsComplete, CallComplete, SavesOwnRig, Rig!SavesOwnRig
  <1>2. QED BY <1>1, RigAlways, BothParts, PTL

(* No row of gear is there without its rig, although the rig may go between  *)
(* the check of its owner and the insert.                                    *)
THEOREM GearGoesWithItsRig == Spec => []NoGearWithoutRig
  <1>1. GearInv => NoGearWithoutRig
    BY DEF GearInv, NoGearWithoutRig
  <1>2. QED BY <1>1, GearAlways, BothParts, PTL

(* What a gear handler says is missing is missing, also after retries and    *)
(* when the row or the rig goes between its two statements.                  *)
THEOREM RefusalsHold == Spec => []RefusalsAreTrue
  <1>1. GearInv => RefusalsAreTrue
    BY DEF GearInv, GearCalls, RefusalHolds, RefusalsAreTrue,
           Gear!RefusalsAreTrue
  <1>2. QED BY <1>1, GearAlways, BothParts, PTL

(* With nothing under way the page shows the rigs and the gear there are,    *)
(* also when a call failed for the page and not for the server.              *)
THEOREM RestedPageShowsRows == Spec => []RestShowsRows
  <1>1. RigInv => Rig!RestShowsRigs
    BY DEF RigInv, ListFollows, NothingWrites, Rig!RestShowsRigs, Rig!AtRest
  <1>2. GearInv => Gear!RestShowsGear
    BY DEF GearInv, GearFollows, NoGearCalls, Gear!RestShowsGear
  <1>3. Rig!RestShowsRigs /\ Gear!RestShowsGear => RestShowsRows
    BY DEF RestShowsRows
  <1>4. QED BY <1>1, <1>2, <1>3, RigAlways, GearAlways, BothParts, PTL
=============================================================================
