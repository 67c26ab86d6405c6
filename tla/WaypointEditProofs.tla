-------------------------- MODULE WaypointEditProofs -------------------------
(***************************************************************************)
(* Theorems about WaypointEdit, for any number of tabs, calls and retries.  *)
(***************************************************************************)
EXTENDS MCWaypointEdit, TLAPS

(* A row with a time of visit exactly when it is visited.                   *)
Stamped(r) == r.visited <=> r.at # None

(* Every handler has a call, one about to write has read a stamped row, and  *)
(* what lands late is stamped too: this makes VisitedStamped inductive.      *)
HandlerInv ==
    \A c \in Call :
        /\ srv[c] # "none" => call[c] # None
        /\ srv[c] \in {"list", "update"} => call[c].op = "put"
        /\ call[c] # None /\ call[c].op = "put" => call[c].name \in Name
        /\ srv[c] = "update" => seen[c] # None /\ Stamped(seen[c])

RowsStamped ==
    /\ row # None => Stamped(row)
    /\ \A r \in late : r # None => Stamped(r)

EditInv == TypeOK /\ HandlerInv /\ RowsStamped

LEMMA FlatRow == ASSUME NEW r \in Row \cup {None}
                 PROVE  Flat(r) \in Row \cup {None}
  BY DEF Flat, Row

(* What an update writes is a stamped row, whatever the call carries.        *)
LEMMA WrittenStamped ==
    ASSUME NEW input \in Input, input.op = "put", input.name \in Name,
           NEW old \in Row, Stamped(old), NEW t \in Stamp
    PROVE  Written(input, old, t) \in Row /\ Stamped(Written(input, old, t))
  BY ValuesAssumption DEF Written, VisitedAt, Input, Row, Stamped

(* A handler about to update writes a stamped row.                           *)
LEMMA UpdateStamped ==
    ASSUME EditInv, NEW c \in Call, srv[c] = "update", NEW t \in Stamp
    PROVE  /\ Written(call[c], seen[c], t) \in Row
           /\ Stamped(Written(call[c], seen[c], t))
  <1>1. /\ call[c] \in Input /\ call[c].op = "put" /\ call[c].name \in Name
        /\ seen[c] \in Row /\ Stamped(seen[c])
    BY DEF EditInv, TypeOK, HandlerInv
  <1>2. QED BY <1>1, WrittenStamped

LEMMA SendInv ==
    ASSUME EditInv, NEW c \in Call, NEW input \in Input,
           input.op = "put" => input.name \in Name, Send(c, input)
    PROVE  EditInv'
  <1> USE DEF Send, EditInv
  <1>1. TypeOK'
    BY DEF TypeOK, SrvState
  <1>2. HandlerInv'
    BY RecordAssumption DEF TypeOK, HandlerInv, Input
  <1>3. RowsStamped'
    BY DEF RowsStamped
  <1>4. QED BY <1>1, <1>2, <1>3

(* A call that ends or starts over keeps its handler consistent.             *)
LEMMA RetryInv ==
    ASSUME EditInv, NEW c \in Call, call[c] # None,
           \/ Retry(c)
           \/ Settle(c) /\ srv' = [srv EXCEPT ![c] = "none"],
           seen' = [seen EXCEPT ![c] = None]
    PROVE  /\ fetch' \in [Page -> FetchState]
           /\ list' \in [Page -> Row \cup {None}]
           /\ call' \in [Call -> Input \cup {None}]
           /\ srv' \in [Call -> SrvState]
           /\ seen' \in [Call -> Row \cup {None}]
           /\ HandlerInv'
  <1> USE DEF EditInv
  <1>0. call[c] \in Input
    BY DEF TypeOK
  <1>1. CASE Settle(c) /\ srv' = [srv EXCEPT ![c] = "none"]
    <2>1. /\ fetch' \in [Page -> FetchState]
          /\ list' \in [Page -> Row \cup {None}]
          /\ call' \in [Call -> Input \cup {None}]
          /\ srv' \in [Call -> SrvState]
          /\ seen' \in [Call -> Row \cup {None}]
      BY <1>1 DEF Settle, TypeOK, FetchState, SrvState
    <2>2. HandlerInv'
      BY <1>1 DEF Settle, TypeOK, HandlerInv
    <2>3. QED BY <2>1, <2>2
  <1>2. ASSUME NEW again \in Input, again.op = call[c].op,
               again.name = call[c].name,
               call' = [call EXCEPT ![c] = again],
               srv' = [srv EXCEPT ![c] =
                         IF call[c].op = "put" THEN "list" ELSE "delete"],
               UNCHANGED <<fetch, list>>
        PROVE  /\ fetch' \in [Page -> FetchState]
               /\ list' \in [Page -> Row \cup {None}]
               /\ call' \in [Call -> Input \cup {None}]
               /\ srv' \in [Call -> SrvState]
               /\ seen' \in [Call -> Row \cup {None}]
               /\ HandlerInv'
    <2>1. /\ call' \in [Call -> Input \cup {None}]
          /\ srv' \in [Call -> SrvState]
          /\ seen' \in [Call -> Row \cup {None}]
      BY <1>2 DEF TypeOK, SrvState
    <2>2. HandlerInv'
      BY <1>0, <1>2, RecordAssumption DEF TypeOK, HandlerInv
    <2>3. QED BY <1>2, <2>1, <2>2 DEF TypeOK
  <1>3. CASE Retry(c) /\ call[c].tries < Retries
    <2> DEFINE again == [page |-> call[c].page, op |-> call[c].op,
                         name |-> call[c].name, visited |-> call[c].visited,
                         at |-> call[c].at, tries |-> call[c].tries + 1]
    <2>1. again \in Input
      BY <1>0 DEF Input
    <2>2. QED BY <1>2, <1>3, <2>1 DEF Retry
  <1>4. QED BY <1>1, <1>3 DEF Retry

LEMMA EditStep == EditInv /\ [Next]_vars => EditInv'
  <1> SUFFICES ASSUME EditInv, [Next]_vars PROVE EditInv'
    OBVIOUS
  <1> USE RecordAssumption DEF EditInv
  <1>0. CASE UNCHANGED vars
    BY <1>0 DEF vars, TypeOK, HandlerInv, RowsStamped
  <1>1. ASSUME NEW p \in Page, NEW c \in Call, Toggle(p, c) PROVE EditInv'
    <2>1. view[p] \in Row
      BY <1>1 DEF Toggle, TypeOK
    <2>2. QED BY <1>1, <2>1, SendInv DEF Toggle, Input, Row
  <1>2. ASSUME NEW p \in Page, NEW c \in Call, NEW n \in Name, Rename(p, c, n)
        PROVE  EditInv'
    <2>1. view[p] \in Row
      BY <1>2 DEF Rename, TypeOK
    <2>2. QED BY <1>2, <2>1, SendInv DEF Rename, Input, Row
  <1>3. ASSUME NEW p \in Page, NEW c \in Call, Remove(p, c) PROVE EditInv'
    BY <1>3, SendInv DEF Remove, Input
  <1>4. ASSUME NEW p \in Page, Focus(p) \/ Fetch(p) \/ Fetched(p)
        PROVE  EditInv'
    <2>1. TypeOK'
      BY <1>4, FlatRow DEF Focus, Fetch, Fetched, TypeOK, FetchState
    <2>2. HandlerInv' /\ RowsStamped'
      BY <1>4 DEF Focus, Fetch, Fetched, HandlerInv, RowsStamped
    <2>3. QED BY <2>1, <2>2
  <1>5. ASSUME NEW c \in Call, List(c) PROVE EditInv'
    <2>1. TypeOK'
      BY <1>5 DEF List, TypeOK, SrvState
    <2>2. HandlerInv' /\ RowsStamped'
      BY <1>5 DEF List, TypeOK, HandlerInv, RowsStamped
    <2>3. QED BY <2>1, <2>2
  <1>6. ASSUME NEW c \in Call, Update(c) PROVE EditInv'
    <2>1. call[c] \in Input /\ call[c].page \in Page
      BY <1>6 DEF Update, HandlerInv, TypeOK, Input
    <2>2. row' = row \/ (row' \in Row /\ Stamped(row'))
      BY <1>6, UpdateStamped DEF Update
    <2>3. TypeOK'
      BY <1>6, <2>1, <2>2 DEF Update, TypeOK, SrvState
    <2>4. HandlerInv'
      BY <1>6 DEF Update, TypeOK, HandlerInv
    <2>5. RowsStamped'
      BY <1>6, <2>2 DEF Update, RowsStamped
    <2>6. QED BY <2>3, <2>4, <2>5
  <1>7. ASSUME NEW c \in Call, Delete(c) PROVE EditInv'
    <2>1. call[c] \in Input /\ call[c].page \in Page
      BY <1>7 DEF Delete, HandlerInv, TypeOK, Input
    <2>2. TypeOK'
      BY <1>7, <2>1 DEF Delete, TypeOK, SrvState
    <2>3. HandlerInv' /\ RowsStamped'
      BY <1>7 DEF Delete, TypeOK, HandlerInv, RowsStamped
    <2>4. QED BY <2>2, <2>3
  <1>8. ASSUME NEW c \in Call, Fails(c) PROVE EditInv'
    <2>1. TypeOK'
      BY <1>8 DEF Fails, TypeOK, SrvState
    <2>2. HandlerInv' /\ RowsStamped'
      BY <1>8 DEF Fails, TypeOK, HandlerInv, RowsStamped
    <2>3. QED BY <2>1, <2>2
  <1>9. ASSUME NEW c \in Call, Break(c) PROVE EditInv'
    <2>1. call[c] # None /\ Retry(c) /\ seen' = [seen EXCEPT ![c] = None]
          /\ UNCHANGED <<row, by, view>>
      BY <1>9 DEF Break, HandlerInv
    <2>2. \A r \in late' :
            r \in late \/ r = None \/ (r \in Row /\ Stamped(r))
      BY <1>9, UpdateStamped DEF Break
    <2>3. TypeOK'
      BY <2>1, <2>2, RetryInv DEF TypeOK
    <2>4. HandlerInv'
      BY <2>1, RetryInv
    <2>5. RowsStamped'
      BY <2>1, <2>2 DEF RowsStamped
    <2>6. QED BY <2>3, <2>4, <2>5
  <1>10. ASSUME NEW c \in Call, Return(c) PROVE EditInv'
    <2>1. /\ call[c] # None /\ seen' = [seen EXCEPT ![c] = None]
          /\ UNCHANGED <<row, by, view, late>>
          /\ Retry(c) \/ (Settle(c) /\ srv' = [srv EXCEPT ![c] = "none"])
      BY <1>10 DEF Return, HandlerInv
    <2>2. TypeOK' /\ HandlerInv'
      BY <2>1, RetryInv DEF TypeOK
    <2>3. RowsStamped'
      BY <2>1 DEF RowsStamped
    <2>4. QED BY <2>2, <2>3
  <1>11. ASSUME NEW r \in late, Land(r) PROVE EditInv'
    <2>1. TypeOK'
      BY <1>11 DEF Land, TypeOK
    <2>2. HandlerInv' /\ RowsStamped'
      BY <1>11 DEF Land, HandlerInv, RowsStamped
    <2>3. QED BY <2>1, <2>2
  <1>12. QED
    BY <1>0, <1>1, <1>2, <1>3, <1>4, <1>5, <1>6, <1>7, <1>8, <1>9, <1>10,
       <1>11 DEF Next

LEMMA EditInvAlways == Spec => []EditInv
  <1>1. Init => EditInv
    <2> SUFFICES ASSUME Init PROVE EditInv
      OBVIOUS
    <2>1. row \in Row /\ ~row.visited /\ row.at = None
      BY DEF Init
    <2>2. TypeOK
      BY <2>1, FlatRow DEF Init, TypeOK, FetchState, SrvState
    <2>3. HandlerInv /\ RowsStamped
      BY <2>1 DEF Init, HandlerInv, RowsStamped, Stamped
    <2>4. QED BY <2>2, <2>3 DEF EditInv
  <1>2. QED BY <1>1, EditStep, PTL DEF Spec

(* Every state of every behaviour is well typed.                             *)
THEOREM EditTypeCorrect == Spec => []TypeOK
  <1>1. EditInv => TypeOK
    BY DEF EditInv
  <1>2. QED BY <1>1, EditInvAlways, PTL

(* A waypoint has a time of visit exactly when it is visited, however many   *)
(* tabs toggle and rename it from old copies and however often they retry.   *)
THEOREM VisitsAreStamped == Spec => []VisitedStamped
  <1>1. EditInv => VisitedStamped
    BY DEF EditInv, RowsStamped, Stamped, VisitedStamped
  <1>2. QED BY <1>1, EditInvAlways, PTL
-----------------------------------------------------------------------------
(* The page wrote the row last and has no call in progress.                 *)
Quiet(p) ==
    /\ by = p
    /\ \A c \in Call : call[c] # None => call[c].page # p

(* OwnWritesShow is about pages that have nothing to fetch; what a fetch     *)
(* brings must be right too, or the page would be wrong one step later.      *)
PageRight(p) ==
    Quiet(p) => /\ fetch[p] = "idle" => view[p] = Flat(row)
                /\ fetch[p] = "answered" => list[p] = Flat(row)

ShowInv == \A p \in Page : PageRight(p)

(* A call that starts over stays with its page, and one that ends leaves a   *)
(* fetch behind.                                                             *)
LEMMA RetryShows ==
    ASSUME EditInv, ShowInv, NEW c \in Call, call[c] # None,
           \/ Retry(c)
           \/ Settle(c) /\ srv' = [srv EXCEPT ![c] = "none"],
           UNCHANGED <<row, by, view>>
    PROVE  ShowInv'
  <1> SUFFICES ASSUME NEW p \in Page PROVE PageRight(p)'
    BY DEF ShowInv
  <1>1. /\ call \in [Call -> Input \cup {None}] /\ call[c] \in Input
        /\ fetch \in [Page -> FetchState]
        /\ list \in [Page -> Row \cup {None}]
        /\ PageRight(p)
    BY DEF EditInv, TypeOK, ShowInv
  <1>2. CASE Settle(c)
    BY <1>1, <1>2 DEF Settle, PageRight, Quiet
  <1>3. CASE Retry(c) /\ call[c].tries < Retries
    <2> DEFINE again == [page |-> call[c].page, op |-> call[c].op,
                         name |-> call[c].name, visited |-> call[c].visited,
                         at |-> call[c].at, tries |-> call[c].tries + 1]
    <2>1. call' = [call EXCEPT ![c] = again] /\ UNCHANGED <<fetch, list>>
      BY <1>3 DEF Retry
    <2>2. again \in Input /\ again.page = call[c].page
      BY <1>1 DEF Input
    <2>3. again # None
      BY <2>2, RecordAssumption
    <2> HIDE DEF again
    <2>4. Quiet(p)' => Quiet(p)
      BY <1>1, <2>1, <2>2, <2>3 DEF Quiet
    <2>5. QED BY <1>1, <2>1, <2>4 DEF PageRight
  <1>4. QED BY <1>2, <1>3 DEF Retry

LEMMA ShowStep == EditInv /\ ShowInv /\ [Next]_vars => ShowInv'
  <1> SUFFICES ASSUME EditInv, ShowInv, [Next]_vars PROVE ShowInv'
    OBVIOUS
  <1> USE DEF ShowInv
  <1>0. CASE UNCHANGED vars
    BY <1>0 DEF vars, PageRight, Quiet
  <1>1. ASSUME NEW c \in Call, NEW input \in Input, Send(c, input)
        PROVE  ShowInv'
    <2>1. TAKE p \in Page
    <2>2. Quiet(p)' => Quiet(p)
      BY <1>1 DEF Send, EditInv, TypeOK, Quiet
    <2>3. QED BY <1>1, <2>2 DEF Send, PageRight
  <1>2. ASSUME NEW q \in Page, NEW c \in Call,
               \/ Toggle(q, c) \/ Remove(q, c)
               \/ \E n \in Name : Rename(q, c, n)
        PROVE  ShowInv'
    <2>1. view[q] \in Row \cup {None}
      BY DEF EditInv, TypeOK
    <2>2. \E input \in Input : Send(c, input)
      BY <1>2, <2>1 DEF Toggle, Remove, Rename, Input, Row
    <2>3. QED BY <1>1, <2>2
  <1>3. ASSUME NEW q \in Page, Focus(q) \/ Fetch(q) \/ Fetched(q)
        PROVE  ShowInv'
    <2>1. TAKE p \in Page
    <2>2. PageRight(p) /\ (Quiet(p)' => Quiet(p))
      BY <1>3 DEF Focus, Fetch, Fetched, Quiet
    <2>3. QED
      BY <1>3, <2>2 DEF Focus, Fetch, Fetched, PageRight, EditInv, TypeOK
  <1>4. ASSUME NEW c \in Call, List(c) \/ Fails(c) PROVE ShowInv'
    BY <1>4 DEF List, Fails, PageRight, Quiet
  <1>5. ASSUME NEW c \in Call, Update(c) \/ Delete(c) PROVE ShowInv'
    <2>1. TAKE p \in Page
    <2>2. call[c] # None
      BY <1>5 DEF Update, Delete, EditInv, HandlerInv
    <2>3. CASE UNCHANGED <<row, by>>
      BY <1>5, <2>3 DEF Update, Delete, PageRight, Quiet
    <2>4. CASE by' = call[c].page
      BY <1>5, <2>2, <2>4 DEF Update, Delete, PageRight, Quiet
    <2>5. QED BY <1>5, <2>3, <2>4 DEF Update, Delete
  <1>6. ASSUME NEW c \in Call, Break(c) \/ Return(c) PROVE ShowInv'
    <2>1. /\ call[c] # None /\ UNCHANGED <<row, by, view>>
          /\ \/ Retry(c)
             \/ Settle(c) /\ srv' = [srv EXCEPT ![c] = "none"]
      BY <1>6 DEF Break, Return, EditInv, HandlerInv
    <2>2. QED BY <2>1, RetryShows
  <1>7. ASSUME NEW r \in late, Land(r) PROVE ShowInv'
    <2>1. TAKE p \in Page
    <2>2. by' # p \/ UNCHANGED <<row, by>>
      BY <1>7, ValuesAssumption DEF Land
    <2>3. QED BY <1>7, <2>2 DEF Land, PageRight, Quiet
  <1>8. QED
    BY <1>0, <1>2, <1>3, <1>4, <1>5, <1>6, <1>7 DEF Next

(* A page that has nothing in flight shows what its last call made of the    *)
(* waypoint, also after answers that were lost and calls made twice.         *)
THEOREM WritesShow == Spec => []OwnWritesShow
  <1>1. Init => ShowInv
    BY ValuesAssumption DEF Init, ShowInv, PageRight, Quiet
  <1>2. ShowInv => OwnWritesShow
    BY DEF ShowInv, PageRight, Quiet, OwnWritesShow
  <1>3. QED BY <1>1, <1>2, ShowStep, EditInvAlways, PTL DEF Spec
-----------------------------------------------------------------------------
(* The trip page of MCWaypointEdit edits a trip as TripEdit has it.         *)
TripP == INSTANCE TripEditProofs WITH
    Page <- OnePage, Name <- TripName, Date <- TripDate, Stamp <- TripStamp,
    Retries <- 1,
    row <- trip, by <- writer, view <- copy, fetch <- asked, call <- save,
    srv <- put, late <- landing

LEMMA SameAsTrip ==
    /\ Trip!NoneAssumption => TripP!NoneAssumption
    /\ Trip!Init => TripP!Init
    /\ Trip!Next => TripP!Next
    /\ UNCHANGED inTrip => UNCHANGED TripP!vars
  <1> USE DEF Trip!Row, TripP!Row, Trip!Draft, TripP!Draft, Trip!Edit,
              TripP!Edit, Trip!Fields, TripP!Fields, Trip!Show, TripP!Show,
              Trip!Settle, TripP!Settle, Trip!Retry, TripP!Retry,
              Trip!Body, TripP!Body, Trip!Written, TripP!Written
  <1>1. Trip!NoneAssumption => TripP!NoneAssumption
    BY DEF Trip!NoneAssumption, TripP!NoneAssumption
  <1>2. Trip!Init => TripP!Init
    BY DEF Trip!Init, TripP!Init
  <1>3. ASSUME NEW p \in OnePage
        PROVE  /\ \A d \in Trip!Draft : Trip!Type(p, d) => TripP!Type(p, d)
               /\ \A c \in Call : Trip!Commit(p, c) => TripP!Commit(p, c)
    BY DEF Trip!Type, TripP!Type, Trip!Commit, TripP!Commit
  <1>4. ASSUME NEW p \in OnePage
        PROVE  /\ Trip!Focus(p) => TripP!Focus(p)
               /\ Trip!Fetch(p) => TripP!Fetch(p)
               /\ Trip!Fetched(p) => TripP!Fetched(p)
    BY DEF Trip!Focus, TripP!Focus, Trip!Fetch, TripP!Fetch, Trip!Fetched,
           TripP!Fetched
  <1>5. ASSUME NEW c \in Call
        PROVE  /\ Trip!Update(c) => TripP!Update(c)
               /\ Trip!Fails(c) => TripP!Fails(c)
    BY DEF Trip!Update, TripP!Update, Trip!Fails, TripP!Fails
  <1>6. ASSUME NEW c \in Call
        PROVE  /\ Trip!Break(c) => TripP!Break(c)
               /\ Trip!Return(c) => TripP!Return(c)
    <2>1. Trip!Cardinality(landing) = TripP!Cardinality(landing)
      BY Zenon DEF Trip!Cardinality, TripP!Cardinality
    <2>2. QED BY <2>1 DEF Trip!Break, TripP!Break, Trip!Return,
                          TripP!Return
  <1>7. ASSUME NEW r \in landing
        PROVE  Trip!Land(r) => TripP!Land(r)
    BY DEF Trip!Land, TripP!Land
  <1>8. Trip!Next => TripP!Next
    BY <1>3, <1>4, <1>5, <1>6, <1>7 DEF Trip!Next, TripP!Next
  <1>9. UNCHANGED inTrip => UNCHANGED TripP!vars
    BY DEF inTrip, TripP!vars
  <1>10. QED BY <1>1, <1>2, <1>8, <1>9

(* While a waypoint is edited nothing happens to the trip.                  *)
LEMMA TripBehaves == MCSpec => TripP!Spec
  <1>1. MCInit => TripP!Init
    BY SameAsTrip DEF MCInit
  <1>2. [MCNext]_<<at, inTabs, inOne, inTrip>> => [TripP!Next]_(TripP!vars)
    BY SameAsTrip DEF MCNext
  <1>3. QED BY <1>1, <1>2, PTL DEF MCSpec, TripP!Spec

(* A trip page that has nothing in flight shows what its last save made of   *)
(* the trip, in the run that checks it: for any number of tabs and saves.    *)
THEOREM TripSavesShow == MCSpec => []OwnSavesShow
  <1>1. TripP!NoneAssumption
    BY SameAsTrip, TripAssumption
  <1>2. TripP!OwnSavesShow => OwnSavesShow
    BY DEF TripP!OwnSavesShow, OwnSavesShow, Trip!OwnSavesShow
  <1>3. QED BY <1>1, <1>2, TripBehaves, TripP!SavesShow, PTL
=============================================================================
