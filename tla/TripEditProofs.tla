--------------------------- MODULE TripEditProofs ---------------------------
(***************************************************************************)
(* Theorems about TripEdit, for any number of tabs, saves and retries.      *)
(***************************************************************************)
EXTENDS TripEdit, TLAPS

(* A request has the save it was made for, and answers are rows.            *)
RequestInv ==
    /\ \A c \in Call : /\ srv[c] # "none" => call[c] # None
                       /\ srv[c] = "ok" => ans[c] # None
    /\ \A p \in Page : fetch[p] = "answered" => got[p] # None

SaveInv == TypeOK /\ RequestInv /\ NoneAssumption

LEMMA WrittenRow == ASSUME NEW d \in Draft, NEW t \in Stamp
                    PROVE  Written(Body(d), t) \in Row
  BY DEF Written, Body, Draft, Row

LEMMA ShowTypes ==
    ASSUME TypeOK, NEW p \in Page, NEW r \in Row, Show(p, r)
    PROVE  view' \in [Page -> Row] /\ draft' \in [Page -> Draft]
  <1>1. Fields(r) \in Draft
    BY DEF Fields, Row, Draft
  <1>2. QED BY <1>1 DEF Show, TypeOK

(* What starting over and ending a save make of the page and its call.      *)
LEMMA RetryInv ==
    ASSUME SaveInv, NEW c \in Call, call[c] # None,
           \/ Retry(c)
           \/ Settle(c) /\ srv' = [srv EXCEPT ![c] = "none"],
           ans' = [ans EXCEPT ![c] = None]
    PROVE  /\ fetch' \in [Page -> {"idle", "asked", "failed", "answered"}]
           /\ got' \in [Page -> Row \cup {None}]
           /\ call' \in [Call -> Edit \cup {None}]
           /\ srv' \in [Call -> {"none", "sent", "ok", "error"}]
           /\ ans' \in [Call -> Row \cup {None}]
           /\ RequestInv'
  <1>0. TypeOK /\ RequestInv /\ call[c] \in Edit
    BY DEF SaveInv, TypeOK
  <1>1. CASE Settle(c) /\ srv' = [srv EXCEPT ![c] = "none"]
    <2>1. /\ fetch' \in [Page -> {"idle", "asked", "failed", "answered"}]
          /\ got' \in [Page -> Row \cup {None}]
          /\ call' \in [Call -> Edit \cup {None}]
          /\ srv' \in [Call -> {"none", "sent", "ok", "error"}]
          /\ ans' \in [Call -> Row \cup {None}]
      BY <1>0, <1>1 DEF Settle, TypeOK
    <2>2. RequestInv'
      BY <1>0, <1>1 DEF Settle, TypeOK, RequestInv
    <2>3. QED BY <2>1, <2>2
  <1>2. CASE Retry(c) /\ call[c].tries < Retries /\ UNCHANGED <<fetch, got>>
    <2> DEFINE again == [page |-> call[c].page, draft |-> call[c].draft,
                         tries |-> call[c].tries + 1]
    <2>1. again \in Edit /\ again # None
      BY <1>0 DEF SaveInv, NoneAssumption, Edit
    <2>2. /\ call' = [call EXCEPT ![c] = again]
          /\ srv' = [srv EXCEPT ![c] = "sent"]
      BY <1>0, <1>2 DEF Retry, Edit
    <2> HIDE DEF again
    <2>3. /\ call' \in [Call -> Edit \cup {None}]
          /\ srv' \in [Call -> {"none", "sent", "ok", "error"}]
          /\ ans' \in [Call -> Row \cup {None}]
      BY <1>0, <2>1, <2>2 DEF TypeOK
    <2>4. RequestInv'
      BY <1>0, <1>2, <2>1, <2>2 DEF TypeOK, RequestInv
    <2>5. QED BY <1>0, <1>2, <2>3, <2>4 DEF TypeOK
  <1>3. QED BY <1>1, <1>2 DEF Retry

LEMMA SaveStep == SaveInv /\ [Next]_vars => SaveInv'
  <1> SUFFICES ASSUME SaveInv, [Next]_vars PROVE SaveInv'
    OBVIOUS
  <1> USE DEF SaveInv
  <1>0. CASE UNCHANGED vars
    BY <1>0 DEF vars, TypeOK, RequestInv
  <1>1. ASSUME NEW p \in Page, NEW d \in Draft, Type(p, d) PROVE SaveInv'
    BY <1>1 DEF Type, TypeOK, RequestInv
  <1>2. ASSUME NEW p \in Page, NEW c \in Call, Commit(p, c) PROVE SaveInv'
    <2> DEFINE edit == [page |-> p, draft |-> draft[p], tries |-> 0]
    <2>1. edit \in Edit /\ edit # None
      BY DEF NoneAssumption, TypeOK, Edit
    <2>2. call' = [call EXCEPT ![c] = edit]
      BY <1>2 DEF Commit
    <2> HIDE DEF edit
    <2>3. TypeOK'
      BY <1>2, <2>1, <2>2 DEF Commit, TypeOK
    <2>4. RequestInv'
      BY <1>2, <2>1, <2>2 DEF Commit, TypeOK, RequestInv
    <2>5. QED BY <2>3, <2>4
  <1>3. ASSUME NEW p \in Page, Focus(p) \/ Fetch(p) PROVE SaveInv'
    <2>1. TypeOK'
      BY <1>3 DEF Focus, Fetch, TypeOK
    <2>2. row # None
      BY DEF NoneAssumption, TypeOK
    <2>3. RequestInv'
      BY <1>3, <2>2 DEF Focus, Fetch, TypeOK, RequestInv
    <2>4. QED BY <2>1, <2>3
  <1>4. ASSUME NEW p \in Page, Fetched(p) PROVE SaveInv'
    <2>1. got[p] \in Row
      BY <1>4 DEF Fetched, TypeOK, RequestInv
    <2>2. TypeOK'
      BY <1>4, <2>1, ShowTypes DEF Fetched, TypeOK
    <2>3. RequestInv'
      BY <1>4 DEF Fetched, TypeOK, RequestInv
    <2>4. QED BY <2>2, <2>3
  <1>5. ASSUME NEW c \in Call, Update(c) PROVE SaveInv'
    <2>1. call[c] \in Edit /\ call[c].draft \in Draft /\ call[c].page \in Page
      BY <1>5 DEF Update, TypeOK, RequestInv, Edit
    <2>2. row' \in Row
      BY <1>5, <2>1, WrittenRow DEF Update
    <2>3. TypeOK'
      BY <1>5, <2>1, <2>2 DEF Update, TypeOK
    <2>4. RequestInv'
      BY <1>5, <2>2 DEF Update, NoneAssumption, TypeOK, RequestInv
    <2>5. QED BY <2>3, <2>4
  <1>6. ASSUME NEW c \in Call, Fails(c) PROVE SaveInv'
    BY <1>6 DEF Fails, TypeOK, RequestInv
  <1>7. ASSUME NEW c \in Call, Break(c) PROVE SaveInv'
    <2>1. /\ call[c] # None /\ Retry(c) /\ ans' = [ans EXCEPT ![c] = None]
          /\ UNCHANGED <<row, by, view, draft>>
      BY <1>7 DEF Break, RequestInv
    <2>2. srv[c] = "sent" => call[c].draft \in Draft
      BY <2>1 DEF TypeOK, Edit
    <2>3. late' \subseteq Row
      BY <1>7, <2>2, WrittenRow DEF Break, TypeOK
    <2>4. QED BY <2>1, <2>3, RetryInv DEF TypeOK
  <1>8. ASSUME NEW c \in Call, Return(c) PROVE SaveInv'
    <2>1. /\ call[c] # None /\ ans' = [ans EXCEPT ![c] = None]
          /\ UNCHANGED <<row, by, late>>
          /\ \/ Retry(c)
             \/ Settle(c) /\ srv' = [srv EXCEPT ![c] = "none"]
      BY <1>8 DEF Return, RequestInv
    <2>2. CASE srv[c] = "ok" /\ Show(call[c].page, ans[c])
      <3>1. call[c].page \in Page /\ ans[c] \in Row
        BY <2>1, <2>2 DEF TypeOK, RequestInv, Edit
      <3>2. QED BY <2>1, <2>2, <3>1, ShowTypes, RetryInv DEF TypeOK
    <2>3. CASE UNCHANGED <<view, draft>>
      BY <2>1, <2>3, RetryInv DEF TypeOK
    <2>4. QED BY <1>8, <2>2, <2>3 DEF Return
  <1>9. ASSUME NEW r \in late, Land(r) PROVE SaveInv'
    BY <1>9 DEF Land, TypeOK, RequestInv
  <1>10. QED
    BY <1>0, <1>1, <1>2, <1>3, <1>4, <1>5, <1>6, <1>7, <1>8, <1>9 DEF Next

LEMMA SaveInvAlways == NoneAssumption => (Spec => []SaveInv)
  <1>1. NoneAssumption /\ Init => SaveInv
    <2> SUFFICES ASSUME NoneAssumption, Init PROVE SaveInv
      OBVIOUS
    <2>1. Fields(row) \in Draft
      BY DEF Init, Fields, Row, Draft
    <2>2. QED BY <2>1 DEF Init, SaveInv, TypeOK, RequestInv
  <1>2. QED BY <1>1, SaveStep, PTL DEF Spec
-----------------------------------------------------------------------------
(* The page wrote the row last and has no save in progress.                 *)
Quiet(p) ==
    /\ by = p
    /\ \A c \in Call : call[c] # None => call[c].page # p

(* OwnSavesShow is about pages with nothing to fetch; what a fetch brings    *)
(* must be right too, or the page would be wrong one step later.             *)
PageRight(p) ==
    Quiet(p) => /\ fetch[p] = "idle" => view[p] = row
                /\ fetch[p] = "answered" => got[p] = row

ShowInv == \A p \in Page : PageRight(p)

(* A save that ends leaves a fetch behind, whatever its answer has made of   *)
(* the copy, and one that starts over stays with its page.                   *)
LEMMA EndShows ==
    ASSUME SaveInv, NEW c \in Call, call[c] # None, NEW p \in Page,
           PageRight(p), Settle(c),
           p # call[c].page => view'[p] = view[p],
           UNCHANGED <<row, by>>
    PROVE  PageRight(p)'
  BY DEF SaveInv, TypeOK, Edit, Settle, PageRight, Quiet

LEMMA RetryShows ==
    ASSUME SaveInv, NEW c \in Call, call[c] # None, NEW p \in Page,
           PageRight(p), Retry(c), UNCHANGED <<row, by, view>>
    PROVE  PageRight(p)'
  <1>1. call \in [Call -> Edit \cup {None}] /\ call[c] \in Edit
    BY DEF SaveInv, TypeOK
  <1>2. CASE Settle(c)
    BY <1>2, EndShows
  <1>3. CASE /\ call[c].tries < Retries /\ UNCHANGED <<fetch, got>>
             /\ call' = [call EXCEPT ![c] = [page |-> call[c].page,
                     draft |-> call[c].draft, tries |-> call[c].tries + 1]]
    <2> DEFINE again == [page |-> call[c].page, draft |-> call[c].draft,
                         tries |-> call[c].tries + 1]
    <2>1. again # None /\ again.page = call[c].page
      BY <1>1 DEF SaveInv, NoneAssumption, Edit
    <2>2. call' = [call EXCEPT ![c] = again]
      BY <1>3
    <2> HIDE DEF again
    <2>3. Quiet(p)' => Quiet(p)
      BY <1>1, <2>1, <2>2 DEF Quiet
    <2>4. QED BY <1>3, <2>3 DEF PageRight
  <1>4. QED BY <1>2, <1>3 DEF Retry

LEMMA ShowStep == SaveInv /\ ShowInv /\ [Next]_vars => ShowInv'
  <1> SUFFICES ASSUME SaveInv, ShowInv, [Next]_vars, NEW p \in Page
               PROVE  PageRight(p)'
    BY DEF ShowInv
  <1>a. PageRight(p)
    BY DEF ShowInv
  <1>0. CASE UNCHANGED vars
    BY <1>a, <1>0 DEF vars, PageRight, Quiet
  <1>1. ASSUME NEW q \in Page, NEW d \in Draft, Type(q, d)
        PROVE  PageRight(p)'
    BY <1>a, <1>1 DEF Type, PageRight, Quiet
  <1>2. ASSUME NEW q \in Page, NEW c \in Call, Commit(q, c)
        PROVE  PageRight(p)'
    <2>1. Quiet(p)' => Quiet(p)
      BY <1>2 DEF Commit, SaveInv, TypeOK, Quiet
    <2>2. QED BY <1>a, <1>2, <2>1 DEF Commit, PageRight
  <1>3. ASSUME NEW q \in Page, Focus(q) \/ Fetch(q) \/ Fetched(q)
        PROVE  PageRight(p)'
    <2>1. Quiet(p)' => Quiet(p)
      BY <1>3 DEF Focus, Fetch, Fetched, Quiet
    <2>2. QED
      BY <1>a, <1>3, <2>1
      DEF Focus, Fetch, Fetched, Show, PageRight, SaveInv, TypeOK
  <1>4. ASSUME NEW c \in Call, Fails(c) PROVE PageRight(p)'
    BY <1>a, <1>4 DEF Fails, PageRight, Quiet
  <1>5. ASSUME NEW c \in Call, Update(c) PROVE PageRight(p)'
    <2>1. call[c] # None
      BY <1>5 DEF Update, SaveInv, RequestInv
    <2>2. ~Quiet(p)'
      BY <1>5, <2>1 DEF Update, Quiet
    <2>3. QED BY <2>2 DEF PageRight
  <1>6. ASSUME NEW c \in Call, Break(c) PROVE PageRight(p)'
    BY <1>a, <1>6, RetryShows DEF Break, SaveInv, RequestInv
  <1>7. ASSUME NEW c \in Call, Return(c) PROVE PageRight(p)'
    <2>1. call[c] # None /\ UNCHANGED <<row, by>>
      BY <1>7 DEF Return, SaveInv, RequestInv
    <2>2. CASE Show(call[c].page, ans[c]) /\ Settle(c)
      <3>1. p # call[c].page => view'[p] = view[p]
        BY <2>2 DEF Show, SaveInv, TypeOK
      <3>2. QED BY <1>a, <2>1, <2>2, <3>1, EndShows
    <2>3. CASE Retry(c) /\ UNCHANGED view
      BY <1>a, <2>1, <2>3, RetryShows
    <2>4. QED BY <1>7, <2>2, <2>3 DEF Return
  <1>8. ASSUME NEW r \in late, Land(r) PROVE PageRight(p)'
    <2>1. ~Quiet(p)'
      BY <1>8 DEF Land, Quiet, SaveInv, NoneAssumption
    <2>2. QED BY <2>1 DEF PageRight
  <1>9. QED
    BY <1>0, <1>1, <1>2, <1>3, <1>4, <1>5, <1>6, <1>7, <1>8 DEF Next

(* Every state of every behaviour is well typed.                             *)
THEOREM SaveTypeCorrect == NoneAssumption => (Spec => []TypeOK)
  <1>1. SaveInv => TypeOK
    BY DEF SaveInv
  <1>2. QED BY <1>1, SaveInvAlways, PTL

(* A page that has nothing in flight shows what its last save made of the    *)
(* trip, in whatever order the answers of its saves arrive.                  *)
THEOREM SavesShow == NoneAssumption => (Spec => []OwnSavesShow)
  <1>1. NoneAssumption /\ Init => ShowInv
    BY DEF NoneAssumption, Init, ShowInv, PageRight, Quiet
  <1>2. ShowInv => OwnSavesShow
    BY DEF ShowInv, PageRight, Quiet, OwnSavesShow
  <1>3. QED BY <1>1, <1>2, ShowStep, SaveInvAlways, PTL DEF Spec
=============================================================================
