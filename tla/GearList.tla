------------------------------ MODULE GearList ------------------------------
(***************************************************************************)
(* The gear of one rig: the inventory section of the rig page with its      *)
(* dialogs (components/rig), the calls of hooks/useRig.ts, and the gear     *)
(* routes, whose handlers run two statements each (routes/v1/rigs.rs,       *)
(* repository/rig.rs) while the rig may be deleted from elsewhere.          *)
(***************************************************************************)
EXTENDS QueryClient, FiniteSets

CONSTANTS Item,     \* identifiers of gear rows
          Val,      \* what a row may say
          Call,     \* mutations under way at a time
          MaxCalls  \* bound: mutations in all

Kind == {"create", "update", "delete"}
Gear == [Item -> Val \cup {None}]
\* What a form holds: None unless validate() accepts it.
Form == Val \cup {None}
Arg == [kind : Kind, id : Item \cup {None}, val : Val \cup {None}]
\* Answers: done, no such item, no such rig, a reference that is not there.
Reply == {"done", "no_gear", "no_rig", "no_reference"}

GearAssumption ==
    /\ MaxCalls \in Nat
    /\ None \notin Gear /\ None \notin Reply /\ None \notin Mutation(Arg, Reply \cup {None})

VARIABLES
    rig,     \* the rig exists
    gear,    \* the rows of the table
    drawn,   \* the identifiers given
    query,   \* useGear(rigId)
    adding,  \* isAddOpen
    editing, \* editingItem: the row as the list had it
    dropping,\* deletingItem, while its prompt is open
    form,    \* the form of the open dialog: None unless it is valid
    call,    \* the mutations under way
    stage,   \* the statement their handlers run next
    watch,   \* the mutation whose isPending each button shows
    sent     \* how many mutations there have been

page == <<adding, editing, dropping, form>>
vars == <<rig, gear, drawn, query, page, call, stage, watch, sent>>

TypeOK ==
    /\ rig \in BOOLEAN /\ gear \in Gear /\ drawn \subseteq Item
    /\ query \in Query(Gear \cup {None})
    /\ adding \in BOOLEAN
    /\ editing \in Item \cup {None} /\ dropping \in Item \cup {None}
    /\ form \in Form
    /\ call \in [Call -> Mutation(Arg, Reply \cup {None}) \cup {None}]
    /\ stage \in [Call -> {"first", "second"}]
    /\ watch \in [Kind -> Call \cup {None}]
    /\ sent \in 0 .. MaxCalls
-----------------------------------------------------------------------------
View == IF IsError(query) THEN "error"
        ELSE IF query.data = None THEN "loading" ELSE "list"

Init ==
    /\ rig = TRUE
    /\ \E v \in Form, i \in Item :
          /\ gear = [j \in Item |-> IF j = i THEN v ELSE None]
          /\ drawn = {j \in Item : gear[j] # None}
    /\ query = Opened
    /\ adding = FALSE /\ editing = None /\ dropping = None /\ form = None
    /\ call = [c \in Call |-> None] /\ stage = [c \in Call |-> "first"]
    /\ watch = [k \in Kind |-> None] /\ sent = 0

\* A submit button is disabled while the mutation it watches is pending.
Begin(k, i, v) ==
    /\ watch[k] = None /\ sent < MaxCalls
    /\ \E c \in Call :
          /\ call[c] = None
          /\ call' = [call EXCEPT ![c] =
                        Started([kind |-> k, id |-> i, val |-> v])]
          /\ watch' = [watch EXCEPT ![k] = c]
    /\ sent' = sent + 1
-----------------------------------------------------------------------------
(* The section and its dialogs, which are modal.                            *)

Closed == ~adding /\ editing = None /\ dropping = None

\* The button is also there when the list could not be loaded.
OpenAdd ==
    /\ View # "loading" /\ ~adding
    /\ View = "list" => Closed
    /\ adding' = TRUE /\ form' = None
    /\ UNCHANGED <<rig, gear, drawn, query, editing, dropping, call, stage,
                   watch, sent>>

OpenEdit(i) ==
    /\ View = "list" /\ Closed /\ query.data[i] # None
    /\ editing' = i /\ form' = query.data[i]
    /\ UNCHANGED <<rig, gear, drawn, query, adding, dropping, call, stage,
                   watch, sent>>

OpenDelete(i) ==
    /\ View = "list" /\ Closed /\ query.data[i] # None
    /\ dropping' = i
    /\ UNCHANGED <<rig, gear, drawn, query, adding, editing, form, call,
                   stage, watch, sent>>

\* The fields of GearItemForm, with its validate().
Fill(v) ==
    /\ View = "list" /\ (adding \/ editing # None)
    /\ form' = v
    /\ UNCHANGED <<rig, gear, drawn, query, adding, editing, dropping, call,
                   stage, watch, sent>>

Close ==
    /\ adding' = FALSE /\ editing' = None /\ dropping' = None /\ form' = None

Dismiss ==
    /\ View = "list" /\ ~Closed
    /\ Close
    /\ UNCHANGED <<rig, gear, drawn, query, call, stage, watch, sent>>

SubmitAdd ==
    /\ View = "list" /\ adding /\ form # None
    /\ Begin("create", None, form)
    /\ UNCHANGED <<rig, gear, drawn, query, page, stage>>

SubmitEdit ==
    /\ View = "list" /\ editing # None /\ form # None
    /\ Begin("update", editing, form)
    /\ UNCHANGED <<rig, gear, drawn, query, page, stage>>

ConfirmDelete ==
    /\ View = "list" /\ dropping # None
    /\ Begin("delete", dropping, None)
    /\ UNCHANGED <<rig, gear, drawn, query, page, stage>>
-----------------------------------------------------------------------------
(* Answers.                                                                 *)

\* An error takes the place of the section: its dialogs are unmounted, with
\* their forms and with the mutations they watch.
FetchFails ==
    /\ query.st = "asked"
    /\ query' = Failed(query)
    /\ form' = None
    /\ watch' = [watch EXCEPT !["create"] = None, !["update"] = None]
    /\ UNCHANGED <<rig, gear, drawn, adding, editing, dropping, call, stage,
                   sent>>

Fetched ==
    /\ query.st = "answered"
    /\ query' = Arrived(query)
    /\ UNCHANGED <<rig, gear, drawn, page, call, stage, watch, sent>>

Refetch ==
    /\ query.st = "idle"
    /\ query' = Asked(query)
    /\ UNCHANGED <<rig, gear, drawn, page, call, stage, watch, sent>>

\* Faulty: only a success asks for the list again.
OnSuccess(q, m) == IF m.st = "ok" THEN Asked(q) ELSE q

\* onSettled.
AfterCall(q, m) == Asked(q)

\* A success closes the dialog of its kind, whatever is open in it by then.
Return(c) ==
    /\ call[c] # None /\ call[c].st # "sent"
    /\ LET k == call[c].arg.kind
           ok == call[c].st = "ok"
       IN  /\ adding' = (adding /\ ~(ok /\ k = "create"))
           /\ editing' = IF ok /\ k = "update" THEN None ELSE editing
           /\ dropping' = IF ok /\ k = "delete" THEN None ELSE dropping
           /\ form' = IF adding' \/ editing' # None THEN form ELSE None
           /\ watch' = [watch EXCEPT ![k] = IF @ = c THEN None ELSE @]
    /\ query' = AfterCall(query, call[c])
    /\ call' = [call EXCEPT ![c] = None]
    /\ stage' = [stage EXCEPT ![c] = "first"]
    /\ UNCHANGED <<rig, gear, drawn, sent>>
-----------------------------------------------------------------------------
(* The server.                                                              *)

List ==
    /\ query.st = "asked" /\ rig
    /\ query' = Answered(query, gear)
    /\ UNCHANGED <<rig, gear, drawn, page, call, stage, watch, sent>>

\* The rig goes from elsewhere, and its gear with it.
RigDeleted ==
    /\ rig
    /\ rig' = FALSE
    /\ gear' = [i \in Item |-> None]
    /\ UNCHANGED <<drawn, query, page, call, stage, watch, sent>>

Serving(c, k, s) ==
    /\ call[c] # None /\ call[c].st = "sent"
    /\ call[c].arg.kind \in k /\ stage[c] = s

\* The handler answers r: only "done" is not an error, which is retried.
Answer(c, r) ==
    /\ call' = [call EXCEPT ![c] =
                  IF r = "done" THEN Done(@, r)
                  ELSE [Missed(@) EXCEPT !.ans = r]]
    /\ stage' = [stage EXCEPT ![c] = "first"]

Second(c) ==
    /\ stage' = [stage EXCEPT ![c] = "second"]
    /\ UNCHANGED call

\* create_gear: the rig is looked up, then the row inserted.
CheckRig(c) ==
    /\ Serving(c, {"create"}, "first")
    /\ IF rig THEN Second(c) ELSE Answer(c, "no_rig")
    /\ UNCHANGED <<rig, gear, drawn, query, page, watch, sent>>

\* Faulty: no foreign key.
NoKey == TRUE

\* gear_items.rig_id REFERENCES rigs(id).
ForeignKey == rig

Insert(c) ==
    /\ Serving(c, {"create"}, "second")
    /\ IF ForeignKey
       THEN \E i \in Item \ drawn :
               /\ gear' = [gear EXCEPT ![i] = call[c].arg.val]
               /\ drawn' = drawn \cup {i}
               /\ Answer(c, "done")
       ELSE Answer(c, "no_reference") /\ UNCHANGED <<gear, drawn>>
    /\ UNCHANGED <<rig, query, page, watch, sent>>

\* update_gear, delete_gear: one statement, which joins the rig.
Write(c) ==
    /\ Serving(c, {"update", "delete"}, "first")
    /\ LET a == call[c].arg IN
       IF rig /\ gear[a.id] # None
       THEN /\ gear' = [gear EXCEPT ![a.id] = a.val]
            /\ Answer(c, "done")
       ELSE Second(c) /\ UNCHANGED gear
    /\ UNCHANGED <<rig, drawn, query, page, watch, sent>>

\* Faulty: the answer does not look at the rig.
AlwaysRig(c) == "no_rig"

\* ensure_rig_owned: what was missing.
Missing(c) == IF rig THEN "no_gear" ELSE "no_rig"

Explain(c) ==
    /\ Serving(c, {"update", "delete"}, "second")
    /\ Answer(c, Missing(c))
    /\ UNCHANGED <<rig, gear, drawn, query, page, watch, sent>>

\* A statement fails, or the answer is lost.
Miss(c) ==
    /\ call[c] # None /\ call[c].st # "error"
    /\ call' = [call EXCEPT ![c] = Missed(@)]
    /\ stage' = [stage EXCEPT ![c] = "first"]
    /\ UNCHANGED <<rig, gear, drawn, query, page, watch, sent>>

Next ==
    \/ OpenAdd \/ Dismiss \/ SubmitAdd \/ SubmitEdit \/ ConfirmDelete
    \/ \E i \in Item : OpenEdit(i) \/ OpenDelete(i)
    \/ \E v \in Form : Fill(v)
    \/ Fetched \/ FetchFails \/ Refetch \/ List \/ RigDeleted
    \/ \E c \in Call : \/ CheckRig(c) \/ Insert(c) \/ Write(c) \/ Explain(c)
                       \/ Miss(c) \/ Return(c)

Spec == Init /\ [][Next]_vars
-----------------------------------------------------------------------------
\* "Given a deleted rig, gear under that rig is not reachable"
\* (US-005-gear-inventory.md:19): also when the rig goes between the check
\* of its owner and the insert (rig.rs:318).
NoGearWithoutRig == ~rig => \A i \in Item : gear[i] = None

\* A refusal names what is missing, and it is: also when the rig or the item
\* goes between the two statements of a handler (rig.rs:405, 438), and when
\* a retry finds what its first try did.
RefusalsAreTrue ==
    \A c \in Call : call[c] # None =>
        /\ call[c].ans \in {"no_rig", "no_reference"} => ~rig
        /\ call[c].ans = "no_gear" => gear[call[c].arg.id] = None

\* With nothing under way the section shows the gear there is, while the rig
\* is there: also after a call that failed only for the page (useRig.ts:78).
RestShowsGear ==
    Settled(query) /\ rig /\ (\A c \in Call : call[c] = None)
      => query.data = gear
=============================================================================
