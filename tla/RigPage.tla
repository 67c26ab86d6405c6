------------------------------ MODULE RigPage ------------------------------
(***************************************************************************)
(* The rig page (app/rig/page.tsx): the profile of the newest rig, edited   *)
(* in place by five editors, the dialog that creates a rig and the prompt   *)
(* that deletes one; the calls of hooks/useRig.ts, and the statements of    *)
(* repository/rig.rs on the rows of one user.                               *)
(*                                                                         *)
(* Each editor saves when it loses focus or on Enter, and every save sends  *)
(* the drafts of all editors.  Every new version of the rig that reaches    *)
(* the cache resets all drafts, open editors included.                      *)
(***************************************************************************)
EXTENDS QueryClient, FiniteSets, FiniteSetsExt

CONSTANTS Field,     \* editors, of "name" "vehicle" "fuel" "power" "notes"
          Text,      \* values that a field may hold
          Bad,       \* a draft that a save refuses: no name, no valid year
          Call,      \* mutations under way at a time
          MaxCalls,  \* bound: mutations in all
          MaxRigs    \* bound: rigs in all

Vals == [Field -> Text]
\* What the create form holds: None unless validate() accepts it.
Form == Vals \cup {None}
Draft == [Field -> Text \cup {Bad}]
Id == 1 .. MaxRigs
\* updated_at tells apart versions with the same values.
Row == [val : Vals, at : Nat]
Rows == [Id -> Row \cup {None}]
Arg == [kind : {"save", "create", "delete"}, id : Id \cup {None},
        val : Vals \cup {None}, from : Id \cup {None}]

FieldAssumption ==
    /\ Field \subseteq {"name", "vehicle", "fuel", "power", "notes"}
    /\ Bad \notin Text
    /\ MaxCalls \in Nat /\ MaxRigs \in Nat
    /\ None \notin Rows /\ None \notin Mutation(Arg, {None})

VARIABLES
    rigs,    \* the rows of the table; a higher identifier is newer
    used,    \* how many identifiers have been given
    query,   \* useRigs(): the list of rigs
    editor,  \* the editor that is open
    draft,   \* what the editors hold
    from,    \* the rig they were filled from
    says,    \* saveState
    prompt,  \* isDeleteOpen
    dialog,  \* isCreateOpen
    form,    \* the create form: None unless validate() accepts it
    call,    \* the mutations under way
    sent     \* how many there have been

page == <<editor, draft, from, says, prompt, dialog, form>>
vars == <<rigs, used, query, page, call, sent>>

TypeOK ==
    /\ rigs \in Rows /\ used \in 0 .. MaxRigs
    /\ query \in Query(Rows \cup {None})
    /\ editor \in Field \cup {None} /\ draft \in Draft
    /\ from \in Id \cup {None}
    /\ says \in {"idle", "saving", "saved", "error"}
    /\ prompt \in BOOLEAN /\ dialog \in BOOLEAN
    /\ form \in Form
    /\ call \in [Call -> Mutation(Arg, {None}) \cup {None}]
    /\ sent \in 0 .. MaxCalls
-----------------------------------------------------------------------------
\* The page shows the newest rig of the list.
RigOf(list) ==
    LET ids == {i \in Id : list[i] # None} IN
    IF list = None \/ ids = {} THEN None
    ELSE [id |-> Max(ids), row |-> list[Max(ids)]]

Rig == RigOf(query.data)

View ==
    IF IsError(query) THEN "error"
    ELSE IF query.data = None THEN "loading"
    ELSE IF Rig = None THEN "empty" ELSE "rig"

\* A row just inserted.
Fresh(v) == [val |-> v, at |-> 0]

Init ==
    /\ used \in 0 .. MaxRigs
    /\ \E v \in Vals :
          rigs = [i \in Id |-> IF i <= used THEN Fresh(v) ELSE None]
    /\ query = Opened
    /\ editor = None /\ draft = [f \in Field |-> Bad] /\ from = None
    /\ says = "idle" /\ prompt = FALSE /\ dialog = FALSE /\ form = None
    /\ call = [c \in Call |-> None] /\ sent = 0

Begin(kind, id, val) ==
    /\ sent < MaxCalls
    /\ sent' = sent + 1
    /\ \E c \in Call :
          /\ call[c] = None
          /\ call' = [call EXCEPT ![c] = Started([kind |-> kind, id |-> id,
                        val |-> val, from |-> from])]

Pending(kind) == \E c \in Call : call[c] # None /\ call[c].arg.kind = kind
-----------------------------------------------------------------------------
(* The profile and its editors.                                             *)

Edit(f) ==
    /\ View = "rig" /\ editor = None
    /\ editor' = f
    /\ UNCHANGED <<rigs, used, query, draft, from, says, prompt, dialog, form,
                   call, sent>>

\* Notes have no rule that the input itself does not enforce.
Refusable == Field \ {"notes"}

Type(v) ==
    /\ View = "rig" /\ editor # None
    /\ v = Bad => editor \in Refusable
    /\ draft' = [draft EXCEPT ![editor] = v]
    /\ UNCHANGED <<rigs, used, query, editor, from, says, prompt, dialog,
                   form, call, sent>>

\* The power editor has no key handler.
Escapes == Field \ {"power"}

Escape ==
    /\ View = "rig" /\ editor \in Escapes
    /\ editor' = None
    /\ draft' = [draft EXCEPT ![editor] = Rig.row.val[editor]]
    /\ says' = "idle"
    /\ UNCHANGED <<rigs, used, query, from, prompt, dialog, form, call, sent>>

Refused == \E f \in Field : draft[f] = Bad

\* commitRigUpdate, on blur or Enter: drafts that are refused or unchanged
\* send nothing; else all of them are sent.
Leave ==
    /\ View = "rig" /\ editor # None
    /\ editor' = None
    /\ \/ /\ Refused
          /\ says' = "error"
          /\ UNCHANGED <<call, sent>>
       \/ /\ draft = Rig.row.val
          /\ says' = "idle"
          /\ UNCHANGED <<call, sent>>
       \/ /\ ~Refused /\ draft # Rig.row.val
          /\ says' = "saving"
          /\ Begin("save", Rig.id, draft)
    /\ UNCHANGED <<rigs, used, query, draft, from, prompt, dialog, form>>

\* setSavedIndicator: the timer of this save or of an earlier one.
SavedFades ==
    /\ says = "saved"
    /\ says' = "idle"
    /\ UNCHANGED <<rigs, used, query, editor, draft, from, prompt, dialog,
                   form, call, sent>>

\* Delete rig, Cancel; a click elsewhere has closed the editor before.
Prompt ==
    /\ View = "rig" /\ editor = None
    /\ prompt' = ~prompt
    /\ UNCHANGED <<rigs, used, query, editor, draft, from, says, dialog, form,
                   call, sent>>

ConfirmDelete ==
    /\ View = "rig" /\ editor = None /\ prompt /\ ~Pending("delete")
    /\ Begin("delete", Rig.id, None)
    /\ UNCHANGED <<rigs, used, query, page>>
-----------------------------------------------------------------------------
(* The page without a rig, and the dialog that creates one.                 *)

OpenDialog ==
    /\ View = "empty" /\ ~dialog
    /\ dialog' = TRUE
    /\ UNCHANGED <<rigs, used, query, editor, draft, from, says, prompt, form,
                   call, sent>>

Fill(v) ==
    /\ View = "empty" /\ dialog
    /\ form' = v
    /\ UNCHANGED <<rigs, used, query, editor, draft, from, says, prompt,
                   dialog, call, sent>>

\* Cancel keeps what was typed; every other way out resets the form.
CloseDialog ==
    /\ View = "empty" /\ dialog
    /\ dialog' = FALSE
    /\ form' \in {form, None}
    /\ UNCHANGED <<rigs, used, query, editor, draft, from, says, prompt, call,
                   sent>>

\* The submit button is disabled while a create is pending.
CanSubmit == ~Pending("create")

Submit ==
    /\ View = "empty" /\ dialog /\ form # None /\ CanSubmit
    /\ Begin("create", None, form)
    /\ UNCHANGED <<rigs, used, query, page>>
-----------------------------------------------------------------------------
(* Answers.                                                                 *)

\* A form that is not on the screen is unmounted.
Unmount == form' = IF View' = "empty" THEN form ELSE None

\* Faulty: text being typed is kept.
KeepsTyping ==
    IF editor # None \/ Rig' \in {None, Rig} THEN UNCHANGED <<draft, from>>
    ELSE draft' = Rig'.row.val /\ from' = Rig'.id

\* The effect on [rig].
ResetDrafts ==
    IF Rig' \in {None, Rig} THEN UNCHANGED <<draft, from>>
    ELSE draft' = Rig'.row.val /\ from' = Rig'.id

Fetched ==
    /\ query.st = "answered"
    /\ query' = Arrived(query)
    /\ ResetDrafts
    /\ Unmount
    /\ UNCHANGED <<rigs, used, editor, says, prompt, dialog, call, sent>>

FetchFails ==
    /\ query.st = "asked"
    /\ query' = Failed(query)
    /\ Unmount
    /\ UNCHANGED <<rigs, used, editor, draft, from, says, prompt, dialog,
                   call, sent>>

\* The Retry button, or a focus once the list is stale.
Refetch ==
    /\ query.st = "idle"
    /\ query' = Asked(query)
    /\ UNCHANGED <<rigs, used, page, call, sent>>

\* Faulty: onSuccess.
OnSuccess(q, m) == IF m.st = "ok" THEN Asked(q) ELSE q

\* onSettled asks for the list again, whatever the outcome.
AfterCall(q, m) == Asked(q)

\* What the page does with the outcome of its mutation.
Outcome(kind, ok) ==
    /\ says' = IF kind = "save" THEN IF ok THEN "saved" ELSE "error"
               ELSE IF kind = "delete" /\ ~ok THEN "error" ELSE says
    /\ prompt' = (prompt /\ kind # "delete")
    /\ dialog' = (dialog /\ ~(kind = "create" /\ ok))
    /\ form' = IF kind = "create" /\ ok THEN None ELSE form

Return(c) ==
    /\ call[c] # None /\ call[c].st # "sent"
    /\ Outcome(call[c].arg.kind, call[c].st = "ok")
    /\ query' = AfterCall(query, call[c])
    /\ call' = [call EXCEPT ![c] = None]
    /\ UNCHANGED <<rigs, used, editor, draft, from, sent>>
-----------------------------------------------------------------------------
(* The server.                                                              *)

List ==
    /\ query.st = "asked"
    /\ query' = Answered(query, rigs)
    /\ UNCHANGED <<rigs, used, page, call, sent>>

Create(a) ==
    /\ used < MaxRigs
    /\ used' = used + 1
    /\ rigs' = [rigs EXCEPT ![used'] = Fresh(a.val)]

Update(a) ==
    /\ rigs[a.id] # None
    /\ rigs' = [rigs EXCEPT ![a.id] = [val |-> a.val, at |-> @.at + 1]]
    /\ UNCHANGED used

Delete(a) ==
    /\ rigs[a.id] # None
    /\ rigs' = [rigs EXCEPT ![a.id] = None]
    /\ UNCHANGED used

Serve(c) ==
    /\ call[c] # None /\ call[c].st = "sent"
    /\ LET a == call[c].arg IN
       \/ a.kind = "create" /\ Create(a)
       \/ a.kind = "save" /\ Update(a)
       \/ a.kind = "delete" /\ Delete(a)
    /\ call' = [call EXCEPT ![c] = Done(@, None)]
    /\ UNCHANGED <<query, page, sent>>

\* The row is not found, the statement fails, or the answer is lost.
Miss(c) ==
    /\ call[c] # None /\ call[c].st # "error"
    /\ call' = [call EXCEPT ![c] = Missed(@)]
    /\ UNCHANGED <<rigs, used, query, page, sent>>

Next ==
    \/ \E f \in Field : Edit(f)
    \/ \E v \in Text \cup {Bad} : Type(v)
    \/ Escape \/ Leave \/ SavedFades \/ Prompt \/ ConfirmDelete
    \/ OpenDialog \/ CloseDialog \/ Submit
    \/ \E v \in Form : Fill(v)
    \/ Fetched \/ FetchFails \/ Refetch \/ List
    \/ \E c \in Call : Return(c) \/ Serve(c) \/ Miss(c)

Spec == Init /\ [][Next]_vars
-----------------------------------------------------------------------------
\* A save puts into a rig only what was shown of that rig or typed while it
\* was shown, though deletes, retried creates and late lists replace the rig
\* under an open editor (page.tsx:65): no rig gets the text of another.
SavesOwnRig ==
    \A c \in Call : call[c] # None /\ call[c].arg.kind = "save"
                      => call[c].arg.from = call[c].arg.id

AtRest == Settled(query) /\ \A c \in Call : call[c] = None

\* With nothing under way and no error shown, the page shows the rigs there
\* are: also when a call failed for the page and not for the server, as a
\* delete that is retried and finds nothing left to delete (useRig.ts:62).
RestShowsRigs == AtRest => query.data = rigs
=============================================================================
