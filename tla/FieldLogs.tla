----------------------------- MODULE FieldLogs -----------------------------
(***************************************************************************)
(* The field log of a trip: the page (app/trips/[id]/log/page.tsx) with a    *)
(* card for each day, the sheet with the form that writes a day             *)
(* (components/trips/FieldLogEntryForm.tsx), the calls of                   *)
(* hooks/useFieldLogs.ts and the statements of repository/field_log.rs.     *)
(*                                                                         *)
(* A form is gone once its sheet closes; its save is not, and neither is    *)
(* what the save does to the sheet when it ends.  A save that fails while   *)
(* the browser is offline waits to be retried until it is online again.     *)
(***************************************************************************)
EXTENDS QueryClient, FiniteSets

CONSTANTS Day,
          Text,     \* what a log may say
          Call,     \* mutations under way at a time
          MaxCalls, \* bound: mutations in all
          MaxOpens  \* bound: sheets opened in all

Logs == [Day -> Text \cup {None}]
\* A form: which one it is, the day of the log it edits, what it reports.
Form == [n : 1 .. MaxOpens, day : Day \cup {None}, error : BOOLEAN]
Arg == [kind : {"save"}, day : Day, text : Text, form : 1 .. MaxOpens]
       \cup [kind : {"delete"}, day : Day]

LogsAssumption ==
    /\ MaxCalls \in Nat /\ MaxOpens \in Nat
    /\ None \notin Form /\ None \notin Mutation(Arg, {None})

VARIABLES
    logs,    \* the rows of the trip: one for each day at most
    trip,    \* useTrip()
    query,   \* useFieldLogs()
    sheet,   \* the form that the sheet shows, None when it is closed
    opens,   \* how many there have been
    asks,    \* confirmDeleteDate
    call,    \* the mutations under way
    sent,    \* how many there have been
    online,  \* the browser is
    paused,  \* the mutations that wait for it
    untold   \* a save failed and no form said so

page == <<trip, sheet, opens, asks>>
net == <<online, paused>>
vars == <<logs, page, query, call, sent, net, untold>>

TypeOK ==
    /\ logs \in Logs
    /\ trip \in {"loading", "shown", "error"}
    /\ query \in Query(Logs \cup {None})
    /\ sheet \in Form \cup {None} /\ opens \in 0 .. MaxOpens
    /\ asks \in Day \cup {None}
    /\ call \in [Call -> Mutation(Arg, {None}) \cup {None}]
    /\ sent \in 0 .. MaxCalls
    /\ online \in BOOLEAN /\ paused \subseteq Call
    /\ untold \in BOOLEAN
-----------------------------------------------------------------------------
\* The cards, of the list last fetched, also under an error.
Cards == IF trip # "shown" \/ query.data = None THEN {}
         ELSE {d \in Day : query.data[d] # None}

Init ==
    /\ logs \in Logs
    /\ trip = "loading" /\ query = Opened
    /\ sheet = None /\ opens = 0 /\ asks = None
    /\ call = [c \in Call |-> None] /\ sent = 0
    /\ online = TRUE /\ paused = {}
    /\ untold = FALSE

TripCame ==
    /\ trip = "loading"
    /\ trip' \in {"shown", "error"}
    /\ UNCHANGED <<logs, query, sheet, opens, asks, call, sent, net, untold>>

\* New Entry, or the Edit button of a card.
Open(d) ==
    /\ trip = "shown" /\ sheet = None /\ opens < MaxOpens
    /\ d # None => d \in Cards
    /\ opens' = opens + 1
    /\ sheet' = [n |-> opens + 1, day |-> d, error |-> FALSE]
    /\ UNCHANGED <<logs, trip, query, asks, call, sent, net, untold>>

\* The save of this form: Saving... is on its button.
Saving ==
    \E c \in Call : /\ call[c] # None /\ call[c].arg.kind = "save"
                    /\ sheet # None /\ call[c].arg.form = sheet.n

\* Cancel, Escape or a click outside, also while it saves.
Close ==
    /\ sheet # None
    /\ sheet' = None
    /\ UNCHANGED <<logs, trip, query, opens, asks, call, sent, net, untold>>

Begin(a) ==
    /\ sent < MaxCalls
    /\ sent' = sent + 1
    /\ \E c \in Call :
          /\ call[c] = None
          /\ call' = [call EXCEPT ![c] = Started(a)]

\* handleSubmit of a form whose numbers are positive or empty; the date of an
\* existing log is disabled.
Submit(d, t) ==
    /\ sheet # None /\ ~Saving
    /\ sheet.day \in {None, d}
    /\ Begin([kind |-> "save", day |-> d, text |-> t, form |-> sheet.n])
    /\ sheet' = [sheet EXCEPT !.error = FALSE]
    /\ UNCHANGED <<logs, trip, query, opens, asks, net, untold>>

\* Delete and Cancel of a card.
Ask(d) ==
    /\ sheet = None /\ d \in Cards \cup {None}
    /\ asks' = d
    /\ UNCHANGED <<logs, trip, query, sheet, opens, call, sent, net, untold>>

\* Yes, delete.
ConfirmDelete ==
    /\ sheet = None /\ asks \in Cards
    /\ \A c \in Call : call[c] # None => call[c].arg # [kind |-> "delete", day |-> asks]
    /\ Begin([kind |-> "delete", day |-> asks])
    /\ UNCHANGED <<logs, page, query, net, untold>>
-----------------------------------------------------------------------------
(* Answers.                                                                 *)

Fetched ==
    /\ query.st = "answered"
    /\ query' = Arrived(query)
    /\ UNCHANGED <<logs, page, call, sent, net, untold>>

FetchFails ==
    /\ query.st = "asked"
    /\ query' = Failed(query)
    /\ UNCHANGED <<logs, page, call, sent, net, untold>>

\* Try again, or a focus once the list is stale.
Refetch ==
    /\ query.st = "idle"
    /\ query' = Asked(query)
    /\ UNCHANGED <<logs, page, call, sent, net, untold>>

\* Faulty: onSuccess.
OnSuccess(q, m) == IF m.st = "ok" THEN Asked(q) ELSE q

\* onSettled: the list is asked for again, whatever the outcome.
AfterCall(q, m) == Asked(q)

\* onSuccess closes the sheet, whichever form it shows by now; an error is
\* shown by the form of the save, if that is still there.
AfterSave(m) ==
    IF m.st = "ok" \/ sheet = None THEN None
    ELSE [sheet EXCEPT !.error = @ \/ sheet.n = m.arg.form]

Return(c) ==
    /\ call[c] # None /\ call[c].st # "sent"
    /\ LET m == call[c] IN
       /\ query' = AfterCall(query, m)
       /\ IF m.arg.kind = "save"
          THEN /\ sheet' = AfterSave(m)
               /\ untold' = (untold \/ (m.st = "error"
                    /\ ~(sheet' # None /\ sheet'.n = m.arg.form
                                       /\ sheet'.error)))
               /\ UNCHANGED asks
          ELSE /\ asks' = IF m.st = "ok" THEN None ELSE asks
               /\ UNCHANGED <<sheet, untold>>
    /\ call' = [call EXCEPT ![c] = None]
    /\ UNCHANGED <<logs, trip, opens, sent, net>>
-----------------------------------------------------------------------------
(* The network and the server.                                              *)

GoOffline == /\ online
             /\ online' = FALSE
             /\ UNCHANGED <<logs, page, query, call, sent, paused, untold>>

\* onlineManager resumes what was paused.
GoOnline == /\ ~online
            /\ online' = TRUE /\ paused' = {}
            /\ UNCHANGED <<logs, page, query, call, sent, untold>>

List ==
    /\ query.st = "asked" /\ online
    /\ query' = Answered(query, logs)
    /\ UNCHANGED <<logs, page, call, sent, net, untold>>

\* upsert replaces every column of a log that is there.
Upsert(a) == logs' = [logs EXCEPT ![a.day] = a.text]

Remove(a) == /\ logs[a.day] # None
             /\ logs' = [logs EXCEPT ![a.day] = None]

Serve(c) ==
    /\ call[c] # None /\ call[c].st = "sent" /\ c \notin paused /\ online
    /\ LET a == call[c].arg IN
       \/ a.kind = "save" /\ Upsert(a)
       \/ a.kind = "delete" /\ Remove(a)
    /\ call' = [call EXCEPT ![c] = Done(@, None)]
    /\ UNCHANGED <<page, query, sent, net, untold>>

\* Nothing is reached, there is no row to delete, or the answer is lost:
\* the retry waits while the browser is offline.
Miss(c) ==
    /\ call[c] # None /\ call[c].st # "error" /\ c \notin paused
    /\ call' = [call EXCEPT ![c] = Missed(@)]
    /\ paused' = IF ~online /\ call'[c].st = "sent"
                 THEN paused \cup {c} ELSE paused
    /\ UNCHANGED <<logs, page, query, sent, online, untold>>

Next ==
    \/ TripCame \/ Close \/ ConfirmDelete
    \/ \E d \in Day \cup {None} : Open(d) \/ Ask(d)
    \/ \E d \in Day, t \in Text : Submit(d, t)
    \/ Fetched \/ FetchFails \/ Refetch \/ List
    \/ GoOffline \/ GoOnline
    \/ \E c \in Call : Return(c) \/ Serve(c) \/ Miss(c)

Spec == Init /\ [][Next]_vars
-----------------------------------------------------------------------------
\* With nothing under way and no error shown, the page shows the logs there
\* are, whatever was saved, deleted, retried or lost (useFieldLogs.ts:30),
\* unless a call ended while the first list was on its way.
RestShowsLogs ==
    /\ Settled(query) /\ ~query.behind /\ query.data # None
    /\ \A c \in Call : call[c] = None
    => query.data = logs

\* "Given the client cannot reach the Vagabond server, when I attempt to save
\* a note, then the UI surfaces that writes require connectivity to the server
\* ... no silent data loss" (docs/user-stories/v0.1/US-009-field-note.md:19):
\* a save that fails is told by its form.  It is not when the form was closed
\* while it saved, or by another save that succeeded.
FailuresAreTold == ~untold
=============================================================================
