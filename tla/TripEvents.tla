----------------------------- MODULE TripEvents -----------------------------
(***************************************************************************)
(* The events of a trip: the dialog that logs one                          *)
(* (components/trips/LogEventDialog.tsx), the list on the page of the trip  *)
(* with its Delete buttons, the calls of hooks/useTripEvents.ts, and the    *)
(* statements of repository/trip_event.rs, which other clients of the API   *)
(* call too.                                                               *)
(*                                                                         *)
(* The dialog is mounted as long as the page: its fields outlive a log that *)
(* succeeds and are reset by a cancel only.                                 *)
(***************************************************************************)
EXTENDS QueryClient, FiniteSets

CONSTANTS Required, \* types whose fields must be filled in: fills, issues
          Optional, \* types whose fields may be empty: stops, campsites, hikes
          Note,     \* the type without fields
          Call,     \* mutations under way at a time
          MaxTime,  \* bound: moments 1 .. MaxTime
          MaxRows,  \* bound: events made in all
          MaxCalls, \* bound: mutations in all
          Others    \* other clients write too

EventType == Required \cup Optional \cup {Note}
Time == 1 .. MaxTime
Field == {"empty", "good", "bad"}
\* A payload names its own type; "bad" is a number that the type cannot hold,
\* as -5 for a duration.
Payload == {p \in [type : EventType, field : Field] :
               p.type = Note => p.field = "empty"}
Row == [id : 1 .. MaxRows, type : EventType, at : Time,
        end : Time \cup {None}, payload : Payload \cup {None}]
\* The state of the dialog.
Form == [type : EventType \cup {None}, at : Time \cup {None},
         field : [Required \cup Optional -> Field]]
Blank == [type |-> None, at |-> 1,
          field |-> [t \in Required \cup Optional |-> "empty"]]
Arg == [kind : {"log"}, type : EventType, at : Time, payload : Payload \cup {None}]
       \cup [kind : {"delete"}, id : 1 .. MaxRows]

OthersAssumption ==
    /\ Others \in BOOLEAN
    /\ MaxTime \in Nat \ {0} /\ MaxRows \in Nat /\ MaxCalls \in Nat
    /\ None \notin Mutation(Arg, {None})

VARIABLES
    rows,    \* trip_events of the trip
    made,    \* how many there have been
    query,   \* useTripEvents()
    open,    \* logEventDialogOpen
    form,
    call,    \* the mutations under way
    sent     \* how many there have been

dialog == <<open, form>>
vars == <<rows, made, query, dialog, call, sent>>

TypeOK ==
    /\ rows \in SUBSET Row
    /\ made \in 0 .. MaxRows
    /\ query \in [data : (SUBSET Row) \cup {None},
                  got : (SUBSET Row) \cup {None},
                  st : {"idle", "asked", "answered"}, err : BOOLEAN,
                  behind : BOOLEAN]
    /\ open \in BOOLEAN /\ form \in Form
    /\ call \in [Call -> Mutation(Arg, {None}) \cup {None}]
    /\ sent \in 0 .. MaxCalls
-----------------------------------------------------------------------------
(* The repository.                                                          *)

\* serde of EventPayload.
Reads(p) == /\ p.field # "bad"
            /\ p.type \in Required => p.field = "good"

\* row_to_event: a payload that cannot be read is none.
RowToEvent(r) ==
    [r EXCEPT !.payload = IF @ # None /\ Reads(@) THEN @ ELSE None]

\* CONSTRAINT trip_events_ended_after_occurred
EndedAfterOccurred(r) == r.end \in {None} \cup r.at .. MaxTime

Create(type, at, end, payload) ==
    LET r == [id |-> made + 1, type |-> type, at |-> at, end |-> end,
              payload |-> payload]
    IN  /\ made < MaxRows
        /\ EndedAfterOccurred(r)
        /\ made' = made + 1
        /\ rows' = rows \cup {r}

\* COALESCE keeps at and payload; end is what the body says, or none.
Updated(r, at, end, payload) ==
    [r EXCEPT !.at = IF at = None THEN @ ELSE at,
              !.end = end,
              !.payload = IF payload = None THEN @ ELSE payload]

Update(id, at, end, payload) ==
    \E r \in rows :
        LET u == Updated(r, at, end, payload) IN
        /\ r.id = id
        /\ EndedAfterOccurred(u)
        /\ rows' = (rows \ {r}) \cup {u}
        /\ UNCHANGED made

Delete(id) ==
    /\ \E r \in rows : r.id = id
    /\ rows' = {r \in rows : r.id # id}
    /\ UNCHANGED made
-----------------------------------------------------------------------------
(* The dialog and the page.                                                 *)

Init ==
    /\ rows = {} /\ made = 0
    /\ query = Opened
    /\ open = FALSE /\ form = Blank
    /\ call = [c \in Call |-> None] /\ sent = 0

OpenDialog ==
    /\ ~open
    /\ open' = TRUE
    /\ UNCHANGED <<rows, made, query, form, call, sent>>

\* Cancel, Escape or a click outside, also while a log is pending.
Cancel ==
    /\ open
    /\ open' = FALSE /\ form' = Blank
    /\ UNCHANGED <<rows, made, query, call, sent>>

\* The fields of another type are not shown and keep what they hold.
Fill ==
    /\ open
    /\ \/ \E t \in EventType \cup {None} : form' = [form EXCEPT !.type = t]
       \/ \E t \in Time \cup {None} : form' = [form EXCEPT !.at = t]
       \/ /\ form.type \in Required \cup Optional
          /\ \E v \in Field : form' = [form EXCEPT !.field[form.type] = v]
    /\ UNCHANGED <<rows, made, query, open, call, sent>>

IsFormValid == /\ form.type # None
               /\ form.type \in Required => form.field[form.type] = "good"

BuildPayload ==
    IF form.type = Note THEN None
    ELSE [type |-> form.type, field |-> form.field[form.type]]

\* createEventMutation.isPending
Pending == \E c \in Call : call[c] # None /\ call[c].arg.kind = "log"

Begin(a) ==
    /\ sent < MaxCalls
    /\ sent' = sent + 1
    /\ \E c \in Call :
          /\ call[c] = None
          /\ call' = [call EXCEPT ![c] = Started(a)]

\* Log Event: without a time, toISOString throws and nothing is sent.
HandleSubmit ==
    /\ open /\ ~Pending /\ IsFormValid /\ form.at # None
    /\ Begin([kind |-> "log", type |-> form.type, at |-> form.at,
              payload |-> BuildPayload])
    /\ UNCHANGED <<rows, made, query, dialog>>

\* No list yet, or none that came, looks like a trip without events.
Listed == IF query.data = None THEN {} ELSE query.data

\* The button of an event of the list, confirmed; nothing keeps a second click away.
HandleDelete(id) ==
    /\ ~open
    /\ \E r \in Listed : r.id = id
    /\ Begin([kind |-> "delete", id |-> id])
    /\ UNCHANGED <<rows, made, query, dialog>>
-----------------------------------------------------------------------------
(* Answers, the network and the server.                                     *)

Fetched == /\ query.st = "answered"
           /\ query' = Arrived(query)
           /\ UNCHANGED <<rows, made, dialog, call, sent>>

FetchFails == /\ query.st = "asked"
              /\ query' = Failed(query)
              /\ UNCHANGED <<rows, made, dialog, call, sent>>

\* A focus, once the list is stale.
Refetch == /\ query.st = "idle"
           /\ query' = Asked(query)
           /\ UNCHANGED <<rows, made, dialog, call, sent>>

\* Faulty: onSuccess.
OnSuccess(q, m) == IF m.st = "ok" THEN Asked(q) ELSE q

\* onSettled: the list is asked for again, whatever the outcome.
AfterCall(q, m) == Asked(q)

\* A log that succeeds closes the dialog, opened again or not.
Return(c) ==
    /\ call[c] # None /\ call[c].st # "sent"
    /\ query' = AfterCall(query, call[c])
    /\ open' = (open /\ ~(call[c].arg.kind = "log" /\ call[c].st = "ok"))
    /\ call' = [call EXCEPT ![c] = None]
    /\ UNCHANGED <<rows, made, form, sent>>

List == /\ query.st = "asked"
        /\ query' = Answered(query, {RowToEvent(r) : r \in rows})
        /\ UNCHANGED <<rows, made, dialog, call, sent>>

Serve(c) ==
    /\ call[c] # None /\ call[c].st = "sent"
    /\ LET a == call[c].arg IN
       \/ a.kind = "log" /\ Create(a.type, a.at, None, a.payload)
       \/ a.kind = "delete" /\ Delete(a.id)
    /\ call' = [call EXCEPT ![c] = Done(@, None)]
    /\ UNCHANGED <<query, dialog, sent>>

\* Nothing is reached, there is no row to delete, or the answer is lost.
Miss(c) == /\ call[c] # None /\ call[c].st # "error"
           /\ call' = [call EXCEPT ![c] = Missed(@)]
           /\ UNCHANGED <<rows, made, query, dialog, sent>>

\* Another client of the API: any type, and any payload for it.
Other ==
    /\ Others
    /\ \E end \in Time \cup {None}, p \in Payload \cup {None} :
          \/ \E type \in EventType, at \in Time :
                Create(type, at, end, p)
          \/ \E id \in 1 .. MaxRows, at \in Time \cup {None} :
                Update(id, at, end, p)
          \/ \E id \in 1 .. MaxRows : Delete(id)
    /\ UNCHANGED <<query, dialog, call, sent>>

Next ==
    \/ OpenDialog \/ Cancel \/ Fill \/ HandleSubmit
    \/ \E id \in 1 .. MaxRows : HandleDelete(id)
    \/ Fetched \/ FetchFails \/ Refetch \/ List \/ Other
    \/ \E c \in Call : Return(c) \/ Serve(c) \/ Miss(c)

Spec == Init /\ [][Next]_vars
-----------------------------------------------------------------------------
\* With nothing under way and no error, the page lists the events there are,
\* as the server reads them, whatever was logged, deleted, retried or lost
\* (useTripEvents.ts:30), unless a call ended while the first list was on its
\* way.
RestShowsEvents ==
    /\ Settled(query) /\ ~query.behind /\ query.data # None
    /\ \A c \in Call : call[c] = None
    => query.data = {RowToEvent(r) : r \in rows}
=============================================================================
