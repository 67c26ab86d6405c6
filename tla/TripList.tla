------------------------------ MODULE TripList ------------------------------
(***************************************************************************)
(* The list of trips (app/trips/page.tsx), the dialog that creates one and  *)
(* the prompt of the trip page that deletes one, with the optimistic        *)
(* updates of hooks/useTrips.ts.                                            *)
(*                                                                         *)
(* A create shows its trip before the server has it.  It keeps a snapshot   *)
(* of the list as it was and puts it back when it fails, whatever reached   *)
(* the list since.  Calls go on when their page is left, and both calls     *)
(* change the page when they end.                                           *)
(***************************************************************************)
EXTENDS QueryClient, Integers, FiniteSets

CONSTANTS Call,      \* mutations under way at a time
          MaxCalls,  \* bound: mutations in all
          MaxTrips,  \* bound: trips in all
          MaxGo      \* bound: pages the user goes to

Id == 1 .. MaxTrips
\* The optimistic trip of the nth call.
Temp(n) == 0 - n
Entry == Id \cup {Temp(n) : n \in 1 .. MaxCalls}
\* The list page, another page, or the page of the trip that a card names.
TripsPage == 0
Page == {TripsPage, None} \cup Entry
Arg == [kind : {"create"}, temp : Entry, snap : (SUBSET Entry) \cup {None}]
       \cup [kind : {"delete"}, id : Id]

TripsAssumption ==
    /\ MaxCalls \in Nat /\ MaxTrips \in Nat \ {0} /\ MaxGo \in Nat
    /\ None \notin Mutation(Arg, Id \cup {None})

VARIABLES
    trips,   \* the rows of the table
    used,    \* how many identifiers have been given
    query,   \* useTrips(): the trips of the list
    stale,   \* the list was invalidated while no page showed it
    where,   \* the page shown
    dialog,  \* isCreateOpen
    call,    \* the mutations under way
    mine,    \* those of them that this page began
    landing, \* the trips that handleSubmit goes to once the list is there
    sent,    \* how many mutations there have been
    went     \* how many pages the user went to

screen == <<where, dialog, mine>>
vars == <<trips, used, query, stale, screen, call, landing, sent, went>>

TypeOK ==
    /\ trips \subseteq Id /\ used \in 0 .. MaxTrips
    /\ query \in Query((SUBSET Entry) \cup {None}) /\ stale \in BOOLEAN
    /\ where \in Page /\ dialog \in BOOLEAN
    /\ call \in [Call -> Mutation(Arg, Id \cup {None}) \cup {None}]
    /\ mine \subseteq Call
    /\ landing \subseteq Id
    /\ sent \in 0 .. MaxCalls /\ went \in 0 .. MaxGo
-----------------------------------------------------------------------------
View ==
    IF where # TripsPage THEN "trip"
    ELSE IF IsError(query) THEN "error"
    ELSE IF query.data = None /\ query.st # "idle" THEN "loading"
    ELSE IF query.data \in {None, {}} THEN "empty" ELSE "cards"

Init ==
    /\ used \in 0 .. 1
    /\ trips = 1 .. used
    /\ query = Opened /\ stale = FALSE
    /\ where = TripsPage /\ dialog = FALSE /\ mine = {}
    /\ call = [c \in Call |-> None]
    /\ landing = {} /\ sent = 0 /\ went = 0

\* Another page; a list that is not fresh is fetched when its page mounts.
To(page, q, old) ==
    /\ where' = page
    /\ IF page = where
       THEN UNCHANGED <<dialog, mine>> /\ query' = q /\ stale' = old
       ELSE /\ dialog' = FALSE /\ mine' = {}
            /\ stale' = (old /\ page # TripsPage)
            /\ query' \in IF page # TripsPage \/ q.st # "idle" THEN {q}
                          ELSE IF old \/ q.err \/ q.data = None THEN {Asked(q)}
                          ELSE {q, Asked(q)}

\* A link: a card, the way back, or the rest of the application.
Go(page) ==
    /\ went < MaxGo /\ page # where
    /\ page \in Entry => View = "cards" /\ page \in query.data
    /\ went' = went + 1
    /\ To(page, query, stale)
    /\ UNCHANGED <<trips, used, call, landing, sent>>

Dialog(open) ==
    /\ where = TripsPage /\ dialog # open
    /\ dialog' = open
    /\ UNCHANGED <<trips, used, query, stale, where, call, mine, landing, sent,
                   went>>
-----------------------------------------------------------------------------
(* Mutations.                                                               *)

Begin(a) ==
    /\ sent < MaxCalls
    /\ sent' = sent + 1
    /\ \E c \in Call :
          /\ call[c] = None
          /\ call' = [call EXCEPT ![c] = Started(a)]
          /\ mine' = mine \cup {c}

\* The button is disabled while a mutation of this page is pending.
Pending == \E c \in mine : call[c] # None

\* handleSubmit with a form that validate() accepts, and onMutate: the list
\* shows the trip, if there is a list.
Submit ==
    /\ where = TripsPage /\ dialog /\ ~Pending
    /\ LET q == Cancelled(query)
           t == Temp(sent + 1)
       IN  /\ Begin([kind |-> "create", temp |-> t, snap |-> q.data])
           /\ query' = Written(q, IF q.data = None THEN None
                                  ELSE q.data \cup {t})
    /\ UNCHANGED <<trips, used, stale, where, dialog, landing, went>>

\* Delete Trip, on the page of a trip.
Delete ==
    /\ where \in Id /\ ~Pending
    /\ Begin([kind |-> "delete", id |-> where])
    /\ UNCHANGED <<trips, used, query, stale, where, dialog, landing, went>>

\* Faulty: only a mutation that succeeded invalidates the lists.
OnSuccess(m) == m.st = "ok"

\* onSettled: the lists are invalidated whatever the outcome.
Invalidates(m) == TRUE

\* onError puts back what the list was when the create began.
Rollback(q, m) ==
    IF m.arg.kind = "create" /\ m.st = "error"
    THEN Written(q, m.arg.snap) ELSE q

\* onSettled: a list that is shown is fetched anew, another one marked; a
\* fetch that outlives its page clears the mark.
Settle(m) ==
    LET q == Rollback(query, m) IN
    IF Invalidates(m)
    THEN IF where = TripsPage THEN <<Asked(q), stale>> ELSE <<Marked(q), TRUE>>
    ELSE <<q, stale>>

\* handleSubmit waits for the list before it goes to the new trip;
\* handleDeleteTrip goes to the list.
Return(c) ==
    /\ call[c] # None /\ call[c].st # "sent"
    /\ LET m == call[c]
           s == Settle(m)
       IN  IF m.st = "ok" /\ m.arg.kind = "delete"
           THEN /\ To(TripsPage, s[1], s[2])
                /\ UNCHANGED landing
           ELSE /\ query' = s[1] /\ stale' = s[2]
                /\ landing' = IF m.st = "ok" THEN landing \cup {m.ans}
                              ELSE landing
                /\ UNCHANGED <<where, dialog, mine>>
    /\ call' = [call EXCEPT ![c] = None]
    /\ UNCHANGED <<trips, used, sent, went>>

\* The list has come, or failed to, or is not shown: push.
Land(i) ==
    /\ i \in landing
    /\ where = TripsPage => query.st = "idle"
    /\ landing' = landing \ {i}
    /\ To(i, query, stale)
    /\ UNCHANGED <<trips, used, call, sent, went>>
-----------------------------------------------------------------------------
(* The list.                                                                *)

Fetched ==
    /\ query.st = "answered"
    /\ query' = Arrived(query)
    /\ stale' = FALSE
    /\ UNCHANGED <<trips, used, screen, call, landing, sent, went>>

FetchFails ==
    /\ query.st = "asked"
    /\ query' = Failed(query)
    /\ UNCHANGED <<trips, used, stale, screen, call, landing, sent, went>>

\* Retry, or a focus once the list is not fresh.
Refetch ==
    /\ where = TripsPage /\ query.st = "idle"
    /\ query' = Asked(query)
    /\ UNCHANGED <<trips, used, stale, screen, call, landing, sent, went>>
-----------------------------------------------------------------------------
(* The server.                                                              *)

List ==
    /\ query.st = "asked"
    /\ query' = Answered(query, trips)
    /\ UNCHANGED <<trips, used, stale, screen, call, landing, sent, went>>

Create(c) ==
    /\ used < MaxTrips
    /\ used' = used + 1
    /\ trips' = trips \cup {used'}
    /\ call' = [call EXCEPT ![c] = Done(@, used')]

Destroy(c) ==
    /\ call[c].arg.id \in trips
    /\ trips' = trips \ {call[c].arg.id}
    /\ call' = [call EXCEPT ![c] = Done(@, call[c].arg.id)]
    /\ UNCHANGED used

Serve(c) ==
    /\ call[c] # None /\ call[c].st = "sent"
    /\ \/ call[c].arg.kind = "create" /\ Create(c)
       \/ call[c].arg.kind = "delete" /\ Destroy(c)
    /\ UNCHANGED <<query, stale, screen, landing, sent, went>>

\* The row is not found, the statement fails, or the answer is lost.
Miss(c) ==
    /\ call[c] # None /\ call[c].st # "error"
    /\ call' = [call EXCEPT ![c] = Missed(@)]
    /\ UNCHANGED <<trips, used, query, stale, screen, landing, sent, went>>

Next ==
    \/ \E page \in Page : Go(page)
    \/ \E b \in BOOLEAN : Dialog(b)
    \/ Submit \/ Delete
    \/ \E i \in Id : Land(i)
    \/ Fetched \/ FetchFails \/ Refetch \/ List
    \/ \E c \in Call : Return(c) \/ Serve(c) \/ Miss(c)

Spec == Init /\ [][Next]_vars
-----------------------------------------------------------------------------
\* With nothing under way and no error shown, the list page shows the trips
\* there are, unless a call ended while what it shows was on its way.  No
\* optimistic trip and no snapshot stays, though a snapshot may hold another's
\* optimistic trip and lack a trip made since (useTrips.ts:92).
RestShowsTrips ==
    /\ where = TripsPage /\ Settled(query) /\ ~query.behind
    /\ query.data # None
    /\ \A c \in Call : call[c] = None
    => query.data = trips

\* "the trip appears in my trip list" and a deleted one "no longer appears in
\* the list" (docs/user-stories/v0.1/US-001-create-trip.md:17, :19): with
\* nothing under way and no error shown, the list page shows the trips there
\* are.  It need not, when a call ends while a list that was read before it is
\* on its way: invalidateQueries drops no first fetch and no fetch of a page
\* that was left, and the list passes for fresh when it arrives.
TripsAppear ==
    /\ where = TripsPage /\ Settled(query)
    /\ query.data # None /\ landing = {}
    /\ \A c \in Call : call[c] = None
    => query.data = trips
=============================================================================
