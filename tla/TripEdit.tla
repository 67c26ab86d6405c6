------------------------------ MODULE TripEdit ------------------------------
(***************************************************************************)
(* Editing a trip on the trip page of several browser tabs.                 *)
(*                                                                         *)
(* The page shows drafts of the fields and saves all of them when one loses *)
(* focus (commitEdit in app/trips/[id]/page.tsx).  The answer of the PUT    *)
(* goes into the cache, and every new row that reaches the cache overwrites *)
(* the drafts.  Several saves may be under way, and the client retries a    *)
(* save that fails for whatever reason (hooks/useTrips.ts, Providers.tsx).  *)
(* update_for_user (repository/trip.rs) is one statement.                   *)
(***************************************************************************)
EXTENDS Naturals, FiniteSets

CONSTANTS Page,     \* browser tabs on the trip page
          Call,     \* saves in progress at a time
          Name,     \* names and descriptions a trip may have
          Date,     \* start and end dates it may have
          Stamp,    \* moments of time
          Retries,  \* defaultOptions.mutations.retry
          MaxLate,  \* bound: statements whose client has gone, at a time
          None      \* NULL or nothing

\* updated_at tells apart rows that are otherwise the same.
Row == [name : Name, dates : Date \cup {None}, at : Stamp]
Draft == [name : Name, dates : Date \cup {None}]
Edit == [page : Page, draft : Draft, tries : Nat]

NoneAssumption == None \notin Page \cup Date \cup Row \cup Edit

VARIABLES
    row,    \* the trip in the database
    by,     \* the page that wrote it last, None if that save was given up
    view,   \* each page's copy: its entry of the query cache
    draft,  \* what the fields of each page hold
    fetch,  \* the trip query of each page
    got,    \* the row it brings
    call,   \* the edit each save sends, and how often it has been retried
    ans,    \* the row its UPDATE returns
    srv,    \* what has become of its request
    late    \* UPDATEs whose client has gone

vars == <<row, by, view, draft, fetch, got, call, ans, srv, late>>
-----------------------------------------------------------------------------
Fields(r) == [name |-> r.name, dates |-> r.dates]

TypeOK ==
    /\ row \in Row
    /\ by \in Page \cup {None}
    /\ view \in [Page -> Row]
    /\ draft \in [Page -> Draft]
    /\ fetch \in [Page -> {"idle", "asked", "failed", "answered"}]
    /\ got \in [Page -> Row \cup {None}]
    /\ call \in [Call -> Edit \cup {None}]
    /\ ans \in [Call -> Row \cup {None}]
    /\ srv \in [Call -> {"none", "sent", "ok", "error"}]
    /\ late \subseteq Row

Init ==
    /\ row \in Row
    /\ by = None
    /\ view = [p \in Page |-> row]
    /\ draft = [p \in Page |-> Fields(row)]
    /\ fetch = [p \in Page |-> "idle"]
    /\ got = [p \in Page |-> None]
    /\ call = [c \in Call |-> None]
    /\ ans = [c \in Call |-> None]
    /\ srv = [c \in Call |-> "none"]
    /\ late = {}
-----------------------------------------------------------------------------
(* The page.                                                                *)

\* The user types into a field, or leaves it with Escape.
Type(p, d) ==
    /\ draft' = [draft EXCEPT ![p] = d]
    /\ UNCHANGED <<row, by, view, fetch, got, call, ans, srv, late>>

\* commitEdit: nothing is sent if nothing changed.
Commit(p, c) ==
    /\ call[c] = None
    /\ draft[p] # Fields(view[p])
    /\ call' = [call EXCEPT ![c] = [page |-> p, draft |-> draft[p], tries |-> 0]]
    /\ srv' = [srv EXCEPT ![c] = "sent"]
    /\ UNCHANGED <<row, by, view, draft, fetch, got, ans, late>>

\* A row reaches the cache; a new one resets the drafts.
Show(p, r) ==
    /\ view' = [view EXCEPT ![p] = r]
    /\ draft' = [draft EXCEPT ![p] = IF r = view[p] THEN @ ELSE Fields(r)]

\* Faulty: the answer is enough.
NoRefetch(c) ==
    /\ call' = [call EXCEPT ![c] = None]
    /\ UNCHANGED <<fetch, got>>

\* onSettled: invalidateQueries drops a fetch in flight and starts another.
Settle(c) ==
    /\ call' = [call EXCEPT ![c] = None]
    /\ fetch' = [fetch EXCEPT ![call[c].page] = "asked"]
    /\ got' = [got EXCEPT ![call[c].page] = None]

\* A failed save is sent again, at most Retries times, whatever the failure.
Retry(c) ==
    \/ /\ call[c].tries < Retries
       /\ call' = [call EXCEPT ![c] = [page |-> call[c].page,
                     draft |-> call[c].draft, tries |-> call[c].tries + 1]]
       /\ srv' = [srv EXCEPT ![c] = "sent"]
       /\ UNCHANGED <<fetch, got>>
    \/ /\ call[c].tries = Retries
       /\ Settle(c)
       /\ srv' = [srv EXCEPT ![c] = "none"]

\* The answer arrives: onSuccess puts it in the cache before onSettled.
Return(c) ==
    /\ \/ /\ srv[c] = "ok"
          /\ Show(call[c].page, ans[c])
          /\ Settle(c)
          /\ srv' = [srv EXCEPT ![c] = "none"]
       \/ /\ srv[c] = "error"
          /\ Retry(c)
          /\ UNCHANGED <<view, draft>>
    /\ ans' = [ans EXCEPT ![c] = None]
    /\ UNCHANGED <<row, by, late>>

\* The trip query of a page: on focus, or asked for by a save that settled.
Focus(p) ==
    /\ fetch[p] \in {"idle", "failed"}
    /\ fetch' = [fetch EXCEPT ![p] = "asked"]
    /\ UNCHANGED <<row, by, view, draft, got, call, ans, srv, late>>

Fetch(p) ==
    /\ fetch[p] = "asked"
    /\ \/ /\ fetch' = [fetch EXCEPT ![p] = "answered"]
          /\ got' = [got EXCEPT ![p] = row]
       \/ /\ fetch' = [fetch EXCEPT ![p] = "failed"]
          /\ UNCHANGED got
    /\ UNCHANGED <<row, by, view, draft, call, ans, srv, late>>

Fetched(p) ==
    /\ fetch[p] = "answered"
    /\ fetch' = [fetch EXCEPT ![p] = "idle"]
    /\ Show(p, got[p])
    /\ got' = [got EXCEPT ![p] = None]
    /\ UNCHANGED <<row, by, call, ans, srv, late>>
-----------------------------------------------------------------------------
(* The client and the server.                                               *)

\* updateTrip in lib/api.ts sends no dates.
Body(d) == [name |-> d.name, dates |-> None]

\* What update_for_user writes at t.
Written(body, t) == [name |-> body.name, dates |-> body.dates, at |-> t]

Update(c) ==
    /\ srv[c] = "sent"
    /\ \E t \in Stamp : row' = Written(Body(call[c].draft), t)
    /\ by' = call[c].page
    /\ ans' = [ans EXCEPT ![c] = row']
    /\ srv' = [srv EXCEPT ![c] = "ok"]
    /\ UNCHANGED <<view, draft, fetch, got, call, late>>

\* The statement may fail.
Fails(c) ==
    /\ srv[c] = "sent"
    /\ srv' = [srv EXCEPT ![c] = "error"]
    /\ UNCHANGED <<row, by, view, draft, fetch, got, call, ans, late>>

\* The connection to the client breaks: the answer is lost, or the handler is
\* dropped, and PostgreSQL may still carry out the UPDATE it was sent.
Break(c) ==
    /\ srv[c] # "none"
    /\ \/ UNCHANGED late
       \/ /\ srv[c] = "sent" /\ Cardinality(late) < MaxLate
          /\ \E t \in Stamp :
                late' = late \cup {Written(Body(call[c].draft), t)}
    /\ Retry(c)
    /\ ans' = [ans EXCEPT ![c] = None]
    /\ UNCHANGED <<row, by, view, draft>>

Land(r) ==
    /\ r \in late
    /\ late' = late \ {r}
    /\ row' = r
    /\ by' = None
    /\ UNCHANGED <<view, draft, fetch, got, call, ans, srv>>

Next ==
    \/ \E p \in Page :
          \/ \E d \in Draft : Type(p, d)
          \/ \E c \in Call : Commit(p, c)
          \/ Focus(p) \/ Fetch(p) \/ Fetched(p)
    \/ \E c \in Call : Update(c) \/ Fails(c) \/ Break(c) \/ Return(c)
    \/ \E r \in late : Land(r)

Spec == Init /\ [][Next]_vars
-----------------------------------------------------------------------------
\* A page that has nothing in flight shows what its last save made of the
\* trip, unless somebody has written it since: though the answers of two
\* saves, each put in the cache, arrive in another order than their UPDATEs
\* were carried out (useTrips.ts:106).
OwnSavesShow ==
    \A p \in Page :
        /\ by = p /\ fetch[p] = "idle"
        /\ \A c \in Call : call[c] # None => call[c].page # p
        => view[p] = row

\* "when I update its name or dates, then subsequent GET returns the updated
\* fields" (docs/user-stories/v0.1/US-001-create-trip.md:18): the row that a
\* save made has the fields that the page saved.  It has no dates, whatever
\* the page saved, because the client does not send them (api.ts:354).
SavesAllFields ==
    \A c \in Call : ans[c] # None => Fields(ans[c]) = call[c].draft
=============================================================================
