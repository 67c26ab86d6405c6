# Verification of Vagabond

Vagabond is a trip planner: a Rust HTTP API (`crates/vagabond-server`, Axum and
sqlx over PostgreSQL/PostGIS), its domain types (`crates/vagabond-core`) and a
Next.js web application (`web/vagabond-web`, TanStack Query over a small API
client).  This directory holds TLA+ models of it, the TLC runs that check them
and theorems about them that TLAPS checks.  Paths below are relative to `src/`.

## The system

| Part | State | Operations | Talks to |
|---|---|---|---|
| trip routes and repository (`routes/v1/trips.rs`, `repository/trip.rs`) | tables `trips`, `trip_legs`, `waypoints`, `routes` | create, update, delete of trips, legs, waypoints; GPX import | the pool, PostgreSQL |
| field logs (`repository/field_log.rs`, served by `trips.rs`) | `field_logs`, one per trip and day | insert, upsert, delete | the pool |
| trip events (`routes/v1/trip_events.rs`) | `trip_events`, a typed JSON payload | insert, partial update, delete, filtered list | the pool |
| rigs and gear (`routes/v1/rigs.rs`) | `rigs`, `gear_items` | create, update, delete | the pool |
| authentication (`auth.rs`, `extractors.rs`, `repository/user.rs`) | the cached key set, `users` | validate a token, refresh the keys, ensure the user | Keycloak, the pool |
| server shell (`main.rs`, `lib.rs`, `error.rs`, `response.rs`) | the connection pool | start-up, mapping of errors to answers | everything above |
| web session (`lib/auth-options.ts`, `AuthSync.tsx`) | the token of the session | refresh, sign-out | Keycloak, the API client |
| web API client (`lib/api.ts`) | the current token | one function per route, one retry after 401 | the API |
| query cache (`hooks/*`, `Providers.tsx`) | a copy of each list and row | queries, mutations, retries, invalidations, optimistic updates | the API client |
| trip list page (`app/trips/page.tsx`) | the list, its dialog | create, go to a trip | the query cache |
| trip page (`app/trips/[id]/page.tsx`) | drafts of the fields, dialogs | save, toggle, rename, delete, add, import, log an event | the query cache, the map |
| field log page (`app/trips/[id]/log/page.tsx`) | the sheet and its form, a prompt | save a day, delete a day | the query cache |
| rig page (`app/rig/page.tsx`, `components/rig`) | drafts of five editors, dialogs | create, save, delete a rig; add, edit, delete gear | the query cache |
| maps (`Map.tsx`, `mapStore.ts`) | the map instance, the viewport | create, tear down, layers, markers | MapLibre |
| planner assistant (`features/lifestyle/planner`) | a conversation | send, stream, clear | `/api/assistant` |
| lifestyle screens (`features/lifestyle/*`) | mock data | none that change state | - |

A handler of the server is a sequence of SQL statements.  Outside
`import_gpx` there is no transaction: every statement takes a connection from
the pool and commits by itself, so any other handler may run between two of
them, and a client that closes its connection drops the handler at an `await`.
The browser keeps copies of rows that it edits and sends back whole, and it
repeats a mutation that failed up to twice without knowing whether the server
carried it out.

What is hard, and what makes each part correct:

* **Trips, legs, waypoints.**  `MAX(seq) + 1` read and inserted beside others;
  checks of ownership in other statements than the write; cascades that race
  with inserts; an import that fails half-way or whose client goes.  Correct
  means: numbering without gap or repeat, no orphan, all of a file or nothing,
  no row of another user touched, every request ends.
* **Editing.**  Stale copies, answers out of order, lost answers, repeated
  calls.  Correct means: rows stay consistent (a visited waypoint has a time of
  visit), a page at rest shows what its last write made of the row, a saved
  field is saved.
* **Field logs, events.**  Upserts and deletes of the same day; saves that wait
  for the network; partial updates against a CHECK of two columns; a payload
  that must fit its type.  Correct means: the page shows what there is, and a
  failure is told (the second does not hold, see `log_failures`).
* **Rigs and gear.**  Drafts that outlive the rig they were filled from; an
  owner checked in another statement than the write.  Correct means: no rig
  gets the text of another, no gear without a rig, refusals that are true.
* **Adding to a trip.**  A dialog that waits for legs between the click and
  the call; legs taken from a cache; an import left under way.  Correct means:
  a waypoint lies where it was confirmed, on a leg that is not older than what
  the page knew.
* **Authentication and session.**  A key set that rotates behind a cache; a
  refresh token used twice; requests in flight while the token changes; a timer,
  a buffer and a leeway that must fit together.  Correct means: no call is
  rejected for its age, one retry is enough, nobody is signed out for nothing.
* **Query cache.**  Optimistic entries and the snapshots that undo them;
  answers, refetches and cancelled fetches in any order; fetches that an
  invalidation does not cancel.  Correct means: a list
  at rest is what the server has.
* **Map, assistant.**  Callbacks of an instance that is gone; effects that give
  up; a stream that goes on after its conversation was cleared.  Correct means:
  one live map that shows the list and hears clicks; an answer below its
  question, whole or not at all.

## Modules

| Module | What it is |
|---|---|
| `TripBook` | abstract: a book of trips in which every request takes effect at one moment |
| `TripStore` | the trip routes as statements over the tables |
| `MCTripStore` | the files and symmetry for TLC |
| `QueryClient` | what the pages below rely on of TanStack Query: a query and a mutation as records, and what happens to them |
| `WaypointEdit` | one waypoint, edited from several tabs: copies, calls, retries, `update_waypoint` |
| `TripEdit` | one trip, edited from its page: drafts, saves, the cache, `updateTrip` |
| `TripPoints` | how a trip gets waypoints: clicks on the map, the choice of a leg, GPX files |
| `TripEvents` | the events of a trip: the dialog, the list, the statements of the API |
| `TripList` | the list of trips: optimistic creates, snapshots, deletion, the way between the pages |
| `FieldLogs` | the field log: the sheet, saves by day, offline and back |
| `RigPage`, `GearList` | the profile of the newest rig; the gear of one rig |
| `MapView` | the map of a trip: effects, headers, handlers, the fit to the first waypoints |
| `Assistant` | the planner's chat: the route, the stream, the reader, Clear |
| `Session` | one browser: tokens that expire, the cookie its tabs share, session calls, API calls and their retry |
| `Keys` | the server's cache of signing keys, its refresh task, the extractor, the row of the user |
| `MCTripStore`, `MCTripEdit` | symmetry, and the files of an import |
| `MCProgress` | `TripStore` with two sizes of its pool |
| `MCWaypointEdit` | `WaypointEdit` in two sizes, and `TripEdit` |
| `MCSession` | `Session` in three sizes, and `Keys` |
| `MCRig`, `MCPages` | the pages together |
| `TripStoreProofs`, `WaypointEditProofs`, `TripEditProofs`, `SessionProofs`, `KeysProofs` | theorems about the module of that name; the first also that `TripStore` implements `TripBook`, the second also the one of `TripEditProofs` for the trip page of `MCWaypointEdit` |
| `MCSessionProofs` | the theorem of `SessionProofs` at the sizes of `MCSession`, and those of `KeysProofs` for its server |
| `RigProofs`, `PagesProofs` | theorems about `MCRig` and `MCPages`, and so about every page |

`TripStore` implements `TripBook` (a refinement).  `RigPage`, `GearList`,
`TripPoints`, `TripEvents`, `TripList` and `FieldLogs` extend `QueryClient`.
The pages do not share state: each query has a key of its own, and the calls of
a page touch its rows only.  Where two of them meet, the one that is not the
subject appears as what it does to the other: a rig deleted under its gear
(`RigDeleted`), a leg made by an import beside an add.  `MCPages` and `MCRig`
check the pages side by side with INSTANCE: a variable `at` says which part a
behaviour works in, and the others stay as they began.  Their bounds are
constants, to which the configurations give values, so that theorems about them
hold for any.  Since no action of one
part reads or writes a variable of another, and every property is about one
part, this leaves out no behaviour that a property could tell apart, and it
keeps the state space a sum instead of a product.  `MCSession`, `MCWaypointEdit`
and `MCProgress` use the same device for one module in several sizes, and for
two modules that share no state.

### TripStore

`owner`, `legs`, `wpts` are the tables `trips`, `trip_legs` and `waypoints`,
as functions of row identifiers; a leg carries the number of its `routes`.  As
in PostgreSQL a row carries the transaction that wrote it: the slot whose
import is open, or `Done`.  `drawn` holds the identifiers used so far, since
UUIDs do not come back.  A *slot* is a handler in progress: `req` is its
request, `pc` the statement it runs next, `seqNo` the number its snapshot gave,
`new` the row it inserted, `todo` the inserts of its file still to make,
`live` whether its client is there, `out` the status it answered.

| Action | Code |
|---|---|
| `Receive` | a request with its path and body reaches the router |
| `CreateTrip` | `create` of `trip.rs` |
| `CheckTrip`, `CheckLeg` | `get_by_id_for_user`, `ensure_leg_for_trip`, the refusals that follow them |
| `SelectLegSeq`, `InsertLeg` | the two halves of `INSERT ... SELECT MAX(seq)+1` of `create_leg` and `create_leg_in_tx`: the snapshot, then the unique index and the foreign key |
| `SelectWptSeq`, `InsertWpt` | the same of `create_waypoint` |
| `DeleteWpt`, `StartDeleteTrip`, `DeleteTrip` | `delete_waypoint`; `delete_for_user`, which takes a connection and then waits for row locks, and the cascades of the schema |
| `ImportWpt`, `ImportRoute`, `ImportEnds`, `Commit` | the loop of `import_gpx`, its check for an empty file, its commit |
| `CarriedOut` | how a statement that was carried out ends: the handler hears of it, or loses the connection before it does and answers 422 all the same |
| `StatementFails` | a statement fails and has done nothing; an open transaction is rolled back |
| `Abandon` | the client goes: the future is dropped where it awaits, and a statement already sent may still be carried out |

An insert splits in two because PostgreSQL does: the `SELECT` sees the
snapshot of the statement, while the unique index and the foreign key see rows
committed since, and wait for those of an open transaction.  Reads that change
nothing and answer nothing but a list are left out, and so are the values of
names and coordinates: a body that validation refuses is a nondeterministic
refusal where the handler checks it.

Runs (`MCTripStore`, and `MCProgress` for `store_progress`):

| Run | Instance | Shows |
|---|---|---|
| `store_rows` | 1 user, 1 trip, 2 legs, 2 waypoints, 3 files, 2 handlers, 2 connections | `LegsNumbered`, `WptsDistinct`, `NoOrphans`, `ImportPinsTrip`, `NoPartialImport`, `AnswerMatchesTables` |
| `store_tenants` | 2 users, 2 trips, 1 leg, 1 waypoint | `OnlyOwnerWrites` |
| `store_progress` | 2 handlers on one trip: with 2 connections and 2 legs, and with 1 connection and 1 leg | `EveryRequestEnds` under `EitherSpec` |
| `store_book` | 2 legs, 1 waypoint | `ImplementsBook`: `TripStore` implements `TripBook`; an import of it is a whole file or nothing (`US-003`'s "no partial silent success") |

Two handlers are enough for every race of the code, which are between two
handlers; two legs and two waypoints make numbering matter and let an import
be overtaken; the files are an empty one, one with a route only and one with a
waypoint and a route, so that an import can fail before, between and after its
inserts.  `MaxItems` is the most that a file of the 10 MB which the page accepts can
hold (2 in the runs); `TripBook` needs some bound on the routes of a leg.
Identifiers are used up and not reused: once they are gone an insert
fails, as any statement may, and the runs still reach deletes and refusals.
In `store_progress` a behaviour has two connections, so that one handler waits
for the key or the row that the other holds, or one that both wait for: with a
single connection nobody gets as far as a key that is held.  The theorems hold
for any pool.

Fairness (`EitherSpec`, as `FairSpec` of `TripStore`): each slot's handler is strongly fair.  The runtime polls
every future, PostgreSQL finishes statements and serves its lock queue in
order, and sqlx's pool queues waiters, so a connection or a lock that keeps
coming free is not withheld for ever.  Clients owe nothing: `Receive`,
`Abandon` and failures are not fair.

`map_db_err` (`repository/trip.rs:107`) and the end of `import_gpx`
(`routes/v1/trips.rs:653`) answer 422 to any error of sqlx, a connection that
is lost after PostgreSQL carried the statement out included.  So a leg or an
import that was committed may be answered as refused.  `AnswerMatchesTables`
says what holds all the same: 201 and 404 are exact, and behind a 422 is either
nothing or the whole leg, never a part of a file.

### WaypointEdit

`row` is the waypoint in the table, `view` the copy of each page, `fetch` and
`list` the list query of a page and what it brings; `call` holds what each
mutation sends and how often it was retried, `srv` and `seen` what its handler
does next and the row it read.  `late` are statements whose client has gone and
that PostgreSQL still carries out.  `by` remembers who wrote last, for the
property only.  `Toggle`, `Rename` and `Remove` are the handlers of the page,
each with exactly the fields it sends; `List`, `Update` and `Delete` the
statements of `update_waypoint` and `delete_waypoint`; `Return`, `Break`,
`Settle` and `Retry` what TanStack Query does with an answer, a failure, a
broken connection.  The pages do not disable anything while a call is in
progress, so several calls of one page overlap.

| Run | Instance | Shows |
|---|---|---|
| `edit_tabs`, waypoint | 2 tabs, 2 calls, no retries; and 1 tab, 2 calls, 2 retries | `VisitedStamped`, `OwnWritesShow`; `RetriedWritesShow`, which is `OwnWritesShow` of the tab alone |

`OwnWritesShow` is the reason for `invalidateQueries` in `onSettled` rather
than `onSuccess`: a call may fail for the client and not for the server.  The
bound `MaxLate` limits how many abandoned statements are on their way at once;
one suffices for a late statement to meet every other step.  `Retries` is 2 in
the code, as for the tab alone; the two tabs do without to stay small.

`WaypointEdit` and `TripEdit` begin when the page shows what it edits, for before
that there is nothing to click.  So their queries have data, and
`invalidateQueries` does drop a fetch under way (see `QueryClient` below).

### TripEdit

The same for the fields of a trip, with what differs: the page edits *drafts*
that every new row in the cache overwrites (`Show`), a save sends all of them
(`Commit`) unless nothing changed, and the answer of a save is put in the cache
before the refetch (`Return`).  `ans` is the row an UPDATE returned.  `Body` is
what `updateTrip` of `lib/api.ts` sends.  Names stand for names and
descriptions, `dates` for the two dates.  Deleting the trip leaves the page and
is not modelled here.

| Run | Instance | Shows |
|---|---|---|
| `edit_tabs`, trip | 1 tab, 2 saves of a name, 1 retry, 2 moments | `OwnSavesShow`, though answers are cached in any order |
| `edit_dates` | 1 tab, 2 saves of a name and a date, 1 retry | **violated**: `SavesAllFields` |

The finding: `updateTrip` leaves `start_date` and `end_date` out of its body
and `update_for_user` writes every column, so a save from the trip page makes
both dates NULL, the ones typed and the ones the trip had.  As no save keeps a
date, `edit_tabs` leaves them out (`TripDate` is empty).
`docs/user-stories/v0.1/US-001-create-trip.md:18` promises the opposite.

### Session

Time is a number, `now`; a token is the time at which it expires, 0 is none.
`cookie` is the token in the session cookie of the browser.  A tab has `mode`,
the `session` that `useSession()` returns, the `currentToken` of `lib/api.ts`,
the time its timer is `due`, a `call` to `/api/auth/session` per cause (timer,
focus, reload after a 401), and one API request `req`.  A session call is asked
with the cookie of that moment, served by the jwt callback, and its answer
arrives in any order among the others, setting the cookie as it does.

| Action | Code |
|---|---|
| `SignIn` | the first branch of the jwt callback |
| `Open`, `TimerFires`, `Focus` | `SessionProvider` of `Providers.tsx` |
| `Serve` | the rest of the jwt callback: keep, renew, or report `RefreshAccessTokenError` |
| `CallFails` | a session call fails: `getSession` and the provider take that for no session |
| `Arrive` | `AuthSync`: copy a token that changed, sign out on an error |
| `Send`, `Answer`, `Unauthorized`, `Reloaded` | `request` with `reloadSessionAccessToken` and the one retry |
| `SignOut`, `Leave` | the user menu; what `signOut` does to cookie and page |
| `Refusing`, `Tick` | Keycloak stops or resumes renewing; time passes |

`Served`, `Reply` and `Serve` make the renewal one step: `now` in the callback is
read before Keycloak is asked, so the `expiresAt` it keeps is never later than
the true one.  Keycloak's realm (`infra/keycloak/realm-export.json`) does not
revoke refresh tokens on use, so two renewals at once both succeed; a refusal
at any moment (`Refusing`) covers a provider that does.  Of a request only what
its token decides is modelled: `Accepted` is the `exp` check of
`validate_bearer_token`, with the leeway of the jsonwebtoken crate.

| Run | Instance | Shows |
|---|---|---|
| `session`, slow | 2 tabs: `Life` 2, `Buffer` 1, `Leeway` 0, `Poll` 2, `Delay` 1, 3 units | `RetryAccepted`, `SignOutHasCause` |
| `session`, prompt | 2 tabs, minutes: `Life` 5, `Buffer` 1, `Leeway` 1, `Poll` 2, `Delay` 0, 7 units | these, and `TimesFit`: `CallsAccepted` with the times of the code |
| `session`, alone | 1 tab at a time that is also looked at, half minutes: `Life` 10, `Buffer` 2, `Leeway` 2, `Poll` 4, `Delay` 0, 13 units | the same |
| `session_stale` | 1 tab, half minutes | **violated**: `NoStaleBearer` |

`prompt` and `alone` have the times of the code: tokens of 300 s (the realm), a
buffer of 60 s, a timer of 120 s, a leeway of 60 s (the default of
`Validation::new`).  In each a token's life and a renewal fit in the bound of the
clock.  `CallsAccepted` holds whenever `Poll + 3 * Delay <= Buffer + Leeway + 1`, which is
proved; at the times of the code this leaves `Delay = 0` and nothing to spare.
It is the server's leeway, which no code here mentions, that makes a timer of
twice the buffer work, and with calls that take any time some token is rejected
when its leeway is gone: that is what the one retry after a 401 is for.

`slow` is for that retry: calls take half the time between two firings of the
timer and there is no leeway, so tokens are rejected, sessions reloaded and requests
made again (`Unauthorized`, `Reloaded`).  `RetryAccepted` needs only
`2 * Delay <= Buffer + Leeway + 1`, here with equality; the code's times allow it calls
of 60 s.  Its violation when the callback keeps a token that has expired shows that
the branch is taken.

A session call may also fail (`CallFails`).  `getSession` then answers null, which
`reloadSessionAccessToken` cannot tell from a session that has ended, and the tab
signs out (`lib/api.ts:224`, `:301`); so the failure of a *reload* is one of
the causes in `SignOutHasCause`.  A failing call of the timer or of a focus is not:
the tab loses its token until it is looked at again, and signs nobody out.

The bounds: calls take at most `Delay`, timers are on time, a
tab has one API request and one session call per cause, and only the tabs in
`Looked` ask at moments of their own.  A tab whose machine slept, or whose
browser slowed its timers, is outside them: there the 401 and the retry are
what is left, and `RetryAccepted` does not use the timer.  No liveness is
claimed: nothing obliges a user or Keycloak.

The finding: the comment in `Providers.tsx:33` says that the timer is there "so the
JWT callback can refresh tokens before stale Bearer calls".  A tab that opens
61 to 119 s after its token was issued asks once too early and then too late,
and sends an expired token for up to 59 s.

### QueryClient and the pages

`QueryClient` says what the hooks rely on of TanStack Query, once for all
pages.  A query is a record: the data its page shows, whether its fetch was
asked or answered, what the answer brings, whether the last fetch failed.  A
mutation is a record of what it sends, whether the server has still to be
reached (`"sent"`) or it ended well or not, and how often it was repeated.
`Missed` is a request that never arrived *or* whose answer was lost, so that a
server may have done what the page believes failed; it is sent again until the
retries are used up.

`Asked` is `invalidateQueries` or a refetch.  A fetch under way is dropped only
when the query has data already, which is what makes lists asked for too early
harmless; the first fetch of a query goes on, the call that invalidates it joins
it, and its answer passes for fresh although the server may have read it before
the call.  A query that no page shows is only marked (`Marked`).  `behind` is
part of the record for that: the answer on its way, or the data it became, was
invalidated after the server had read it.

In each page module an action is a handler of the page, a callback of a
mutation (`Return`), an answer of a query (`Fetched`, `FetchFails`), or a
statement of the server (`Serve`, `List`); `Miss` loses requests and answers.
The views (`View`) say which buttons there are: without data and with an error
a page shows no cards to click.

| Module | Code | What is particular |
|---|---|---|
| `RigPage` | `app/rig/page.tsx`, `CreateRigDialog.tsx`, `useRig.ts`, `rig.rs` | one set of drafts for five editors, each of which saves all of them when it loses focus; every version of the rig that reaches the cache resets them (`ResetDrafts`); the page shows the newest rig, so deletes and retried creates change which |
| `GearList` | `GearInventorySection.tsx` and its dialogs, `rigs.rs`, `rig.rs` | handlers of two statements: the rig's owner, then the insert; the write, then the question why nothing was written (`Explain`) |
| `TripPoints` | the page of a trip with `AddWaypointDialog.tsx` and `ImportGpxDialog.tsx` | an add goes through `fetchQuery`, `createLeg`, `createWaypoint`, with awaits between; `reset()` leaves an import unwatched |
| `TripEvents` | `LogEventDialog.tsx`, `useTripEvents.ts`, `trip_event.rs` | the dialog stays mounted; `COALESCE` updates by other clients; payloads that cannot be read come back as none (`RowToEvent`) |
| `TripList` | `app/trips/page.tsx`, `CreateTripDialog.tsx`, `useTrips.ts` | `onMutate` cancels the fetch and shows the trip, `onError` puts a snapshot back; pages that are left while calls go on |
| `FieldLogs` | `app/trips/[id]/log/page.tsx`, `FieldLogEntryForm.tsx`, `field_log.rs` | `offlineFirst`: a failed save waits for the network; forms that are gone when their save ends |
| `MapView` | `Map.tsx`, `mapStore.ts`, the handlers of the trip page | the effects of a rendering as functions of refs, applied in order (`Effects`); `setMapReady` reaches the next rendering only (`due`) |
| `Assistant` | `PlannerAssistant.tsx`, `stream-assistant.ts`, `api/assistant/route.ts` | an event is two pieces, and a read ends anywhere; the end of a stream acts on whatever conversation there is |

| Run | Instance | Shows |
|---|---|---|
| `rig_page` | rig: 1 editor, 2 texts, 2 rigs, 2 calls; gear: 2 items, 2 values, 2 calls | `SavesOwnRig`; `NoGearWithoutRig`, `RefusalsAreTrue`; `RestShowsRows` |
| `pages` | 2 calls to a page and one retry each; 2 legs, 2 places and files; 2 events; 3 trips; 1 day of the log, 2 texts; 3 runs of the map's effect, 3 lists; 3 questions, 3 tokens | `AddedWhereConfirmed`, `NotOnOlderLeg`, `ClosesOnOwnImport`; `RestShowsEvents`; `RestShowsTrips`; `RestShowsLogs`; `OneLiveMap`, `ShownMapWorks`; `AnswersBelong`, `AnswersWhole`, `FailureLeavesQuestion`, `BusyHasStream` |

Why the bounds are enough: what can go wrong here is between two calls of a
page, or a call and a refetch, so two calls; one retry is the least with which a
call is repeated after it was carried out, and `edit_tabs` has the two of the
code for the tab alone.  One editor is enough for `SavesOwnRig`, which is about
rigs, and the others would only hold more drafts.  Three runs of the first
effect let a map be replaced while its replacement waits for a header; three
questions let a cleared conversation be begun twice while the first answer
still streams; three tokens are six pieces, so that one read can end in the
middle of an event and the next in the middle of the one after.

`RestShowsEvents`, `RestShowsTrips`, `RestShowsLogs` and `NotOnOlderLeg` leave out
data that are `behind`, and the two runs of the next section show that they have to:
`trips_appear` is `RestShowsTrips` without that condition.  What they say is that nothing
*else* makes a list at rest wrong: no retry, lost answer, overlapping call, rollback
or page that is left.

`pages` does not check for deadlock: a conversation ends when its questions are
used up, and so do the parts of the map and of the trips when the map's runs or
the user's ways are.  Those ends are bounds and not states of the program.

The `RestShows...` properties are about a client that is alone: what another
client writes is shown after the next focus or stale mount and not before.  In
`pages` the `api` part, where other clients write events, is therefore outside
`RestShowsEvents`, and a gear list whose rig was deleted from elsewhere is outside
its part of `RestShowsRows`.

### Where the pages break a promise

| Run | Instance | Shows |
|---|---|---|
| `log_failures` | as `pages` | **violated**: `FailuresAreTold` |
| `trips_appear` | as `pages` | **violated**: `TripsAppear` |

`log_failures`: Cancel, Escape and the overlay close the sheet of a field log while it
saves (`FieldLogEntryForm.tsx:201`, `log/page.tsx:227`), and a failure is told by that
form alone.  Who closes it is told nothing, and the note is lost;
`US-009-field-note.md:19` promises "no silent data loss".  A second form that is open
when the first save succeeds is closed too, and then its failure is not told.

`trips_appear`: a trip is made, or deleted, while a fetch of the list is under way that
`invalidateQueries` does not drop, because the list has no data yet or no page shows it.
The older list arrives and is fresh for `staleTime`: the trip is missing, or still
there (`hooks/useTrips.ts:96`, `:123`), against `US-001-create-trip.md:17` and `:19`.
The same holds of events, field logs and legs; no document promises it of those.

### Keys

`jwks` is the key set the server has cached, `fetch` the JWKS requests under
way, of the task of `bootstrap_jwks` and of requests that found no key.  The
issuer rotates its keys, publishing the one before too, so that a fetch that is
slow brings keys that are no longer the newest, and it may fail or answer
without a key.  `request` is an extractor in progress: its token and the await it
is at; then `EnsureUser` writes the row of the user, whose email is UNIQUE.

| Run | Instance | Shows |
|---|---|---|
| `session`, keys | 2 requests, the task, 3 keys, 1 user, 2 emails | `OutageKeepsSessions`, `SetBackOnce`, `FreshKeysFit` |

Two requests and the task are three fetches at once, of three generations of
keys.  The run is a part of `session` (`MCSession`), whose tokens have an age and no
key, while those of `Keys` have a key and no age.

No fairness is assumed, and so it is not claimed that the cache catches up with the
issuer: `reqwest::Client::new()` (`auth.rs:146`) sets no time-out, so a fetch that is
never answered stops the refresh task for good (`WakeUp` waits for the fetch
before), and requests fetch only when the cache is empty.  What holds in any order
of answers is that the cache goes back to older keys only by a fetch that was already
stale, each of them once (`SetBackOnce`), and that a cache which has the published
keys refuses no token in use (`FreshKeysFit`).

## Proofs

All theorems hold for any constants that satisfy the named assumptions: a pool
of at least one connection, files of at most `MaxItems` items, identifiers of trips
that are not those of legs or waypoints, pages of bounded counters, markers like
`None` outside the sets they are added to.  TLC evaluates each assumption in the
runs; the theorems of `TripEditProofs` have theirs (`NoneAssumption`) as a
hypothesis, which `MCWaypointEdit` assumes of the instance it checks.

`TripStoreProofs`: `TypeCorrect`, `LegsAreNumbered`, `WptsAreDistinct`,
`NothingIsOrphaned`, `ImportsAreAtomic`, `ImportsPinTheirTrip`,
`AnswersMatchTables`, `OnlyOwnersWrite`, `CommittedRowsLast`,
`NobodyWaitsInACircle`, `RequestsTakeBoundedStatements`, `TablesImplementBook`.

* The invariant is `TypeInv /\ StoreInv`.  None of the four table invariants is
  inductive by itself: that a leg's insert leaves no gap depends on what its
  handler read before (`PendingInv`: all lower numbers are still committed
  unless the trip has gone, for legs only go with their trip), that nothing is
  orphaned depends on open imports holding their trip (`OpenInv`), and that an
  identifier is not in a table depends on it not being drawn (`RowsInv`).
* `AnswerMatchesTables` relates an answer, which stays with its slot, to rows that
  others may delete later: `AnswerInv` says that the leg of an answer is there or
  went with its trip, whose identifier is spent, and that no handler has
  a leg before its insert.  The leg behind a lost COMMIT is whole (`WholeLeg`), since
  `Commit` comes when nothing of the file is left to do.
* `OnlyOwnerWrites` is about steps.  The insert of a waypoint does not ask for the
  owner again: `WriterInv` says that between the check and the insert its leg is
  still on a trip of that user, or gone.  Trips never change hands, and
  identifiers do not come back.
* `RowsLast` (theorem `CommittedRowsLast`) is about steps too: a committed leg stays as
  it is until its trip goes, whatever else is inserted, imported or rolled back.
  It rests on an import writing no leg but its own (`OpenInv`).
* `WaitsEnd` (theorem `NobodyWaitsInACircle`) is the safety of `EveryRequestEnds`.  A
  handler waits for a connection, for the key of its leg or for the row of its
  trip (`WaitsFor`); each is kept from it by handlers that are under way, and
  those go on or wait for open imports, which never wait.  So there is no
  deadlock, and no chain of waits is longer than two.  It follows from
  `NoPartialImport`, whoever writes a row is at "items" or "commit", and from the
  pool serving an open transaction on its own connection (`HasConn`).
* `StatementsCount` (theorem `RequestsTakeBoundedStatements`): `StatementsLeft` falls with
  every statement a handler makes and rises only with a new request.  Its bound
  is `MaxItems + 5`; for an import it needs `ItemsInv`, below.  What is left for TLC of
  `EveryRequestEnds` is that a handler that does not wait has a step (ENABLED)
  and that fairness makes it take it.
* `TablesImplementBook` is the refinement.  A step of a handler either leaves the
  committed tables alone or changes them as one action of `TripBook` does; a
  commit is the whole import.  Beside the invariants above it needs `ItemsInv`: an
  open import has made no more routes than its file holds less what is still to do.

`WaypointEditProofs`: `EditTypeCorrect`, `VisitsAreStamped`, `WritesShow`.
`VisitedStamped` needs that rows a handler has read and rows still to land are
stamped too.  `OwnWritesShow` speaks of pages with nothing to fetch; the proof adds
that an answered fetch of such a page holds the row (`PageRight`), which a
write by another page or an abandoned statement makes vacuous.

`TripEditProofs`: `SaveTypeCorrect`, `SavesShow`, along the same argument; the answer
that is cached last need not be the newest, but a refetch follows it.  The trip
page of `MCWaypointEdit` has the same steps (`SameAsTrip`), so its `OwnSavesShow` is
`TripSavesShow`, in `WaypointEditProofs`.

`SessionProofs`: `SessionTypeCorrect`, `CallsAreAccepted`, `RetriesAreAccepted`,
`SignOutsHaveCause`, `StaleTokensAreYoung`.

* `RetryAccepted` is proved for every number of tabs and all durations with
  `2 * Delay <= Buffer + Leeway + 1`: an answer that is not an error had more than
  the buffer left when it was asked for (`RepliesFresh`), the session call and
  the request take at most `Delay` each (`CallTimes`, `ReqTimes`), and the leeway
  covers the rest.
* `CallsAccepted` is proved under `PollFits`,
  `Poll + 3 * Delay <= Buffer + Leeway + 1`, which the times of the code satisfy for
  calls that take none.
  The invariant is `PollInv`.  The token of an open tab came after its timer last
  fired, or after the firing before and the call that will replace it is under
  way (`TokenKept`); either has not long expired when a request is sent
  (`BearerYoung`), and the leeway covers that.  The two depend on each other: as long
  as no request is rejected no session is reloaded (`NeverReloads`), which would
  bring tokens at other times.
* `StaleBriefly` (theorem `StaleTokensAreYoung`) is what holds of the violated
  `NoStaleBearer`: under `PollFits` a token that is sent has expired for less than
  `Poll + 2 * Delay - Buffer`, which is 60 s with the times of the code and calls that
  take no time.  The run `session_stale` shows that some are sent.
* `SignOutHasCause` needs that as long as nobody has signed out, nothing was
  refused and no reload has failed, a missing cookie was never there (`NoTokenYet`), so that a tab with
  a bearer to reject always reloads a session with a token (`ReloadsHaveToken`).

`MCSessionProofs`: `TheTimesFit`.  The lemmas of `SessionProofs` are taken by INSTANCE
at the sizes `prompt` and `alone`, where its assumption and `PollFits` are
arithmetic (2 + 0 <= 3 and 4 + 0 <= 5).  `SameAsPrompt` and `SameAsAlone` show that
the instances of `MCSession` have the same steps.  `OutagesEndNoSession`,
`KeysAreSetBackOnce` and `FreshKeysAreEnough` are the three theorems of `KeysProofs` for
the server of `MCSession`, which has the same steps too (`KeysBehave`).

`KeysProofs`: `KeysTypeCorrect`, `OutagesKeepSessions`, `SlowFetchesSetBackOnce`,
`FreshKeysFitTokens`.

* A key in the cache came from an answer of the issuer (`CacheWasHeard`).
* `SetBackOnce` (`StaleStep`): as long as the issuer keeps its keys,
  the fetches that hold older ones only become fewer, and when the cache goes
  away from the published keys it is to those of one that is then done.
* `FreshKeysFit`: while the cache has the published keys nobody is refused.  Every token
  in use is signed with a published key (`TokensFit`), since the issuer, as it is
  modelled, takes a new key only when no token needs the one before it.

`RigProofs`: `RigTypeCorrect`, `SavesKeepToTheirRig`, `GearGoesWithItsRig`,
`RefusalsHold`, `RestedPageShowsRows`.

* `RigPage`: drafts were filled from the rig they are shown for (`FromShown`), a call
  carries them whole (`CallsComplete`), and a list that is asked for no more
  holds the rigs (`ListFollows`).
* `GearList`: what the first statement of a handler found missing is still missing
  at its second and in its answer (`GearCalls`), for a rig that went and an item
  that went stay away, and no page asks for an item that never was
  (`ItemsDrawn`); `GearFollows` is the list.

`PagesProofs`: `PagesTypeCorrect` and twelve theorems, one for each property of
the run `pages`.  Its last part shows that a behaviour of `MCPages` is one of each of
its parts (`AllParts`), so that an invariant of a part is one of the whole.

* The lists at rest (`RestedEventsShow`, `RestedTripsShow`, `RestedLogsShow`, and the
  two of `RigProofs`) share one argument: a call that is under way will ask for
  the list when it ends, an answer that came before that is dropped or is
  `behind`, and a fetch answered after the last write holds what is there.  `TripsInv` adds what
  the optimistic rows and the snapshots of creates under way are.
* `WaypointsAreConfirmed`, `AddsKeepUp`, `DialogsCloseOnTheirImport`: `PointsInv`
  says for each await of an add what it has read, and which calls the dialog
  of a file still hears.
* `OneMapLives`, `MapsShowThePage`: `MapRuns` relates the maps to the runs of the
  effect, `MapHears` the click handler to the run that set it, and `MapReady`
  says that a loaded map shows the list, or is moving, or that the rendering which
  tells it is still due.
* The assistant: `ChatStreams` says that the only stream is that of the question
  asked last, `ChatSays` what of it was written and read, and that the
  conversation shows the events that are whole, unless it was cleared.

Only model-checked:

* `RetriedWritesShow`.  It is `OwnWritesShow` of another size of its module, and so a
  case of `WritesShow`, which is proved for any number of pages and retries; it is not
  stated as a theorem of its own.
* `EveryRequestEnds`: liveness under fairness is out of TLAPS' reach.  Its safety is
  proved: `WaitsEnd` and `StatementsCount`.
* The four properties that are violated.

## Plan

Done: all modules; every invariant and action property of the runs, and the
refinement, as theorems, but for `RetriedWritesShow`; the safety that the liveness
property rests on.

Left:

1. `RetriedWritesShow` as a theorem, by an instance of `WaypointEditProofs` as
   `MCSessionProofs` has one of `SessionProofs`.
2. Calls that land after their client has gone in the pages that have only lost
   answers.

## Disagreements without a run

Met while modelling; the models contain them, and no run of its own checks them.

* Overlapping saves of the rig page undo each other: each sends the drafts of
  all editors as they were when it began (`app/rig/page.tsx:226`), and
  `docs/user-stories/v0.1/US-004-rig-profile.md:18` promises that a GET after an
  update reflects it.
* `createTrip` leaves the dates out, as `updateTrip` does (`lib/api.ts:347`
  against `US-001-create-trip.md:17`).
* The map does not fit the extent of the waypoints: its effect asks
  `isStyleLoaded()` right after the effect before it set a source, when MapLibre
  answers no (`components/Map.tsx:454` against `US-008-waypoints-on-map.md:18`).
  It depends on MapLibre.
* The notice of an archive whose header fails late is put over the map that
  replaced the one it was for (`components/Map.tsx:219`).
* Creating a trip before the first list has come cancels that fetch, and the
  page says that there are no trips until the create ends
  (`hooks/useTrips.ts:55`).
* A save of a field log made offline says "Saving..." until the network
  is back (`components/Providers.tsx:25`).
* A token signed with a key that the cache does not have yet is answered with
  401 until the next refresh, 300 s later or, if its fetch hangs, never: only an empty cache makes a
  request fetch (`auth.rs:68` against `US-011-keycloak-auth.md:18`).
* A user who takes over the email of another is refused on every request until
  the other's row changes (`repository/user.rs:21`).
* The payload of an event whose type is not in the schema, or whose duration is
  negative, is stored and never read again (`repository/trip_event.rs:46`
  against `ADR-013-trip-event-domain.md:87`).
* An import whose answer is lost has made rows that the page does not ask for
  (`hooks/useWaypoints.ts:120`), and a failed add of a waypoint is told nobody
  (`app/trips/[id]/page.tsx:873`).

## Not modelled

* `health` (one `SELECT 1`), `telemetry` (answers 501), the gear and telemetry
  crates (stubs), the lifestyle screens over mock data, wording, layout,
  tracing, metrics, CORS and deployment files.
* The core domain types: validation of names and clamping of pages are pure and
  have unit tests of their own; a form or a body is valid or not.
* What of a GPX file becomes rows, and the size check of the page.  An import is
  a list of waypoints and routes to insert.
* `POST /logs`, which the web client does not call.
* The trip dates in `TripList`; the list of waypoints that is refetched after an
  add or import (in `WaypointEdit` its queries are those of a row).
* React renders as one step with the callback that causes it, except the map,
  whose effects are what matters.  Statements that land after their client
  has gone are in `TripStore`, `WaypointEdit` and `TripEdit`; the other pages lose
  requests and answers but nothing lands late.
* MapLibre, PostgreSQL, TanStack Query, Keycloak and the model behind the
  assistant: only what the code relies on.  Basemaps, notices over the map and
  the building of the trip's context are left out, and so is the assistant's
  page being left.
* The middleware that redirects pages without a session keeps no state.  Tokens
  in `Keys` do not expire; their age is what `Session` is about.

Two behaviours are modelled without a property because nothing in the repository
says what should happen: which of two tabs wins when both edit from old copies,
and what becomes of text typed while a save is under way (`TripEdit!Show`
discards it).  Notes of a waypoint are lost on the first toggle or rename, since
the list the page copies from has none (`WaypointEdit!Flat`).
