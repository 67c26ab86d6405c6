---------------------------- MODULE QueryClient ----------------------------
(***************************************************************************)
(* What the web client relies on of TanStack Query, as functions of one     *)
(* query and of one mutation; Providers.tsx sets the defaults.  The modules *)
(* of the pages hold queries and mutations in their variables and say when  *)
(* the server reads or writes.                                              *)
(***************************************************************************)
EXTENDS Naturals

CONSTANTS Retries,  \* defaultOptions.mutations.retry
          None      \* no data, no answer, nothing

ASSUME RetriesAssumption == Retries \in Nat
-----------------------------------------------------------------------------
\* A query: the data its page shows, its fetch, what that brings, whether the
\* last fetch that ended failed, and whether the answer on its way, or the data
\* that it became, was invalidated after the server had read it.
Query(V) == [data : V, st : {"idle", "asked", "answered"}, got : V,
             err : BOOLEAN, behind : BOOLEAN]

\* A page mounts, and the query has nothing cached.
Opened == [data |-> None, st |-> "asked", got |-> None, err |-> FALSE,
           behind |-> FALSE]

\* The fetch under way goes on, and its answer will pass for a fresh one.
Marked(q) == [q EXCEPT !.behind = @ \/ q.st = "answered"]

\* invalidateQueries of a query that is shown, refetch, a stale mount or a
\* focus: a fetch under way is dropped only if there are data already.
Asked(q) ==
    IF q.st # "idle" /\ q.data = None THEN Marked(q)
    ELSE [q EXCEPT !.st = "asked", !.got = None, !.behind = FALSE]

\* cancelQueries: the query is as it was before the fetch.
Cancelled(q) == [q EXCEPT !.st = "idle", !.got = None]

\* setQueryData: undefined is not written, and an error is forgotten.
Written(q, v) == IF v = None THEN q ELSE [q EXCEPT !.data = v, !.err = FALSE]

\* isError: a query without data that is fetched anew is loading.
IsError(q) == q.err /\ (q.st = "idle" \/ q.data # None)

\* The server reads v.
Answered(q, v) == [q EXCEPT !.st = "answered", !.got = v]

\* The answer arrives; or the fetch and its retries fail.
Arrived(q) == [q EXCEPT !.data = q.got, !.st = "idle", !.got = None,
                        !.err = FALSE]
Failed(q) == [q EXCEPT !.st = "idle", !.got = None, !.err = TRUE]

\* Nothing is under way, and no error is shown.
Settled(q) == q.st = "idle" /\ ~q.err
-----------------------------------------------------------------------------
\* A mutation: its variables, the retries made, what became of the request.
Mutation(A, V) == [arg : A, tries : 0 .. Retries,
                   st : {"sent", "ok", "error"}, ans : V]

Started(a) == [arg |-> a, tries |-> 0, st |-> "sent", ans |-> None]

Done(m, v) == [m EXCEPT !.st = "ok", !.ans = v]

\* Faulty: retried for ever.
Resent(m) == [Started(m.arg) EXCEPT !.tries = m.tries + 1]

\* The request fails, is refused, or its answer is lost: it is sent again
\* Retries times, whatever the failure.
Missed(m) ==
    IF m.tries < Retries
    THEN [Started(m.arg) EXCEPT !.tries = m.tries + 1]
    ELSE [m EXCEPT !.st = "error", !.ans = None]
=============================================================================
