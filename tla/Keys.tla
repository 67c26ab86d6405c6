-------------------------------- MODULE Keys --------------------------------
(***************************************************************************)
(* Who calls the API (auth.rs, extractors.rs, repository/user.rs): the      *)
(* signing keys of the issuer, cached by the server and refreshed by a task *)
(* and by requests that find no key at all, and the row of the users table  *)
(* that every request writes.                                              *)
(*                                                                         *)
(* The issuer signs with its newest key and publishes the one before it too,*)
(* for the tokens that it signed last.  Every token here is valid.          *)
(***************************************************************************)
EXTENDS Naturals

CONSTANTS Request, User, Email, None,
          MaxKeys \* bound: keys of the issuer

Key == Nat \ {0}
Task == "task" \* of bootstrap_jwks
Fetcher == Request \cup {Task}
Asking == {0} \* a fetch without an answer
Token == [user : User, email : Email, key : Key]

VARIABLES
    newest,  \* the key that the issuer signs with
    account, \* the email of each user there: no two have the same
    token,   \* the token each user has
    jwks,    \* the keys that the server has cached
    fetch,   \* a JWKS request: Asking, or the keys it brought
    request, \* a request: its token, what it waits for, its answer
    users,   \* the email of each row of the table
    heard    \* a fetch has brought keys since the start

issuer == <<newest, account, token>>
vars == <<issuer, jwks, fetch, request, users, heard>>

TypeOK ==
    /\ newest \in Key
    /\ account \in [User -> Email]
    /\ token \in [User -> Token \cup {None}]
    /\ jwks \subseteq Key
    /\ fetch \in [Fetcher -> {None, Asking} \cup SUBSET Key]
    /\ request \in [Request -> [token : Token,
                     at : {"check", "fetch", "ensure", "200", "422", "401", "503"}]
                     \cup {None}]
    /\ users \in [User -> Email \cup {None}]
    /\ heard \in BOOLEAN
-----------------------------------------------------------------------------
(* The issuer.                                                              *)

Published == {newest, newest - 1} \ {0}

Init ==
    /\ newest = 1
    /\ account \in [User -> Email]
    /\ \A u, v \in User : u # v => account[u] # account[v]
    /\ token = [u \in User |-> None]
    /\ jwks \in {{}, Published} /\ heard = (jwks # {})
    /\ fetch = [f \in Fetcher |-> None]
    /\ request = [r \in Request |-> None]
    /\ users = [u \in User |-> None]

\* A key is retired once no token needs it.
Rotate ==
    /\ newest < MaxKeys
    /\ \A u \in User : token[u] # None => token[u].key = newest
    /\ \A r \in Request : request[r] # None => request[r].token.key = newest
    /\ newest' = newest + 1
    /\ UNCHANGED <<account, token, jwks, fetch, request, users, heard>>

ChangeEmail(u, e) ==
    /\ \A v \in User : account[v] # e
    /\ account' = [account EXCEPT ![u] = e]
    /\ UNCHANGED <<newest, token, jwks, fetch, request, users, heard>>

\* Signing in, or the refresh of a token.
Issue(u) ==
    /\ token' = [token EXCEPT ![u] =
                    [user |-> u, email |-> account[u], key |-> newest]]
    /\ UNCHANGED <<newest, account, jwks, fetch, request, users, heard>>

\* The JWKS endpoint answers, or it answers without a usable key.
AnswerFetch(f) ==
    /\ fetch[f] = Asking
    /\ fetch' = [fetch EXCEPT ![f] = Published]
    /\ UNCHANGED <<issuer, jwks, request, users, heard>>

FailFetch(f) ==
    /\ fetch[f] = Asking
    /\ fetch' = [fetch EXCEPT ![f] = {}]
    /\ UNCHANGED <<issuer, jwks, request, users, heard>>
-----------------------------------------------------------------------------
(* refresh_jwks.                                                            *)

\* Faulty: no key is as good as any.
Emptied(got) == got

\* No usable key is an error, and the cache stays as it is.
NextKeys(got) == IF got = {} THEN jwks ELSE got

Write(f) ==
    /\ fetch[f] # None /\ fetch[f] # Asking
    /\ jwks' = NextKeys(fetch[f])
    /\ heard' = (heard \/ fetch[f] # {})
    /\ fetch' = [fetch EXCEPT ![f] = None]

\* The task wakes up every 300 seconds, also after an error.  A fetch has no
\* time-out: one that is never answered is the last one that the task makes.
WakeUp ==
    /\ fetch[Task] = None
    /\ fetch' = [fetch EXCEPT ![Task] = Asking]
    /\ UNCHANGED <<issuer, jwks, request, users, heard>>

Refreshed == Write(Task) /\ UNCHANGED <<issuer, request, users>>
-----------------------------------------------------------------------------
(* UserId::from_request_parts.                                              *)

Moves(r, at) == request' = [request EXCEPT ![r].at = at]

Receive(r, u) ==
    /\ request[r] = None /\ token[u] # None
    /\ request' = [request EXCEPT ![r] = [token |-> token[u], at |-> "check"]]
    /\ UNCHANGED <<issuer, jwks, fetch, users, heard>>

\* validate_bearer_token, with keys.
Check(r) ==
    /\ request[r] # None /\ request[r].at = "check" /\ jwks # {}
    /\ Moves(r, IF request[r].token.key \in jwks THEN "ensure" ELSE "401")
    /\ UNCHANGED <<issuer, jwks, fetch, users, heard>>

\* Without any key: the request fetches them itself.
CheckEmpty(r) ==
    /\ request[r] # None /\ request[r].at = "check" /\ jwks = {}
    /\ Moves(r, "fetch")
    /\ fetch' = [fetch EXCEPT ![r] = Asking]
    /\ UNCHANGED <<issuer, jwks, users, heard>>

\* Faulty: no key fits.
NoKeyFits == "401"

\* AuthError::JwksUnavailable
Unavailable == "503"

CheckFetched(r) ==
    /\ request[r] # None /\ request[r].at = "fetch"
    /\ Moves(r, IF fetch[r] = {} THEN Unavailable ELSE "check")
    /\ Write(r)
    /\ UNCHANGED <<issuer, users>>

\* INSERT ... ON CONFLICT (id) DO UPDATE, with UNIQUE (email).
EnsureUser(r) ==
    /\ request[r] # None /\ request[r].at = "ensure"
    /\ LET t == request[r].token IN
       IF \E v \in User \ {t.user} : users[v] = t.email
       THEN Moves(r, "422") /\ UNCHANGED users
       ELSE Moves(r, "200") /\ users' = [users EXCEPT ![t.user] = t.email]
    /\ UNCHANGED <<issuer, jwks, fetch, heard>>

Answer(r) ==
    /\ request[r] # None /\ request[r].at \in {"200", "422", "401", "503"}
    /\ request' = [request EXCEPT ![r] = None]
    /\ UNCHANGED <<issuer, jwks, fetch, users, heard>>

Next ==
    \/ Rotate \/ WakeUp \/ Refreshed
    \/ \E u \in User : Issue(u) \/ \E e \in Email : ChangeEmail(u, e)
    \/ \E f \in Fetcher : AnswerFetch(f) \/ FailFetch(f)
    \/ \E r \in Request : \/ \E u \in User : Receive(r, u)
                          \/ Check(r) \/ CheckEmpty(r) \/ CheckFetched(r)
                          \/ EnsureUser(r) \/ Answer(r)

Spec == Init /\ [][Next]_vars

-----------------------------------------------------------------------------
\* An issuer that was never reached is no reason to tell a user that a token
\* is invalid, which ends the session in the web client (auth.rs:61).
OutageKeepsSessions ==
    \A r \in Request : request[r] # None /\ request[r].at = "401" => heard

\* A fetch is stale when it holds keys other than those published now.
Stale == {f \in Fetcher : fetch[f] \notin {None, Asking, {}, Published}}

\* A slow fetch may write older keys over newer ones (auth.rs:170), but each
\* does so once: between two new keys of the issuer, stale fetches only become
\* fewer, and the cache goes away from the published keys only for the keys of
\* one that was stale and is done with that.
SetBackOnce ==
    [][newest' = newest =>
          /\ Stale' \subseteq Stale
          /\ jwks' \notin {jwks, Published} =>
                \E f \in Stale : jwks' = fetch[f] /\ f \notin Stale']_vars

Refused(r) == request[r] # None /\ request[r].at = "401"

\* Only a cache that is behind the issuer costs a user the session: with the
\* keys that are published in it, no token in use is found invalid.
FreshKeysFit ==
    [][\A r \in Request : Refused(r)' /\ ~Refused(r) => jwks # Published]_vars
=============================================================================
