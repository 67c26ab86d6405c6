----------------------------- MODULE KeysProofs -----------------------------
(***************************************************************************)
(* Theorems about Keys, for any number of users, requests and keys.         *)
(***************************************************************************)
EXTENDS Keys, TLAPS

(* Keys in the cache were brought by a fetch: with this, a token can be      *)
(* found invalid only once the issuer has been heard.                       *)
CacheWasHeard == jwks # {} => heard

KeysInv == TypeOK /\ CacheWasHeard /\ OutageKeepsSessions

LEMMA PublishedKeys == TypeOK => Published \subseteq Key
  BY DEF TypeOK, Published, Key

LEMMA KeysStart == Init => KeysInv
  <1> SUFFICES ASSUME Init PROVE KeysInv
    OBVIOUS
  <1>1. newest \in Key /\ Published \subseteq Key
    BY DEF Init, Key, Published
  <1>2. QED
    BY <1>1 DEF Init, KeysInv, TypeOK, CacheWasHeard, OutageKeepsSessions

(* What refresh_jwks writes, and that it was heard if it is anything.        *)
LEMMA WriteStep ==
    ASSUME TypeOK, CacheWasHeard, NEW f \in Fetcher, Write(f)
    PROVE  /\ jwks' \subseteq Key /\ heard' \in BOOLEAN
           /\ fetch' \in [Fetcher -> {None, Asking} \cup SUBSET Key]
           /\ CacheWasHeard' /\ (heard => heard')
  <1>1. fetch[f] \in SUBSET Key
    BY DEF TypeOK, Write
  <1>2. QED
    BY <1>1 DEF TypeOK, Write, NextKeys, CacheWasHeard

LEMMA KeysStep == KeysInv /\ [Next]_vars => KeysInv'
  <1> SUFFICES ASSUME KeysInv, [Next]_vars PROVE KeysInv'
    OBVIOUS
  <1> USE DEF KeysInv
  <1> DEFINE States == {"check", "fetch", "ensure", "200", "422", "401",
                        "503"}
  <1>0. ASSUME NEW r \in Request, NEW at \in States, request[r] # None,
               Moves(r, at), at = "401" => heard', heard => heard'
        PROVE  /\ request' \in [Request -> [token : Token, at : States]
                                             \cup {None}]
               /\ OutageKeepsSessions'
    <2>1. request[r] \in [token : Token, at : States]
      BY <1>0 DEF TypeOK
    <2>2. [request[r] EXCEPT !.at = at] \in [token : Token, at : States]
      BY <2>1
    <2>3. request' = [request EXCEPT ![r] = [request[r] EXCEPT !.at = at]]
      BY <1>0 DEF Moves
    <2>4. request' \in [Request -> [token : Token, at : States] \cup {None}]
      BY <2>2, <2>3 DEF TypeOK
    <2>5. request'[r].at = at
      BY <2>1, <2>3 DEF TypeOK
    <2>6. \A s \in Request \ {r} : request'[s] = request[s]
      BY <2>3 DEF TypeOK
    <2>7. OutageKeepsSessions'
      BY <1>0, <2>5, <2>6 DEF OutageKeepsSessions
    <2>8. QED BY <2>4, <2>7
  <1>1. CASE Rotate
    <2>1. newest' \in Key
      BY <1>1 DEF Rotate, TypeOK, Key
    <2>2. QED BY <1>1, <2>1 DEF Rotate, TypeOK, CacheWasHeard,
                               OutageKeepsSessions
  <1>2. CASE WakeUp
    BY <1>2 DEF WakeUp, issuer, TypeOK, CacheWasHeard, OutageKeepsSessions
  <1>3. CASE Refreshed
    BY <1>3, WriteStep DEF Refreshed, Fetcher, issuer, TypeOK,
                           OutageKeepsSessions
  <1>4. ASSUME NEW u \in User, Issue(u) PROVE KeysInv'
    <2>1. [user |-> u, email |-> account[u], key |-> newest] \in Token
      BY DEF TypeOK, Token
    <2>2. QED BY <1>4, <2>1 DEF Issue, TypeOK, CacheWasHeard,
                               OutageKeepsSessions
  <1>5. ASSUME NEW u \in User, NEW e \in Email, ChangeEmail(u, e)
        PROVE  KeysInv'
    BY <1>5 DEF ChangeEmail, TypeOK, CacheWasHeard, OutageKeepsSessions
  <1>6. ASSUME NEW f \in Fetcher, AnswerFetch(f) \/ FailFetch(f)
        PROVE  KeysInv'
    BY <1>6, PublishedKeys DEF AnswerFetch, FailFetch, issuer, TypeOK,
                               CacheWasHeard, OutageKeepsSessions
  <1>7. ASSUME NEW r \in Request, NEW u \in User, Receive(r, u)
        PROVE  KeysInv'
    <2>1. [token |-> token[u], at |-> "check"] \in [token : Token, at : States]
      BY <1>7 DEF Receive, TypeOK
    <2>2. request' \in [Request -> [token : Token, at : States] \cup {None}]
      BY <1>7, <2>1 DEF Receive, TypeOK
    <2>3. OutageKeepsSessions'
      BY <1>7, <2>1 DEF Receive, TypeOK, OutageKeepsSessions
    <2>4. QED BY <1>7, <2>2, <2>3 DEF Receive, issuer, TypeOK, CacheWasHeard
  <1>8. ASSUME NEW r \in Request, Check(r) PROVE KeysInv'
    BY <1>0, <1>8 DEF Check, issuer, TypeOK, CacheWasHeard
  <1>9. ASSUME NEW r \in Request, CheckEmpty(r) PROVE KeysInv'
    BY <1>0, <1>9 DEF CheckEmpty, issuer, TypeOK, CacheWasHeard, Fetcher
  <1>10. ASSUME NEW r \in Request, CheckFetched(r) PROVE KeysInv'
    <2>1. r \in Fetcher
      BY DEF Fetcher
    <2>2. QED BY <1>0, <1>10, <2>1, WriteStep
                 DEF CheckFetched, Unavailable, issuer, TypeOK
  <1>11. ASSUME NEW r \in Request, EnsureUser(r) PROVE KeysInv'
    <2>1. request[r].token \in Token
      BY <1>11 DEF EnsureUser, TypeOK
    <2>2. users' \in [User -> Email \cup {None}]
      BY <1>11, <2>1 DEF EnsureUser, TypeOK, Token
    <2>3. QED BY <1>0, <1>11, <2>2 DEF EnsureUser, issuer, TypeOK,
                                      CacheWasHeard
  <1>12. ASSUME NEW r \in Request, Answer(r) PROVE KeysInv'
    BY <1>12 DEF Answer, issuer, TypeOK, CacheWasHeard, OutageKeepsSessions
  <1>13. CASE UNCHANGED vars
    BY <1>13 DEF vars, issuer, TypeOK, CacheWasHeard, OutageKeepsSessions
  <1>14. QED
    BY <1>1, <1>2, <1>3, <1>4, <1>5, <1>6, <1>7, <1>8, <1>9, <1>10, <1>11,
       <1>12, <1>13 DEF Next
-----------------------------------------------------------------------------
(* Every reachable state of the key cache, its fetches and the requests is   *)
(* well typed.                                                              *)
THEOREM KeysTypeCorrect == Spec => []TypeOK
  <1>1. KeysInv => TypeOK
    BY DEF KeysInv
  <1>2. QED BY <1>1, KeysStart, KeysStep, PTL DEF Spec

(* No token is found invalid before the issuer has been heard: an issuer     *)
(* that cannot be reached is answered 503, which does not end a session.     *)
THEOREM OutagesKeepSessions == Spec => []OutageKeepsSessions
  <1>1. KeysInv => OutageKeepsSessions
    BY DEF KeysInv
  <1>2. QED BY <1>1, KeysStart, KeysStep, PTL DEF Spec
-----------------------------------------------------------------------------
(* What writing the keys of a fetch makes of the stale ones.                 *)
LEMMA WriteStale ==
    ASSUME TypeOK, NEW f \in Fetcher, Write(f), newest' = newest
    PROVE  /\ Stale' \subseteq Stale
           /\ jwks' \notin {jwks, Published} =>
                 \E g \in Stale : jwks' = fetch[g] /\ g \notin Stale'
  <1>1. Published' = Published
    BY DEF Published
  <1>2. /\ fetch'[f] = None
        /\ \A g \in Fetcher \ {f} : fetch'[g] = fetch[g]
    BY DEF TypeOK, Write
  <1>3. Stale' \subseteq Stale /\ f \notin Stale'
    BY <1>1, <1>2 DEF Stale
  <1>4. ASSUME jwks' \notin {jwks, Published}
        PROVE  f \in Stale /\ jwks' = fetch[f]
    BY <1>4 DEF Write, NextKeys, Stale
  <1>5. QED BY <1>3, <1>4

LEMMA StaleStep ==
    ASSUME TypeOK, Next, newest' = newest
    PROVE  /\ Stale' \subseteq Stale
           /\ jwks' \notin {jwks, Published} =>
                 \E f \in Stale : jwks' = fetch[f] /\ f \notin Stale'
  <1>1. Published' = Published
    BY DEF Published
  <1>2. CASE UNCHANGED <<fetch, jwks>>
    BY <1>1, <1>2 DEF Stale
  <1>3. ASSUME NEW f \in Fetcher, NEW x \in {Asking, {}, Published},
               fetch' = [fetch EXCEPT ![f] = x], jwks' = jwks
        PROVE  Stale' \subseteq Stale
    BY <1>1, <1>3 DEF Stale, TypeOK
  <1>4. CASE WakeUp
    BY <1>3, <1>4 DEF WakeUp, Fetcher
  <1>5. CASE Refreshed
    BY <1>5, WriteStale DEF Refreshed, Fetcher
  <1>6. ASSUME NEW f \in Fetcher, AnswerFetch(f) \/ FailFetch(f)
        PROVE  Stale' \subseteq Stale /\ jwks' = jwks
    BY <1>3, <1>6 DEF AnswerFetch, FailFetch
  <1>7. ASSUME NEW r \in Request, CheckEmpty(r)
        PROVE  Stale' \subseteq Stale /\ jwks' = jwks
    BY <1>3, <1>7 DEF CheckEmpty, Fetcher
  <1>8. ASSUME NEW r \in Request, CheckFetched(r)
        PROVE  /\ Stale' \subseteq Stale
               /\ jwks' \notin {jwks, Published} =>
                     \E f \in Stale : jwks' = fetch[f] /\ f \notin Stale'
    BY <1>8, WriteStale DEF CheckFetched, Fetcher
  <1>9. CASE \/ Rotate
             \/ \E u \in User : Issue(u) \/ \E e \in Email : ChangeEmail(u, e)
             \/ \E r \in Request :
                   \/ \E u \in User : Receive(r, u)
                   \/ Check(r) \/ EnsureUser(r) \/ Answer(r)
    BY <1>2, <1>9 DEF Rotate, Issue, ChangeEmail, Receive, Check, EnsureUser,
                      Answer
  <1>10. QED BY <1>4, <1>5, <1>6, <1>7, <1>8, <1>9 DEF Next

(* A slow fetch that brings older keys over newer ones does so once: after   *)
(* the last of the fetches that were under way when the issuer took a new    *)
(* key, nothing sets the cache back, for any number of requests that fetch.  *)
THEOREM SlowFetchesSetBackOnce == Spec => SetBackOnce
  <1> DEFINE Once ==
        newest' = newest =>
          /\ Stale' \subseteq Stale
          /\ jwks' \notin {jwks, Published} =>
                \E f \in Stale : jwks' = fetch[f] /\ f \notin Stale'
  <1>1. KeysInv /\ [Next]_vars => [Once]_vars
    BY StaleStep DEF KeysInv
  <1>2. QED BY <1>1, KeysStart, KeysStep, PTL DEF Spec, SetBackOnce
-----------------------------------------------------------------------------
(* Every token in use is signed with a key that is published: the issuer     *)
(* takes a new key only when no token needs the one before it.              *)
TokensFit ==
    /\ \A u \in User : token[u] # None => token[u].key \in Published
    /\ \A r \in Request :
          request[r] # None => request[r].token.key \in Published

(* What a request does leaves its token.                                     *)
LEMMA MovesFit ==
    ASSUME TypeOK, TokensFit, NEW r \in Request, request[r] # None, NEW at,
           Moves(r, at), UNCHANGED <<newest, token>>
    PROVE  /\ TokensFit'
           /\ \A s \in Request : Refused(s)' /\ ~Refused(s) =>
                 s = r /\ at = "401"
  <1>1. request[r] \in [token : Token,
                        at : {"check", "fetch", "ensure", "200", "422", "401",
                              "503"}]
    BY DEF TypeOK
  <1>2. /\ request'[r].token = request[r].token /\ request'[r].at = at
        /\ \A s \in Request \ {r} : request'[s] = request[s]
    BY <1>1 DEF Moves, TypeOK
  <1>3. Published' = Published
    BY DEF Published
  <1>4. QED BY <1>2, <1>3 DEF TokensFit, Refused

LEMMA FitStep ==
    ASSUME TypeOK, TokensFit, [Next]_vars
    PROVE  /\ TokensFit'
           /\ \A r \in Request : Refused(r)' /\ ~Refused(r) =>
                 jwks # Published
  <1>0. ASSUME newest' = newest PROVE Published' = Published
    BY <1>0 DEF Published
  <1>1. CASE UNCHANGED <<newest, token, request>>
    BY <1>0, <1>1 DEF TokensFit, Refused
  <1>2. CASE Rotate
    <2>1. newest \in Key /\ newest' = newest + 1
      BY <1>2 DEF Rotate, TypeOK
    <2>2. newest \in Published'
      BY <2>1 DEF Published, Key
    <2>3. QED BY <1>2, <2>2 DEF Rotate, TokensFit, Refused
  <1>3. ASSUME NEW u \in User, Issue(u)
        PROVE  TokensFit' /\ request' = request
    <2>1. newest \in Published
      BY DEF TypeOK, Published, Key
    <2>2. Published' = Published /\ request' = request
      BY <1>0, <1>3 DEF Issue
    <2>3. /\ token'[u].key = newest
          /\ \A v \in User \ {u} : token'[v] = token[v]
      BY <1>3 DEF Issue, TypeOK
    <2>4. QED BY <2>1, <2>2, <2>3 DEF TokensFit
  <1>4. ASSUME NEW r \in Request, NEW u \in User, Receive(r, u)
        PROVE  /\ TokensFit'
               /\ \A s \in Request : Refused(s)' => Refused(s)
    <2>1. /\ token[u] # None /\ UNCHANGED <<newest, token>>
          /\ request'[r] = [token |-> token[u], at |-> "check"]
          /\ \A s \in Request \ {r} : request'[s] = request[s]
      BY <1>4 DEF Receive, issuer, TypeOK
    <2>2. /\ request'[r].token = token[u] /\ request'[r].at = "check"
      BY <2>1
    <2>3. Published' = Published
      BY <1>0, <2>1
    <2>4. QED BY <2>1, <2>2, <2>3 DEF TokensFit, Refused
  <1>5. ASSUME NEW r \in Request, Check(r)
        PROVE  /\ TokensFit'
               /\ \A s \in Request : Refused(s)' /\ ~Refused(s) =>
                     jwks # Published
    <2>1. request[r].token.key \in Published
      BY <1>5 DEF Check, TokensFit
    <2>2. jwks = Published => Moves(r, "ensure")
      BY <1>5, <2>1 DEF Check
    <2>3. request[r] # None /\ UNCHANGED <<newest, token>>
      BY <1>5 DEF Check, issuer
    <2>4. Moves(r, "ensure") \/ Moves(r, "401")
      BY <1>5 DEF Check
    <2>5. QED BY <2>2, <2>3, <2>4, MovesFit
  <1>6. ASSUME NEW r \in Request,
               CheckEmpty(r) \/ CheckFetched(r) \/ EnsureUser(r)
        PROVE  /\ TokensFit'
               /\ \A s \in Request : Refused(s)' => Refused(s)
    <2>1. request[r] # None /\ UNCHANGED <<newest, token>>
      BY <1>6 DEF CheckEmpty, CheckFetched, EnsureUser, issuer
    <2>2. \E x \in {"fetch", "check", "200", "422", "503"} : Moves(r, x)
      BY <1>6 DEF CheckEmpty, CheckFetched, EnsureUser, Unavailable
    <2>3. QED BY <2>1, <2>2, MovesFit
  <1>7. ASSUME NEW r \in Request, Answer(r)
        PROVE  /\ TokensFit'
               /\ \A s \in Request : Refused(s)' => Refused(s)
    BY <1>0, <1>7 DEF Answer, issuer, TypeOK, TokensFit, Refused
  <1>8. CASE \/ WakeUp \/ Refreshed \/ UNCHANGED vars
             \/ \E f \in Fetcher : AnswerFetch(f) \/ FailFetch(f)
             \/ \E u \in User, e \in Email : ChangeEmail(u, e)
    BY <1>1, <1>8 DEF WakeUp, Refreshed, AnswerFetch, FailFetch, ChangeEmail,
                      issuer, vars
  <1>9. QED
    BY <1>2, <1>3, <1>4, <1>5, <1>6, <1>7, <1>8 DEF Next, Refused

(* Only a cache that is behind the issuer costs a user the session: with the *)
(* keys that are published in it, no token in use is found invalid, for any  *)
(* number of requests, users and keys, and any order of fetches.            *)
THEOREM FreshKeysFitTokens == Spec => FreshKeysFit
  <1> DEFINE Fits ==
        \A r \in Request : Refused(r)' /\ ~Refused(r) => jwks # Published
  <1>1. Init => TokensFit
    BY DEF Init, TokensFit
  <1>2. KeysInv /\ TokensFit /\ [Next]_vars => TokensFit' /\ [Fits]_vars
    BY FitStep DEF KeysInv
  <1>3. QED BY <1>1, <1>2, KeysStart, KeysStep, PTL DEF Spec, FreshKeysFit
=============================================================================
