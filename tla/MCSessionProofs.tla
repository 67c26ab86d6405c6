--------------------------- MODULE MCSessionProofs ---------------------------
(***************************************************************************)
(* TimesFit, in the two sizes that have the times of the code: what         *)
(* SessionProofs proves of any times, used at those of MCSession.  And what *)
(* KeysProofs proves of Keys, of the behaviours that MCSession is checked   *)
(* over.                                                                   *)
(***************************************************************************)
EXTENDS MCSession, TLAPS

(* The proofs at the sizes of Prompt and of Alone.                           *)
PromptP == INSTANCE SessionProofs WITH
    Life <- 5, Buffer <- 1, Leeway <- 1, Poll <- 2, Delay <- 0, MaxTime <- 7

AloneP == INSTANCE SessionProofs WITH
    Looked <- Tab,
    Life <- 10, Buffer <- 2, Leeway <- 2, Poll <- 4, Delay <- 0, MaxTime <- 13

-----------------------------------------------------------------------------
(* They speak of the behaviours of Prompt ...                                *)
LEMMA SameAsPrompt ==
    /\ Init => PromptP!Init
    /\ Prompt!Next => PromptP!Next
    /\ PromptP!vars = vars
    /\ PromptP!CallsAccepted => Prompt!CallsAccepted
  <1> USE DEF Prompt!Slot, PromptP!Slot, Prompt!NoCall, PromptP!NoCall,
              Prompt!Idle, PromptP!Idle, Prompt!Asked, PromptP!Asked,
              Prompt!Ask, PromptP!Ask, Prompt!Sent, PromptP!Sent,
              Prompt!history, PromptP!history
  <1>1. Init => PromptP!Init
    BY DEF Init, PromptP!Init, Slot, NoCall, Idle
  <1>2. Prompt!SignIn \/ Prompt!Refusing \/ Prompt!Tick
          => PromptP!SignIn \/ PromptP!Refusing \/ PromptP!Tick
    BY DEF Prompt!SignIn, PromptP!SignIn, Prompt!Refusing, PromptP!Refusing,
           Prompt!Tick, PromptP!Tick
  <1>3. ASSUME NEW t \in Tab
        PROVE  Prompt!Open(t) \/ Prompt!TimerFires(t) \/ Prompt!Focus(t)
                 => PromptP!Open(t) \/ PromptP!TimerFires(t) \/ PromptP!Focus(t)
    BY DEF Prompt!Open, PromptP!Open, Prompt!TimerFires, PromptP!TimerFires,
           Prompt!Focus, PromptP!Focus
  <1>4. ASSUME NEW t \in Tab, NEW k \in Slot
        PROVE  Prompt!Serve(t, k) \/ Prompt!CallFails(t, k)
                 => PromptP!Serve(t, k) \/ PromptP!CallFails(t, k)
    BY DEF Prompt!Serve, PromptP!Serve, Prompt!Reply, PromptP!Reply,
           Prompt!Served, PromptP!Served, Prompt!IsExpired, PromptP!IsExpired,
           Prompt!CallFails, PromptP!CallFails
  <1>5. ASSUME NEW t \in Tab, NEW k \in Slot
        PROVE  Prompt!Arrive(t, k) => PromptP!Arrive(t, k)
    BY DEF Prompt!Arrive, PromptP!Arrive, Prompt!SetCookie, PromptP!SetCookie
  <1>6. ASSUME NEW t \in Tab
        PROVE  Prompt!Send(t) \/ Prompt!Answer(t) \/ Prompt!Unauthorized(t)
                 => \/ PromptP!Send(t) \/ PromptP!Answer(t)
                    \/ PromptP!Unauthorized(t)
    BY DEF Prompt!Send, PromptP!Send, Prompt!Answer, PromptP!Answer,
           Prompt!Unauthorized, PromptP!Unauthorized, Prompt!ShouldReload,
           PromptP!ShouldReload, Prompt!Accepted, PromptP!Accepted,
           Prompt!Reloading, PromptP!Reloading
  <1>7. ASSUME NEW t \in Tab
        PROVE  Prompt!Reloaded(t) => PromptP!Reloaded(t)
    BY DEF Prompt!Reloaded, PromptP!Reloaded, Prompt!SetCookie,
           PromptP!SetCookie
  <1>8. ASSUME NEW t \in Tab
        PROVE  Prompt!SignOut(t) \/ Prompt!Leave(t)
                 => PromptP!SignOut(t) \/ PromptP!Leave(t)
    BY DEF Prompt!SignOut, PromptP!SignOut, Prompt!Leave, PromptP!Leave
  <1>9. ASSUME NEW t \in Tab, Prompt!TabNext(t)
        PROVE  PromptP!TabNext(t)
    BY <1>3, <1>4, <1>5, <1>6, <1>7, <1>8, <1>9
    DEF Prompt!TabNext, PromptP!TabNext, Slot
  <1>10. Prompt!Next => PromptP!Next
    BY <1>2, <1>9 DEF Prompt!Next, PromptP!Next
  <1>11. PromptP!vars = vars
    BY DEF PromptP!vars, vars, history
  <1>12. PromptP!CallsAccepted => Prompt!CallsAccepted
    BY DEF Prompt!CallsAccepted, PromptP!CallsAccepted, Prompt!Accepted,
           PromptP!Accepted
  <1>13. QED BY <1>1, <1>10, <1>11, <1>12

(* ... and of Alone.                                                         *)
LEMMA SameAsAlone ==
    /\ Init => AloneP!Init
    /\ Alone!Next => AloneP!Next
    /\ AloneP!vars = vars
    /\ AloneP!CallsAccepted => Alone!CallsAccepted
  <1> USE DEF Alone!Slot, AloneP!Slot, Alone!NoCall, AloneP!NoCall,
              Alone!Idle, AloneP!Idle, Alone!Asked, AloneP!Asked,
              Alone!Ask, AloneP!Ask, Alone!Sent, AloneP!Sent,
              Alone!history, AloneP!history
  <1>1. Init => AloneP!Init
    BY DEF Init, AloneP!Init, Slot, NoCall, Idle
  <1>2. Alone!SignIn \/ Alone!Refusing \/ Alone!Tick
          => AloneP!SignIn \/ AloneP!Refusing \/ AloneP!Tick
    BY DEF Alone!SignIn, AloneP!SignIn, Alone!Refusing, AloneP!Refusing,
           Alone!Tick, AloneP!Tick
  <1>3. ASSUME NEW t \in Tab
        PROVE  Alone!Open(t) \/ Alone!TimerFires(t) \/ Alone!Focus(t)
                 => AloneP!Open(t) \/ AloneP!TimerFires(t) \/ AloneP!Focus(t)
    BY DEF Alone!Open, AloneP!Open, Alone!TimerFires, AloneP!TimerFires,
           Alone!Focus, AloneP!Focus
  <1>4. ASSUME NEW t \in Tab, NEW k \in Slot
        PROVE  Alone!Serve(t, k) \/ Alone!CallFails(t, k)
                 => AloneP!Serve(t, k) \/ AloneP!CallFails(t, k)
    BY DEF Alone!Serve, AloneP!Serve, Alone!Reply, AloneP!Reply,
           Alone!Served, AloneP!Served, Alone!IsExpired, AloneP!IsExpired,
           Alone!CallFails, AloneP!CallFails
  <1>5. ASSUME NEW t \in Tab, NEW k \in Slot
        PROVE  Alone!Arrive(t, k) => AloneP!Arrive(t, k)
    BY DEF Alone!Arrive, AloneP!Arrive, Alone!SetCookie, AloneP!SetCookie
  <1>6. ASSUME NEW t \in Tab
        PROVE  Alone!Send(t) \/ Alone!Answer(t) \/ Alone!Unauthorized(t)
                 => \/ AloneP!Send(t) \/ AloneP!Answer(t)
                    \/ AloneP!Unauthorized(t)
    BY DEF Alone!Send, AloneP!Send, Alone!Answer, AloneP!Answer,
           Alone!Unauthorized, AloneP!Unauthorized, Alone!ShouldReload,
           AloneP!ShouldReload, Alone!Accepted, AloneP!Accepted,
           Alone!Reloading, AloneP!Reloading
  <1>7. ASSUME NEW t \in Tab
        PROVE  Alone!Reloaded(t) => AloneP!Reloaded(t)
    BY DEF Alone!Reloaded, AloneP!Reloaded, Alone!SetCookie, AloneP!SetCookie
  <1>8. ASSUME NEW t \in Tab
        PROVE  Alone!SignOut(t) \/ Alone!Leave(t)
                 => AloneP!SignOut(t) \/ AloneP!Leave(t)
    BY DEF Alone!SignOut, AloneP!SignOut, Alone!Leave, AloneP!Leave
  <1>9. ASSUME NEW t \in Tab, Alone!TabNext(t)
        PROVE  AloneP!TabNext(t)
    BY <1>3, <1>4, <1>5, <1>6, <1>7, <1>8, <1>9
    DEF Alone!TabNext, AloneP!TabNext, Slot
  <1>10. Alone!Next => AloneP!Next
    BY <1>2, <1>9 DEF Alone!Next, AloneP!Next
  <1>11. AloneP!vars = vars
    BY DEF AloneP!vars, vars, history
  <1>12. AloneP!CallsAccepted => Alone!CallsAccepted
    BY DEF Alone!CallsAccepted, AloneP!CallsAccepted, Alone!Accepted,
           AloneP!Accepted
  <1>13. QED BY <1>1, <1>10, <1>11, <1>12

(* The times of each size are times, and calls fit in them.                  *)
LEMMA TimesOK ==
    /\ PromptP!TimesAssumption /\ PromptP!PollFits
    /\ AloneP!TimesAssumption /\ AloneP!PollFits
  BY TimesAssumption
  DEF TimesAssumption, PromptP!TimesAssumption, PromptP!PollFits,
      AloneP!TimesAssumption, AloneP!PollFits

(* The tabs, in the size that the behaviour is of.                           *)
SizesInv ==
    /\ at = "prompt" => PromptP!PollInv
    /\ at = "alone" => AloneP!PollInv

LEMMA SizesInit == MCInit => SizesInv
  <1>1. Init => PromptP!PollInv
    BY TimesOK, SameAsPrompt, PromptP!InitPoll
  <1>2. Init => AloneP!PollInv
    BY TimesOK, SameAsAlone, AloneP!InitPoll
  <1>3. QED BY <1>1, <1>2 DEF MCInit, SizesInv

LEMMA SizesStep == SizesInv /\ [MCNext]_<<at, vars, inKeys>> => SizesInv'
  <1> SUFFICES ASSUME SizesInv, [MCNext]_<<at, vars, inKeys>> PROVE SizesInv'
    OBVIOUS
  <1>1. at' = at
    BY DEF MCNext
  <1>2. ASSUME at = "prompt" PROVE PromptP!PollInv'
    <2>1. Prompt!Next \/ UNCHANGED vars
      BY <1>2 DEF MCNext
    <2>2. [PromptP!Next]_(PromptP!vars)
      BY <2>1, SameAsPrompt DEF PromptP!vars, vars, PromptP!history, history
    <2>3. QED BY <1>2, <2>2, TimesOK, PromptP!PollStep DEF SizesInv
  <1>3. ASSUME at = "alone" PROVE AloneP!PollInv'
    <2>1. Alone!Next \/ UNCHANGED vars
      BY <1>3 DEF MCNext
    <2>2. [AloneP!Next]_(AloneP!vars)
      BY <2>1, SameAsAlone DEF AloneP!vars, vars, AloneP!history, history
    <2>3. QED BY <1>3, <2>2, TimesOK, AloneP!PollStep DEF SizesInv
  <1>4. QED BY <1>1, <1>2, <1>3 DEF SizesInv

(* TimesFit is an invariant: with the times of the code, and calls that take *)
(* none, no call of any number of tabs is rejected for its age: the timer,   *)
(* the buffer of the jwt callback and the leeway of the server leave no gap. *)
THEOREM TheTimesFit == MCSpec => []TimesFit
  <1>1. SizesInv => TimesFit
    <2>1. PromptP!PollInv => PromptP!CallsAccepted
      BY TimesOK, PromptP!BearersAccepted DEF PromptP!CallsAccepted
    <2>2. AloneP!PollInv => AloneP!CallsAccepted
      BY TimesOK, AloneP!BearersAccepted DEF AloneP!CallsAccepted
    <2>3. QED BY <2>1, <2>2, SameAsPrompt, SameAsAlone DEF SizesInv, TimesFit
  <1>2. QED BY SizesInit, SizesStep, <1>1, PTL DEF MCSpec

-----------------------------------------------------------------------------
(* The proofs about Keys.                                                   *)
ServerP == INSTANCE KeysProofs

(* They speak of the behaviours of Server.                                  *)
LEMMA SameAsServer ==
    /\ Server!Init => ServerP!Init
    /\ Server!Next => ServerP!Next
    /\ UNCHANGED inKeys <=> UNCHANGED ServerP!vars
    /\ UNCHANGED inKeys <=> UNCHANGED Server!vars
  <1> USE DEF Server!Key, ServerP!Key, Server!Task, ServerP!Task,
              Server!Fetcher, ServerP!Fetcher, Server!Asking, ServerP!Asking,
              Server!Published, ServerP!Published, Server!issuer,
              ServerP!issuer, Server!NextKeys, ServerP!NextKeys, Server!Write,
              ServerP!Write, Server!Moves, ServerP!Moves, Server!Unavailable,
              ServerP!Unavailable
  <1>1. Server!Init => ServerP!Init
    BY DEF Server!Init, ServerP!Init
  <1>2. Server!Rotate \/ Server!WakeUp \/ Server!Refreshed
          => ServerP!Rotate \/ ServerP!WakeUp \/ ServerP!Refreshed
    BY DEF Server!Rotate, ServerP!Rotate, Server!WakeUp, ServerP!WakeUp,
           Server!Refreshed, ServerP!Refreshed
  <1>3. ASSUME NEW u \in User
        PROVE  /\ Server!Issue(u) => ServerP!Issue(u)
               /\ \A e \in Email :
                     Server!ChangeEmail(u, e) => ServerP!ChangeEmail(u, e)
    BY DEF Server!Issue, ServerP!Issue, Server!ChangeEmail,
           ServerP!ChangeEmail
  <1>4. ASSUME NEW f \in Server!Fetcher
        PROVE  Server!AnswerFetch(f) \/ Server!FailFetch(f)
                 => ServerP!AnswerFetch(f) \/ ServerP!FailFetch(f)
    BY DEF Server!AnswerFetch, ServerP!AnswerFetch, Server!FailFetch,
           ServerP!FailFetch
  <1>5. ASSUME NEW r \in Request, NEW u \in User
        PROVE  Server!Receive(r, u) => ServerP!Receive(r, u)
    BY DEF Server!Receive, ServerP!Receive
  <1>6. ASSUME NEW r \in Request
        PROVE  Server!Check(r) \/ Server!CheckEmpty(r) \/ Server!CheckFetched(r)
                 => \/ ServerP!Check(r) \/ ServerP!CheckEmpty(r)
                    \/ ServerP!CheckFetched(r)
    BY DEF Server!Check, ServerP!Check, Server!CheckEmpty,
           ServerP!CheckEmpty, Server!CheckFetched, ServerP!CheckFetched
  <1>7. ASSUME NEW r \in Request
        PROVE  Server!EnsureUser(r) \/ Server!Answer(r)
                 => ServerP!EnsureUser(r) \/ ServerP!Answer(r)
    BY DEF Server!EnsureUser, ServerP!EnsureUser, Server!Answer,
           ServerP!Answer
  <1>8. Server!Next => ServerP!Next
    BY <1>2, <1>3, <1>4, <1>5, <1>6, <1>7 DEF Server!Next, ServerP!Next
  <1>9. /\ UNCHANGED inKeys <=> UNCHANGED ServerP!vars
        /\ UNCHANGED inKeys <=> UNCHANGED Server!vars
    BY DEF ServerP!vars, Server!vars, inKeys
  <1>10. QED BY <1>1, <1>8, <1>9

(* In each size of Session nothing happens to the keys.                     *)
LEMMA KeysBehave == MCSpec => ServerP!Spec
  <1>1. MCInit => ServerP!Init
    BY SameAsServer DEF MCInit
  <1>2. [MCNext]_<<at, vars, inKeys>> => [ServerP!Next]_(ServerP!vars)
    BY SameAsServer DEF MCNext
  <1>3. QED BY <1>1, <1>2, PTL DEF MCSpec, ServerP!Spec

(* No token is found invalid before the issuer has been heard, in the run    *)
(* that checks it: an outage of the issuer is answered 503, which ends no    *)
(* session, for any number of requests, users and keys.                     *)
THEOREM OutagesEndNoSession == MCSpec => []OutageKeepsSessions
  <1>1. ServerP!OutageKeepsSessions => OutageKeepsSessions
    BY DEF ServerP!OutageKeepsSessions, OutageKeepsSessions,
           Server!OutageKeepsSessions
  <1>2. QED BY <1>1, KeysBehave, ServerP!OutagesKeepSessions, PTL

(* A slow fetch that brings older keys over newer ones does so once.         *)
THEOREM KeysAreSetBackOnce == MCSpec => SetBackOnce
  <1> DEFINE OnceP ==
        newest' = newest =>
          /\ ServerP!Stale' \subseteq ServerP!Stale
          /\ jwks' \notin {jwks, ServerP!Published} =>
                \E f \in ServerP!Stale :
                   jwks' = fetch[f] /\ f \notin ServerP!Stale'
  <1> DEFINE Once ==
        newest' = newest =>
          /\ Server!Stale' \subseteq Server!Stale
          /\ jwks' \notin {jwks, Server!Published} =>
                \E f \in Server!Stale :
                   jwks' = fetch[f] /\ f \notin Server!Stale'
  <1>1. [OnceP]_(ServerP!vars) => [Once]_(Server!vars)
    BY SameAsServer
    DEF ServerP!Stale, Server!Stale, ServerP!Published, Server!Published,
        ServerP!Fetcher, Server!Fetcher, ServerP!Asking, Server!Asking,
        ServerP!Task, Server!Task
  <1>2. QED
    BY <1>1, KeysBehave, ServerP!SlowFetchesSetBackOnce, PTL
    DEF ServerP!SetBackOnce, SetBackOnce, Server!SetBackOnce

(* With the published keys in the cache, no token in use is found invalid.   *)
THEOREM FreshKeysAreEnough == MCSpec => FreshKeysFit
  <1> DEFINE FitsP == \A r \in Request :
          ServerP!Refused(r)' /\ ~ServerP!Refused(r) => jwks # ServerP!Published
  <1> DEFINE Fits == \A r \in Request :
          Server!Refused(r)' /\ ~Server!Refused(r) => jwks # Server!Published
  <1>1. [FitsP]_(ServerP!vars) => [Fits]_(Server!vars)
    BY SameAsServer
    DEF ServerP!Refused, Server!Refused, ServerP!Published, Server!Published
  <1>2. QED
    BY <1>1, KeysBehave, ServerP!FreshKeysFitTokens, PTL
    DEF ServerP!FreshKeysFit, FreshKeysFit, Server!FreshKeysFit
=============================================================================
