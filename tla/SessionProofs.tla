---------------------------- MODULE SessionProofs ----------------------------
(***************************************************************************)
(* Theorems about Session, for any number of tabs and any durations.        *)
(***************************************************************************)
EXTENDS Session, TLAPS

(* The buffer and the leeway cover a session call and the request after it.  *)
RetryFits == 2 * Delay <= Buffer + Leeway + 1

(* Nothing is under way for longer than Delay.                               *)
CallTimes ==
    \A t \in Tab, k \in Slot :
        call[<<t, k>>].st # "none"
            => /\ call[<<t, k>>].since <= now
               /\ now <= call[<<t, k>>].since + Delay
ReqTimes ==
    \A t \in Tab :
        req[t].st = "sent" => req[t].at <= now /\ now <= req[t].at + Delay

(* A renewed or kept token had more than Buffer to go when it was asked for. *)
RepliesFresh ==
    \A t \in Tab, k \in Slot :
        call[<<t, k>>].st = "served" =>
            call[<<t, k>>].err \/ call[<<t, k>>].got = 0
            \/ call[<<t, k>>].got > call[<<t, k>>].since + Buffer
RetriesFresh ==
    \A t \in Tab :
        req[t].st = "sent" /\ req[t].again
            => /\ req[t].bearer # 0
               /\ req[t].bearer + Delay > req[t].at + Buffer

TimeInv == TypeOK /\ CallTimes /\ ReqTimes /\ RepliesFresh /\ RetriesFresh

LEMMA InitType == Init => TypeOK
  <1>1. NoCall \in Calls /\ Idle \in Requests
    BY DEF NoCall, Calls, Idle, Requests, Token
  <1>2. SUFFICES ASSUME Init PROVE TypeOK
    OBVIOUS
  <1>3. call \in [Tab \X Slot -> Calls] /\ req \in [Tab -> Requests]
    BY <1>1, <1>2 DEF Init
  <1>4. QED BY <1>2, <1>3 DEF Init, TypeOK, Token

LEMMA AskType ==
    ASSUME TypeOK, NEW t \in Tab, NEW k \in Slot, Ask(t, k)
    PROVE  call' \in [Tab \X Slot -> Calls]
  BY DEF TypeOK, Ask, Asked, Calls, Token

LEMMA ReplyType ==
    ASSUME TypeOK, NEW t \in Tab, NEW k \in Slot, NEW tok \in Token,
           NEW err \in BOOLEAN, Reply(t, k, tok, err)
    PROVE  call' \in [Tab \X Slot -> Calls]
  <1>1. call[<<t, k>>] \in Calls
    BY DEF TypeOK
  <1>2. Served(call[<<t, k>>], tok, err) \in Calls
    BY <1>1 DEF Served, Calls, Token
  <1>3. QED BY <1>2 DEF TypeOK, Reply

(* Every step keeps the types.                                               *)
LEMMA TypeStep == TypeOK /\ [Next]_vars => TypeOK'
  <1> SUFFICES ASSUME TypeOK, [Next]_vars PROVE TypeOK'
    OBVIOUS
  <1> USE DEF TypeOK, history
  <1>0. Poll \in Nat /\ Life \in Nat
    BY TimesAssumption
  <1>a. NoCall \in Calls /\ Idle \in Requests
    BY DEF NoCall, Calls, Idle, Requests, Token
  <1>b. "poll" \in Slot /\ "focus" \in Slot /\ "reload" \in Slot
    BY DEF Slot
  <1>1. CASE SignIn
    BY <1>1, <1>0 DEF SignIn, Token
  <1>2. CASE Refusing
    BY <1>2 DEF Refusing
  <1>3. CASE Tick
    BY <1>3 DEF Tick
  <1>4. ASSUME NEW t \in Tab, Open(t) PROVE TypeOK'
    <2>1. call' \in [Tab \X Slot -> Calls]
      BY <1>4, <1>b, AskType DEF Open
    <2>2. due' \in [Tab -> Nat]
      BY <1>4, <1>0 DEF Open
    <2>3. mode' \in [Tab -> {"closed", "open", "leaving"}]
      BY <1>4 DEF Open
    <2>4. QED BY <1>4, <2>1, <2>2, <2>3 DEF Open
  <1>5. ASSUME NEW t \in Tab, TimerFires(t) PROVE TypeOK'
    <2>1. call' \in [Tab \X Slot -> Calls]
      BY <1>5, <1>b, AskType DEF TimerFires
    <2>2. due' \in [Tab -> Nat]
      BY <1>5, <1>0 DEF TimerFires
    <2>3. QED BY <1>5, <2>1, <2>2 DEF TimerFires
  <1>6. ASSUME NEW t \in Tab, Focus(t) PROVE TypeOK'
    <2>1. call' \in [Tab \X Slot -> Calls]
      BY <1>6, <1>b, AskType DEF Focus
    <2>2. QED BY <1>6, <2>1 DEF Focus
  <1>7. ASSUME NEW t \in Tab, NEW k \in Slot, Serve(t, k) PROVE TypeOK'
    <2>1. call[<<t, k>>].had \in Token /\ now + Life \in Token
      BY <1>0 DEF Calls, Token
    <2>2. call' \in [Tab \X Slot -> Calls]
      BY <1>7, <2>1, ReplyType DEF Serve
    <2>3. QED BY <1>7, <2>2 DEF Serve
  <1>7a. ASSUME NEW t \in Tab, NEW k \in Slot, CallFails(t, k) PROVE TypeOK'
    <2>1. call' \in [Tab \X Slot -> Calls]
      BY <1>7a, ReplyType DEF CallFails, Token
    <2>2. QED BY <1>7a, <2>1 DEF CallFails
  <1>8. ASSUME NEW t \in Tab, NEW k \in Slot, Arrive(t, k) PROVE TypeOK'
    <2>1. call[<<t, k>>].got \in Token
      BY DEF Calls
    <2>2. QED BY <1>8, <1>a, <2>1 DEF Arrive, SetCookie
  <1>9. ASSUME NEW t \in Tab, Send(t) PROVE TypeOK'
    <2>1. Sent(currentToken[t], FALSE) \in Requests
      BY DEF Sent, Requests
    <2>2. QED BY <1>9, <2>1 DEF Send
  <1>10. ASSUME NEW t \in Tab, Answer(t) PROVE TypeOK'
    BY <1>10, <1>a DEF Answer
  <1>11. ASSUME NEW t \in Tab, Unauthorized(t) PROVE TypeOK'
    <2>1. call' \in [Tab \X Slot -> Calls]
      BY <1>11, <1>b, AskType DEF Unauthorized
    <2>2. Reloading(req[t]) \in Requests
      BY DEF Reloading, Requests
    <2>3. QED BY <1>11, <2>1, <2>2 DEF Unauthorized
  <1>12. ASSUME NEW t \in Tab, Reloaded(t) PROVE TypeOK'
    <2>1. /\ call[<<t, "reload">>] \in Calls
          /\ call[<<t, "reload">>].got \in Token
      BY <1>b DEF Calls
    <2>2. Sent(call[<<t, "reload">>].got, TRUE) \in Requests
      BY <2>1 DEF Sent, Requests
    <2>3. /\ req' \in [Tab -> Requests]
          /\ mode' \in [Tab -> {"closed", "open", "leaving"}]
      BY <1>12, <1>a, <2>2 DEF Reloaded
    <2>4. QED BY <1>12, <1>a, <1>b, <2>1, <2>3 DEF Reloaded, SetCookie
  <1>13. ASSUME NEW t \in Tab, SignOut(t) PROVE TypeOK'
    BY <1>13 DEF SignOut
  <1>14. ASSUME NEW t \in Tab, Leave(t) PROVE TypeOK'
    BY <1>14, <1>a DEF Leave, Token
  <1>15. CASE UNCHANGED vars
    BY <1>15 DEF vars
  <1>16. QED
    BY <1>1, <1>2, <1>3, <1>4, <1>5, <1>6, <1>7, <1>7a, <1>8, <1>9, <1>10,
       <1>11, <1>12, <1>13, <1>14, <1>15 DEF Next, TabNext

(* TypeOK is an invariant: tokens and times stay numbers, whatever the order *)
(* in which session calls and requests end.                                  *)
THEOREM SessionTypeCorrect == Spec => []TypeOK
  <1>1. QED BY InitType, TypeStep, PTL DEF Spec

LEMMA InitTimes == Init => TimeInv
  BY InitType DEF Init, TimeInv, CallTimes, ReqTimes, RepliesFresh,
     RetriesFresh, NoCall, Idle

(* A session call that is asked keeps the times of calls in order.           *)
LEMMA AskTimes ==
    ASSUME TimeInv, NEW t \in Tab, NEW k \in Slot, Ask(t, k), now' = now
    PROVE  CallTimes' /\ RepliesFresh'
  <1> SUFFICES ASSUME NEW u \in Tab, NEW j \in Slot
               PROVE  /\ call'[<<u, j>>].st # "none"
                           => /\ call'[<<u, j>>].since <= now
                              /\ now <= call'[<<u, j>>].since + Delay
                      /\ call'[<<u, j>>].st = "served" /\ ~call'[<<u, j>>].err
                         /\ call'[<<u, j>>].got # 0
                           => call'[<<u, j>>].got
                                > call'[<<u, j>>].since + Buffer
    BY DEF CallTimes, RepliesFresh
  <1> USE DEF TimeInv
  <1>1. now \in Nat /\ Delay \in Nat
    BY TimesAssumption DEF TypeOK
  <1>2. CASE <<u, j>> = <<t, k>>
    <2>1. call'[<<u, j>>] = Asked(cookie)
      BY <1>2 DEF Ask, TypeOK
    <2>2. QED BY <2>1, <1>1 DEF Asked
  <1>3. CASE <<u, j>> # <<t, k>>
    <2>1. call'[<<u, j>>] = call[<<u, j>>]
      BY <1>3 DEF Ask, TypeOK
    <2>2. QED BY <2>1 DEF CallTimes, RepliesFresh
  <1>4. QED BY <1>2, <1>3

(* What the jwt callback keeps or makes has more than Buffer to go.          *)
LEMMA ServeTimes ==
    ASSUME TimeInv, NEW t \in Tab, NEW k \in Slot,
           Serve(t, k) \/ CallFails(t, k)
    PROVE  CallTimes' /\ RepliesFresh'
  <1> SUFFICES ASSUME NEW u \in Tab, NEW j \in Slot
               PROVE  /\ call'[<<u, j>>].st # "none"
                           => /\ call'[<<u, j>>].since <= now
                              /\ now <= call'[<<u, j>>].since + Delay
                      /\ call'[<<u, j>>].st = "served" /\ ~call'[<<u, j>>].err
                         /\ call'[<<u, j>>].got # 0
                           => call'[<<u, j>>].got
                                > call'[<<u, j>>].since + Buffer
    BY DEF CallTimes, RepliesFresh, Serve, CallFails
  <1> USE DEF TimeInv
  <1> DEFINE c == call[<<t, k>>]
  <1>1. /\ now \in Nat /\ Delay \in Nat /\ Buffer \in Nat /\ Life \in Nat
        /\ Buffer < Life
    BY TimesAssumption DEF TypeOK
  <1>2. c \in Calls
    BY DEF TypeOK
  <1>3. PICK tok \in Token, err \in BOOLEAN :
            /\ Reply(t, k, tok, err)
            /\ ~err /\ tok # 0 => tok > now + Buffer
    <2>1. c.had \in Nat
      BY <1>2 DEF Calls, Token
    <2>2. CASE c.had = 0 /\ Reply(t, k, c.had, FALSE)
      BY <2>1, <2>2 DEF Token
    <2>3. CASE ~IsExpired(c.had) /\ Reply(t, k, c.had, FALSE)
      <3>1. c.had > now + Buffer
        BY <1>1, <2>1, <2>3 DEF IsExpired
      <3>2. QED BY <2>1, <2>3, <3>1 DEF Token
    <2>4. CASE Reply(t, k, now + Life, FALSE)
      <3>1. now + Life \in Token /\ now + Life > now + Buffer
        BY <1>1 DEF Token
      <3>2. QED BY <2>4, <3>1
    <2>5. CASE Reply(t, k, c.had, TRUE)
      BY <2>1, <2>5 DEF Token
    <2>6. CASE Reply(t, k, 0, FALSE)
      BY <2>6 DEF Token
    <2>7. QED BY <2>2, <2>3, <2>4, <2>5, <2>6 DEF Serve, CallFails
  <1>4. c.since \in Nat /\ c.since <= now /\ now <= c.since + Delay
    BY <1>2 DEF Serve, CallFails, CallTimes, Calls
  <1>5. CASE <<u, j>> = <<t, k>>
    <2>1. call'[<<u, j>>] = Served(c, tok, err)
      BY <1>3, <1>5 DEF Reply, TypeOK
    <2>2. /\ call'[<<u, j>>].since = c.since
          /\ call'[<<u, j>>].got = tok
          /\ call'[<<u, j>>].err = err
      BY <2>1 DEF Served
    <2>3. ~err /\ tok # 0 => tok > c.since + Buffer
      BY <1>1, <1>3, <1>4 DEF Token
    <2>4. QED BY <1>4, <2>2, <2>3
  <1>6. CASE <<u, j>> # <<t, k>>
    <2>1. call'[<<u, j>>] = call[<<u, j>>]
      BY <1>3, <1>6 DEF Reply, TypeOK
    <2>2. QED BY <2>1 DEF CallTimes, RepliesFresh
  <1>7. QED BY <1>5, <1>6

(* Ending session calls disturbs no other.                                   *)
LEMMA EndTimes ==
    ASSUME TimeInv, now' = now,
           \A c \in Tab \X Slot : call'[c] = call[c] \/ call'[c] = NoCall
    PROVE  CallTimes' /\ RepliesFresh'
  BY DEF TimeInv, CallTimes, RepliesFresh, NoCall

(* A request that is made again carries what the reload brought.             *)
LEMMA ReloadedTimes ==
    ASSUME TimeInv, NEW t \in Tab, Reloaded(t)
    PROVE  ReqTimes' /\ RetriesFresh'
  <1> SUFFICES ASSUME NEW u \in Tab
               PROVE  /\ req'[u].st = "sent"
                           => req'[u].at <= now /\ now <= req'[u].at + Delay
                      /\ req'[u].st = "sent" /\ req'[u].again
                           => /\ req'[u].bearer # 0
                              /\ req'[u].bearer + Delay > req'[u].at + Buffer
    BY DEF ReqTimes, RetriesFresh, Reloaded
  <1> USE DEF TimeInv
  <1> DEFINE c == call[<<t, "reload">>]
  <1>1. now \in Nat /\ Delay \in Nat /\ Buffer \in Nat
    BY TimesAssumption DEF TypeOK
  <1>2. c \in Calls
    BY DEF TypeOK, Slot
  <1>3. c.since \in Nat /\ c.got \in Nat /\ now <= c.since + Delay
    BY <1>2 DEF Reloaded, CallTimes, Calls, Token, Slot
  <1>4. CASE u = t /\ (c.err \/ c.got = 0)
    <2>1. req'[u] = Idle
      BY <1>4 DEF Reloaded, TypeOK
    <2>2. QED BY <2>1 DEF Idle
  <1>5. CASE u = t /\ ~c.err /\ c.got # 0
    <2>1. req'[u] = Sent(c.got, TRUE)
      BY <1>5 DEF Reloaded, TypeOK
    <2>2. c.got > c.since + Buffer
      BY <1>5 DEF Reloaded, RepliesFresh, Slot
    <2>3. c.got + Delay > now + Buffer
      BY <1>1, <1>3, <2>2
    <2>4. QED BY <1>1, <1>5, <2>1, <2>3 DEF Sent
  <1>6. CASE u # t
    <2>1. req'[u] = req[u]
      BY <1>6 DEF Reloaded, TypeOK
    <2>2. QED BY <2>1 DEF ReqTimes, RetriesFresh
  <1>7. QED BY <1>2, <1>4, <1>5, <1>6 DEF Calls

LEMMA TimeStep == TimeInv /\ [Next]_vars => TimeInv'
  <1> SUFFICES ASSUME TimeInv, [Next]_vars PROVE TimeInv'
    OBVIOUS
  <1>0. TypeOK /\ TypeOK'
    BY TypeStep DEF TimeInv
  <1> DEFINE Calm == CallTimes' /\ RepliesFresh'
             Prompt == ReqTimes' /\ RetriesFresh'
  <1>b. "poll" \in Slot /\ "focus" \in Slot /\ "reload" \in Slot
    BY DEF Slot
  <1>c. ASSUME now' = now, call' = call PROVE Calm
    BY <1>c DEF TimeInv, CallTimes, RepliesFresh
  <1>d. ASSUME now' = now, req' = req PROVE Prompt
    BY <1>d DEF TimeInv, ReqTimes, RetriesFresh
  <1>1. CASE SignIn
    BY <1>0, <1>1, <1>c, <1>d DEF SignIn, TimeInv
  <1>2. CASE Refusing
    BY <1>0, <1>2, <1>c, <1>d DEF Refusing, TimeInv
  <1>3. CASE Tick
    <2>1. now \in Nat /\ Delay \in Nat
      BY <1>0, TimesAssumption DEF TypeOK
    <2>2. Calm
      <3>1. SUFFICES ASSUME NEW t \in Tab, NEW k \in Slot,
                            call[<<t, k>>].st # "none"
                     PROVE  /\ call[<<t, k>>].since <= now + 1
                            /\ now + 1 <= call[<<t, k>>].since + Delay
        BY <1>3 DEF Tick, TimeInv, CallTimes, RepliesFresh
      <3>2. call[<<t, k>>] \in Calls
        BY <1>0 DEF TypeOK
      <3>3. /\ call[<<t, k>>].since <= now
            /\ now < call[<<t, k>>].since + Delay
        BY <1>3, <3>1 DEF Tick, TimeInv, CallTimes
      <3>4. QED BY <2>1, <3>2, <3>3 DEF Calls
    <2>3. Prompt
      <3>1. SUFFICES ASSUME NEW t \in Tab, req[t].st = "sent"
                     PROVE  /\ req[t].at <= now + 1
                            /\ now + 1 <= req[t].at + Delay
        BY <1>3 DEF Tick, TimeInv, ReqTimes, RetriesFresh
      <3>2. req[t] \in Requests
        BY <1>0 DEF TypeOK
      <3>3. req[t].at <= now /\ now < req[t].at + Delay
        BY <1>3, <3>1 DEF Tick, TimeInv, ReqTimes
      <3>4. QED BY <2>1, <3>2, <3>3 DEF Requests
    <2>4. QED BY <1>0, <2>2, <2>3 DEF TimeInv
  <1>4. ASSUME NEW t \in Tab, Open(t) PROVE TimeInv'
    <2>1. Calm
      BY <1>4, <1>b, AskTimes DEF Open
    <2>2. QED BY <1>0, <1>4, <1>d, <2>1 DEF Open, TimeInv
  <1>5. ASSUME NEW t \in Tab, TimerFires(t) PROVE TimeInv'
    <2>1. Calm
      BY <1>5, <1>b, <1>c, AskTimes DEF TimerFires
    <2>2. QED BY <1>0, <1>5, <1>d, <2>1 DEF TimerFires, TimeInv
  <1>6. ASSUME NEW t \in Tab, Focus(t) PROVE TimeInv'
    <2>1. Calm
      BY <1>6, <1>b, AskTimes DEF Focus
    <2>2. QED BY <1>0, <1>6, <1>d, <2>1 DEF Focus, TimeInv
  <1>7. ASSUME NEW t \in Tab, NEW k \in Slot, Serve(t, k) \/ CallFails(t, k)
        PROVE  TimeInv'
    <2>1. Calm
      BY <1>7, ServeTimes
    <2>2. QED BY <1>0, <1>7, <1>d, <2>1 DEF Serve, CallFails, TimeInv
  <1>8. ASSUME NEW t \in Tab, NEW k \in Slot, Arrive(t, k) PROVE TimeInv'
    <2>1. \A c \in Tab \X Slot : call'[c] = call[c] \/ call'[c] = NoCall
      BY <1>0, <1>8 DEF Arrive, TypeOK
    <2>2. Calm
      BY <1>8, <2>1, EndTimes DEF Arrive
    <2>3. QED BY <1>0, <1>8, <1>d, <2>2 DEF Arrive, TimeInv
  <1>9. ASSUME NEW t \in Tab, Send(t) PROVE TimeInv'
    <2>1. \A u \in Tab : req'[u] = req[u]
                           \/ req'[u] = Sent(currentToken[t], FALSE)
      BY <1>0, <1>9 DEF Send, TypeOK
    <2>2. now \in Nat /\ Delay \in Nat /\ now' = now
      BY <1>0, <1>9, TimesAssumption DEF TypeOK, Send
    <2>3. Prompt
      BY <2>1, <2>2 DEF TimeInv, ReqTimes, RetriesFresh, Sent
    <2>4. QED BY <1>0, <1>9, <1>c, <2>3 DEF Send, TimeInv
  <1>10. ASSUME NEW t \in Tab, Answer(t) PROVE TimeInv'
    <2>1. \A u \in Tab : req'[u] = req[u] \/ req'[u] = Idle
      BY <1>0, <1>10 DEF Answer, TypeOK
    <2>2. Prompt
      BY <1>10, <2>1 DEF Answer, TimeInv, ReqTimes, RetriesFresh, Idle
    <2>3. QED BY <1>0, <1>10, <1>c, <2>2 DEF Answer, TimeInv
  <1>11. ASSUME NEW t \in Tab, Unauthorized(t) PROVE TimeInv'
    <2>1. \A u \in Tab : req'[u] = req[u] \/ req'[u] = Reloading(req[t])
      BY <1>0, <1>11 DEF Unauthorized, TypeOK
    <2>2. Prompt
      BY <1>11, <2>1 DEF Unauthorized, TimeInv, ReqTimes, RetriesFresh,
                         Reloading
    <2>3. Calm
      BY <1>11, <1>b, AskTimes DEF Unauthorized
    <2>4. QED BY <1>0, <2>2, <2>3 DEF TimeInv
  <1>12. ASSUME NEW t \in Tab, Reloaded(t) PROVE TimeInv'
    <2>1. \A c \in Tab \X Slot : call'[c] = call[c] \/ call'[c] = NoCall
      BY <1>0, <1>12 DEF Reloaded, TypeOK
    <2>2. Calm
      BY <1>12, <2>1, EndTimes DEF Reloaded
    <2>3. Prompt
      BY <1>12, ReloadedTimes
    <2>4. QED BY <1>0, <2>2, <2>3 DEF TimeInv
  <1>13. ASSUME NEW t \in Tab, SignOut(t) PROVE TimeInv'
    BY <1>0, <1>13, <1>c, <1>d DEF SignOut, TimeInv
  <1>14. ASSUME NEW t \in Tab, Leave(t) PROVE TimeInv'
    <2>1. \A c \in Tab \X Slot : call'[c] = call[c] \/ call'[c] = NoCall
      BY <1>0, <1>14 DEF Leave, TypeOK
    <2>2. Calm
      BY <1>14, <2>1, EndTimes DEF Leave
    <2>3. \A u \in Tab : req'[u] = req[u] \/ req'[u] = Idle
      BY <1>0, <1>14 DEF Leave, TypeOK
    <2>4. Prompt
      BY <1>14, <2>3 DEF Leave, TimeInv, ReqTimes, RetriesFresh, Idle
    <2>5. QED BY <1>0, <2>2, <2>4 DEF TimeInv
  <1>15. CASE UNCHANGED vars
    BY <1>0, <1>15, <1>c, <1>d DEF vars, TimeInv
  <1>16. QED
    BY <1>1, <1>2, <1>3, <1>4, <1>5, <1>6, <1>7, <1>8, <1>9, <1>10, <1>11,
       <1>12, <1>13, <1>14, <1>15 DEF Next, TabNext

LEMMA TimeInvImpliesAccepted == RetryFits /\ TimeInv => RetryAccepted
  <1> SUFFICES ASSUME RetryFits, TimeInv, NEW t \in Tab,
                      req[t].st = "sent", req[t].again
               PROVE  req[t].bearer # 0 /\ now <= req[t].bearer + Leeway
    BY DEF RetryAccepted, Accepted
  <1>1. /\ now \in Nat /\ Delay \in Nat /\ Buffer \in Nat /\ Leeway \in Nat
    BY TimesAssumption DEF TimeInv, TypeOK
  <1>2. req[t].bearer \in Nat /\ req[t].at \in Nat
    BY DEF TimeInv, TypeOK, Requests, Token
  <1>3. /\ req[t].bearer # 0
        /\ req[t].bearer + Delay > req[t].at + Buffer
        /\ now <= req[t].at + Delay
    BY DEF TimeInv, ReqTimes, RetriesFresh
  <1>4. QED BY <1>1, <1>2, <1>3 DEF RetryFits

(* RetryAccepted is an invariant when two calls fit in the buffer and the    *)
(* leeway: the request after a reload is never too late, for any number of   *)
(* tabs and whatever Keycloak does.                                          *)
THEOREM RetriesAreAccepted == RetryFits => (Spec => []RetryAccepted)
  <1> SUFFICES ASSUME RetryFits PROVE Spec => []RetryAccepted
    OBVIOUS
  <1>1. TimeInv => RetryAccepted
    BY TimeInvImpliesAccepted
  <1>2. QED BY InitTimes, TimeStep, <1>1, PTL DEF Spec
-----------------------------------------------------------------------------
(* Why a tab signs out: Keycloak refused a renewal, a reload failed, or the  *)
(* user left.                                                                *)
Cause == refused \/ failed \/ left

LeavingHasCause == \A t \in Tab : mode[t] = "leaving" => Cause
ErrorHasCause == \A c \in Tab \X Slot : call[c].err => Cause

(* Without a cause, a cookie that is missing has never been there, and a     *)
(* session that is reloaded has a token.                                     *)
NoTokenYet ==
    ~Cause /\ cookie = 0
        => \A t \in Tab :
              /\ session[t] = 0 /\ currentToken[t] = 0
              /\ req[t].st # "reload" /\ req[t].bearer = 0
              /\ \A k \in Slot : /\ call[<<t, k>>].had = 0
                                 /\ call[<<t, k>>].got = 0
ReloadsHaveToken ==
    ~Cause => \A t \in Tab :
        /\ call[<<t, "reload">>].st = "asked" => call[<<t, "reload">>].had # 0
        /\ call[<<t, "reload">>].st = "served" => call[<<t, "reload">>].got # 0

CauseInv == /\ TypeOK /\ LeavingHasCause /\ ErrorHasCause
            /\ NoTokenYet /\ ReloadsHaveToken

LEMMA InitCause == Init => CauseInv
  BY InitType DEF Init, CauseInv, LeavingHasCause, ErrorHasCause, NoTokenYet,
                  ReloadsHaveToken, NoCall, Idle, Slot

(* A cause does not go away.                                                 *)
LEMMA CauseStays == [Next]_vars /\ Cause => Cause'
  <1> SUFFICES ASSUME [Next]_vars, Cause PROVE Cause'
    OBVIOUS
  <1> USE DEF history
  <1>1. CASE SignIn \/ Refusing \/ Tick \/ UNCHANGED vars
    BY <1>1 DEF SignIn, Refusing, Tick, vars, Cause
  <1>2. ASSUME NEW t \in Tab, Open(t) \/ TimerFires(t) \/ Focus(t) \/ Send(t)
               \/ Answer(t) \/ Unauthorized(t) \/ Reloaded(t) \/ Leave(t)
        PROVE  Cause'
    BY <1>2 DEF Open, TimerFires, Focus, Send, Answer, Unauthorized, Reloaded,
                Leave, Cause
  <1>3. ASSUME NEW t \in Tab, NEW k \in Slot, Serve(t, k) PROVE Cause'
    <2>1. UNCHANGED refused \/ refused' = TRUE
      BY <1>3 DEF Serve
    <2>2. UNCHANGED <<failed, left>>
      BY <1>3 DEF Serve
    <2>3. QED BY <2>1, <2>2 DEF Cause
  <1>3a. ASSUME NEW t \in Tab, NEW k \in Slot, CallFails(t, k) PROVE Cause'
    BY <1>3a DEF CallFails, Cause
  <1>4. ASSUME NEW t \in Tab, NEW k \in Slot, Arrive(t, k) PROVE Cause'
    BY <1>4 DEF Arrive, Cause
  <1>5. ASSUME NEW t \in Tab, SignOut(t) PROVE Cause'
    BY <1>5 DEF SignOut, Cause
  <1>6. QED BY <1>1, <1>2, <1>3, <1>3a, <1>4, <1>5 DEF Next, TabNext

(* Once there is a cause there is nothing left to show.                      *)
LEMMA CauseEnds == TypeOK' /\ Cause' => CauseInv'
  BY DEF CauseInv, LeavingHasCause, ErrorHasCause, NoTokenYet,
         ReloadsHaveToken

(* A session call that is asked, other than a reload without a cookie.       *)
LEMMA AskCause ==
    ASSUME CauseInv, ~Cause, NEW t \in Tab, NEW k \in Slot, Ask(t, k),
           k = "reload" => cookie # 0, cookie' = cookie, ~Cause'
    PROVE  /\ ErrorHasCause' /\ ReloadsHaveToken'
           /\ cookie = 0 => \A c \in Tab \X Slot :
                               call'[c].had = 0 /\ call'[c].got = 0
  <1> USE DEF CauseInv
  <1>1. \A c \in Tab \X Slot : call'[c] = IF c = <<t, k>> THEN Asked(cookie)
                                                          ELSE call[c]
    BY DEF Ask, TypeOK
  <1>2. ErrorHasCause'
    BY <1>1 DEF ErrorHasCause, Asked
  <1>3. ReloadsHaveToken'
    <2>1. \A u \in Tab : <<u, "reload">> \in Tab \X Slot
      BY DEF Slot
    <2>2. \A u \in Tab : \/ call'[<<u, "reload">>] = call[<<u, "reload">>]
                         \/ k = "reload"
                            /\ call'[<<u, "reload">>] = Asked(cookie)
      BY <1>1, <2>1
    <2>3. Asked(cookie).st = "asked" /\ Asked(cookie).had = cookie
      BY DEF Asked
    <2>4. QED BY <2>2, <2>3 DEF ReloadsHaveToken
  <1>4. cookie = 0 => \A c \in Tab \X Slot :
                         call'[c].had = 0 /\ call'[c].got = 0
    BY <1>1 DEF NoTokenYet, Asked
  <1>5. QED BY <1>2, <1>3, <1>4

(* Without a cause, the answer of a session call is the token it had, or a   *)
(* new one.                                                                  *)
LEMMA ServeCause ==
    ASSUME CauseInv, ~Cause, NEW t \in Tab, NEW k \in Slot, Serve(t, k),
           ~Cause'
    PROVE  CauseInv'
  <1> USE DEF CauseInv
  <1> DEFINE c == call[<<t, k>>]
  <1>0. TypeOK'
    BY TypeStep DEF Next, TabNext
  <1>1. PICK tok \in Nat : /\ Reply(t, k, tok, FALSE)
                           /\ tok = 0 <=> c.had = 0
    <2>1. c.had \in Nat /\ now \in Nat /\ Life \in Nat /\ Life > 0
      BY TimesAssumption DEF TypeOK, Calls, Token
    <2>2. now + Life \in Nat /\ now + Life # 0
      BY <2>1
    <2>3. refused' # TRUE
      BY DEF Cause
    <2>4. QED BY <2>1, <2>2, <2>3 DEF Serve
  <1>2. \A d \in Tab \X Slot :
            call'[d] = IF d = <<t, k>> THEN Served(c, tok, FALSE) ELSE call[d]
    BY <1>1 DEF Reply, TypeOK
  <1>3. ErrorHasCause'
    BY <1>2 DEF ErrorHasCause, Served
  <1>4. ReloadsHaveToken'
    <2>1. \A u \in Tab : <<u, "reload">> \in Tab \X Slot
      BY DEF Slot
    <2>2. \A u \in Tab : \/ call'[<<u, "reload">>] = call[<<u, "reload">>]
                         \/ /\ u = t /\ k = "reload"
                            /\ call'[<<u, "reload">>] = Served(c, tok, FALSE)
      BY <1>2, <2>1
    <2>3. /\ Served(c, tok, FALSE).st = "served"
          /\ Served(c, tok, FALSE).got = tok
      BY DEF Served
    <2>4. c.st = "asked"
      BY DEF Serve
    <2>5. k = "reload" => tok # 0
      BY <1>1, <2>4 DEF ReloadsHaveToken
    <2>6. QED BY <2>2, <2>3, <2>5 DEF ReloadsHaveToken
  <1>5. NoTokenYet'
    BY <1>1, <1>2 DEF NoTokenYet, Served, Serve
  <1>6. LeavingHasCause'
    BY DEF LeavingHasCause, Serve
  <1>7. QED BY <1>0, <1>3, <1>4, <1>5, <1>6

(* Without a cause, only a call that reloads nothing has failed.             *)
LEMMA CallFailsCause ==
    ASSUME CauseInv, ~Cause, NEW t \in Tab, NEW k \in Slot, CallFails(t, k),
           ~Cause'
    PROVE  CauseInv'
  <1> USE DEF CauseInv
  <1> DEFINE c == call[<<t, k>>]
  <1>0. TypeOK'
    BY TypeStep DEF Next, TabNext
  <1>1. Reply(t, k, 0, FALSE) /\ k # "reload"
    BY DEF CallFails, Cause
  <1>2. \A d \in Tab \X Slot :
            call'[d] = IF d = <<t, k>> THEN Served(c, 0, FALSE) ELSE call[d]
    BY <1>1 DEF Reply, TypeOK
  <1>3. ErrorHasCause'
    BY <1>2 DEF ErrorHasCause, Served
  <1>4. ReloadsHaveToken'
    <2>1. \A u \in Tab : call'[<<u, "reload">>] = call[<<u, "reload">>]
      BY <1>1, <1>2 DEF Slot
    <2>2. QED BY <2>1 DEF ReloadsHaveToken
  <1>5. NoTokenYet'
    BY <1>2 DEF NoTokenYet, Served, CallFails
  <1>6. LeavingHasCause'
    BY DEF LeavingHasCause, CallFails
  <1>7. QED BY <1>0, <1>3, <1>4, <1>5, <1>6

(* An answer never clears the cookie.                                        *)
LEMMA ArriveCause ==
    ASSUME CauseInv, ~Cause, NEW t \in Tab, NEW k \in Slot, Arrive(t, k),
           ~Cause'
    PROVE  CauseInv'
  <1> USE DEF CauseInv
  <1>0. TypeOK'
    BY TypeStep DEF Next, TabNext
  <1>1. \A d \in Tab \X Slot :
            call'[d] = IF d = <<t, k>> THEN NoCall ELSE call[d]
    BY DEF Arrive, TypeOK
  <1>2. ~call[<<t, k>>].err
    BY DEF ErrorHasCause
  <1>3. ErrorHasCause'
    BY <1>1 DEF ErrorHasCause, NoCall
  <1>4. ReloadsHaveToken'
    <2>1. \A u \in Tab : <<u, "reload">> \in Tab \X Slot
      BY DEF Slot
    <2>2. \A u \in Tab : \/ call'[<<u, "reload">>] = call[<<u, "reload">>]
                         \/ call'[<<u, "reload">>] = NoCall
      BY <1>1, <2>1
    <2>3. NoCall.st = "none"
      BY DEF NoCall
    <2>4. QED BY <2>2, <2>3 DEF ReloadsHaveToken
  <1>5. NoTokenYet'
    <2>1. SUFFICES ASSUME cookie' = 0 PROVE NoTokenYet'
      BY DEF NoTokenYet
    <2>2. cookie = 0 /\ call[<<t, k>>].got = 0
      BY <2>1 DEF Arrive, SetCookie
    <2>3. /\ session' = [session EXCEPT ![t] = 0]
          /\ currentToken' = [currentToken EXCEPT ![t] = 0]
      BY <2>2 DEF Arrive, NoTokenYet, TypeOK
    <2>4. QED BY <1>1, <2>2, <2>3 DEF Arrive, NoTokenYet, NoCall, TypeOK
  <1>6. LeavingHasCause'
    BY <1>2 DEF LeavingHasCause, Arrive, TypeOK
  <1>7. QED BY <1>0, <1>3, <1>4, <1>5, <1>6

(* Without a cause, a reload brings a token.                                 *)
LEMMA ReloadedCause ==
    ASSUME CauseInv, ~Cause, NEW t \in Tab, Reloaded(t), ~Cause'
    PROVE  CauseInv'
  <1> USE DEF CauseInv
  <1> DEFINE c == call[<<t, "reload">>]
  <1>0. TypeOK'
    BY TypeStep DEF Next, TabNext
  <1>1. \A d \in Tab \X Slot :
            call'[d] = IF d = <<t, "reload">> THEN NoCall ELSE call[d]
    BY DEF Reloaded, TypeOK
  <1>2. ~c.err /\ c.got # 0
    BY DEF ErrorHasCause, ReloadsHaveToken, Reloaded, Slot
  <1>3. ErrorHasCause'
    BY <1>1 DEF ErrorHasCause, NoCall
  <1>4. ReloadsHaveToken'
    <2>1. \A u \in Tab : <<u, "reload">> \in Tab \X Slot
      BY DEF Slot
    <2>2. \A u \in Tab : \/ call'[<<u, "reload">>] = call[<<u, "reload">>]
                         \/ call'[<<u, "reload">>] = NoCall
      BY <1>1, <2>1
    <2>3. NoCall.st = "none"
      BY DEF NoCall
    <2>4. QED BY <2>2, <2>3 DEF ReloadsHaveToken
  <1>5. NoTokenYet'
    BY <1>2 DEF NoTokenYet, Reloaded, SetCookie
  <1>6. LeavingHasCause'
    BY <1>2 DEF LeavingHasCause, Reloaded
  <1>7. QED BY <1>0, <1>3, <1>4, <1>5, <1>6

LEMMA CauseStep == CauseInv /\ [Next]_vars => CauseInv'
  <1> SUFFICES ASSUME CauseInv, [Next]_vars PROVE CauseInv'
    OBVIOUS
  <1>0. TypeOK /\ TypeOK'
    BY TypeStep DEF CauseInv
  <1> SUFFICES ASSUME ~Cause, ~Cause' PROVE CauseInv'
    BY <1>0, CauseStays, CauseEnds
  <1>b. "poll" \in Slot /\ "focus" \in Slot /\ "reload" \in Slot
    BY DEF Slot
  <1>c. ASSUME call' = call PROVE ErrorHasCause' /\ ReloadsHaveToken'
    BY <1>c DEF CauseInv, ErrorHasCause, ReloadsHaveToken, Cause
  <1>1. CASE SignIn
    <2>1. cookie' # 0
      BY <1>0, <1>1, TimesAssumption DEF SignIn, TypeOK
    <2>2. NoTokenYet' /\ LeavingHasCause'
      BY <1>1, <2>1 DEF SignIn, CauseInv, NoTokenYet, LeavingHasCause
    <2>3. QED BY <1>0, <1>1, <1>c, <2>2 DEF SignIn, CauseInv
  <1>2. CASE Refusing \/ Tick \/ UNCHANGED vars
    BY <1>0, <1>2, <1>c DEF Refusing, Tick, vars, CauseInv, NoTokenYet,
                            LeavingHasCause
  <1>3. ASSUME NEW t \in Tab, Open(t) \/ TimerFires(t) \/ Focus(t)
        PROVE  CauseInv'
    <2>1. /\ UNCHANGED call \/ Ask(t, "focus") \/ Ask(t, "poll")
          /\ UNCHANGED <<cookie, session, currentToken, req>>
      BY <1>3 DEF Open, TimerFires, Focus
    <2>2. ErrorHasCause' /\ ReloadsHaveToken'
      BY <1>b, <1>c, <2>1, AskCause
    <2>3. cookie = 0 => \A c \in Tab \X Slot :
                           call'[c].had = 0 /\ call'[c].got = 0
      <3>1. CASE UNCHANGED call
        BY <3>1 DEF CauseInv, NoTokenYet
      <3>2. CASE Ask(t, "focus") \/ Ask(t, "poll")
        BY <1>b, <2>1, <3>2, AskCause
      <3>3. QED BY <2>1, <3>1, <3>2
    <2>4. NoTokenYet'
      BY <2>1, <2>3 DEF CauseInv, NoTokenYet
    <2>5. LeavingHasCause'
      BY <1>0, <1>3 DEF Open, TimerFires, Focus, CauseInv, LeavingHasCause,
                        TypeOK
    <2>6. QED BY <1>0, <2>2, <2>4, <2>5 DEF CauseInv
  <1>4. ASSUME NEW t \in Tab, NEW k \in Slot, Serve(t, k) PROVE CauseInv'
    BY <1>4, ServeCause
  <1>4a. ASSUME NEW t \in Tab, NEW k \in Slot, CallFails(t, k)
         PROVE  CauseInv'
    BY <1>4a, CallFailsCause
  <1>5. ASSUME NEW t \in Tab, NEW k \in Slot, Arrive(t, k) PROVE CauseInv'
    BY <1>5, ArriveCause
  <1>6. ASSUME NEW t \in Tab, Send(t) \/ Answer(t) PROVE CauseInv'
    <2>1. PICK r : /\ r = Sent(currentToken[t], FALSE) \/ r = Idle
                   /\ req' = [req EXCEPT ![t] = r]
      BY <1>6 DEF Send, Answer
    <2>2. r.st # "reload" /\ (cookie = 0 => r.bearer = 0)
      BY <2>1 DEF Sent, Idle, CauseInv, NoTokenYet
    <2>3. UNCHANGED <<cookie, session, currentToken, call, mode>>
      BY <1>6 DEF Send, Answer
    <2>4. NoTokenYet' /\ LeavingHasCause'
      BY <1>0, <2>1, <2>2, <2>3 DEF CauseInv, NoTokenYet, LeavingHasCause,
                                    TypeOK
    <2>5. QED BY <1>0, <1>c, <2>3, <2>4 DEF CauseInv
  <1>7. ASSUME NEW t \in Tab, Unauthorized(t) PROVE CauseInv'
    <2>1. cookie # 0
      BY <1>7 DEF Unauthorized, ShouldReload, CauseInv, NoTokenYet
    <2>2. ErrorHasCause' /\ ReloadsHaveToken'
      BY <1>7, <1>b, <2>1, AskCause DEF Unauthorized
    <2>3. NoTokenYet' /\ LeavingHasCause'
      BY <1>7, <2>1 DEF Unauthorized, CauseInv, NoTokenYet, LeavingHasCause
    <2>4. QED BY <1>0, <2>2, <2>3 DEF CauseInv
  <1>8. ASSUME NEW t \in Tab, Reloaded(t) PROVE CauseInv'
    BY <1>8, ReloadedCause
  <1>9. ASSUME NEW t \in Tab, SignOut(t) PROVE CauseInv'
    BY <1>9 DEF SignOut, Cause
  <1>10. ASSUME NEW t \in Tab, Leave(t) PROVE CauseInv'
    BY <1>10 DEF Leave, CauseInv, LeavingHasCause
  <1>11. QED
    BY <1>1, <1>2, <1>3, <1>4, <1>4a, <1>5, <1>6, <1>7, <1>8, <1>9, <1>10
    DEF Next, TabNext

(* SignOutHasCause is an invariant: a tab signs out only after Keycloak      *)
(* refused a renewal, the reload of a session failed or the user signed out, *)
(* for any number of tabs, whichever other calls fail.                       *)
THEOREM SignOutsHaveCause == Spec => []SignOutHasCause
  <1>1. CauseInv => SignOutHasCause
    BY DEF CauseInv, LeavingHasCause, SignOutHasCause, Cause
  <1>2. QED BY InitCause, CauseStep, <1>1, PTL DEF Spec
-----------------------------------------------------------------------------
(* The buffer and the leeway cover the time from one firing of the timer to  *)
(* the answer of the next, and a request after that.                        *)
PollFits == Poll + 3 * Delay <= Buffer + Leeway + 1

(* The timer of a tab that is open, and the call it made last.               *)
TimerRuns(t) ==
    /\ now <= due[t] /\ due[t] <= now + Poll
    /\ call[<<t, "poll">>].st # "none"
         => call[<<t, "poll">>].since + Poll = due[t]

(* A closed tab has no session and calls nothing.                            *)
Rests(t) == session[t] = 0 /\ \A k \in Slot : call[<<t, k>>].st = "none"

(* No request is rejected for its age, so that no session is reloaded, and   *)
(* calls are made with the token of the session.                            *)
NeverReloads(t) ==
    /\ currentToken[t] = session[t]
    /\ req[t].st # "reload" /\ call[<<t, "reload">>].st = "none"

(* The token of an open tab came after the timer fired last; or it came      *)
(* after the firing before, and what the timer asked for will replace it.   *)
TokenKept(t) ==
    \/ session[t] + Poll + Delay > due[t] + Buffer
    \/ /\ call[<<t, "poll">>].st # "none"
       /\ session[t] + 2 * Poll + Delay > due[t] + Buffer

(* A token sent had expired for less than the timer and two calls may take,  *)
(* less the buffer.                                                         *)
BearerYoung(t) ==
    req[t].bearer # 0 => req[t].at + Buffer < req[t].bearer + Poll + 2 * Delay

TabInv(t) ==
    /\ mode[t] # "closed" => TimerRuns(t)
    /\ mode[t] = "closed" => Rests(t)
    /\ NeverReloads(t)
    /\ mode[t] = "open" /\ session[t] # 0 => TokenKept(t)
    /\ req[t].st = "sent" => BearerYoung(t)

PollInv == TimeInv /\ \A t \in Tab : TabInv(t)

LEMMA Times ==
    TypeOK => /\ now \in Nat /\ Delay \in Nat /\ Buffer \in Nat
              /\ Leeway \in Nat /\ Poll \in Nat /\ Delay < Poll
              /\ \A t \in Tab : /\ session[t] \in Nat /\ due[t] \in Nat
                                /\ req[t].at \in Nat /\ req[t].bearer \in Nat
              /\ \A t \in Tab, k \in Slot : /\ call[<<t, k>>].since \in Nat
                                            /\ call[<<t, k>>].got \in Nat
  <1> SUFFICES ASSUME TypeOK
               PROVE  /\ \A t \in Tab : req[t] \in Requests
                      /\ \A t \in Tab, k \in Slot : call[<<t, k>>] \in Calls
    BY TimesAssumption DEF TypeOK, Requests, Calls, Token
  <1>1. QED BY DEF TypeOK

(* A token that is kept has not expired long ago.                            *)
LEMMA KeptYoung ==
    ASSUME PollInv, NEW t \in Tab, mode[t] = "open", session[t] # 0
    PROVE  now + Buffer < session[t] + Poll + 2 * Delay
  <1>0. TypeOK /\ "poll" \in Slot
    BY DEF PollInv, TimeInv, Slot
  <1>1. TimerRuns(t) /\ TokenKept(t)
    BY DEF PollInv, TabInv
  <1>2. PICK s \in Nat, d \in Nat, n \in Nat :
           s = session[t] /\ d = due[t] /\ n = now /\ n <= d /\ d <= n + Poll
    BY <1>0, <1>1, Times DEF TimerRuns
  <1>3. CASE s + Poll + Delay > d + Buffer
    BY <1>0, <1>2, <1>3, Times
  <1>4. CASE ~(s + Poll + Delay > d + Buffer)
    <2>1. PICK f \in Nat : f = call[<<t, "poll">>].since
      BY <1>0, Times
    <2>2. /\ n <= f + Delay /\ f + Poll = d
          /\ s + 2 * Poll + Delay > d + Buffer
      BY <1>0, <1>1, <1>2, <1>4, <2>1
         DEF TokenKept, TimerRuns, PollInv, TimeInv, CallTimes
    <2>3. QED BY <1>0, <1>2, <2>2, Times
  <1>5. QED BY <1>3, <1>4

(* What leaves a tab alone, and the time.                                    *)
LEMMA OtherTab ==
    ASSUME NEW t \in Tab, TabInv(t), now' = now, mode'[t] = mode[t],
           session'[t] = session[t], currentToken'[t] = currentToken[t],
           due'[t] = due[t], req'[t] = req[t],
           \A k \in Slot : call'[<<t, k>>] = call[<<t, k>>]
    PROVE  TabInv(t)'
  <1>1. /\ call'[<<t, "poll">>] = call[<<t, "poll">>]
        /\ call'[<<t, "reload">>] = call[<<t, "reload">>]
    BY DEF Slot
  <1>2. /\ TimerRuns(t)' <=> TimerRuns(t)
        /\ Rests(t)' <=> Rests(t)
        /\ NeverReloads(t)' <=> NeverReloads(t)
        /\ TokenKept(t)' <=> TokenKept(t)
        /\ BearerYoung(t)' <=> BearerYoung(t)
    BY <1>1 DEF TimerRuns, Rests, NeverReloads, TokenKept, BearerYoung
  <1>3. QED BY <1>2 DEF TabInv

OnlyCall(t, k, x) ==
    \A u \in Tab, j \in Slot :
       call'[<<u, j>>] = IF u = t /\ j = k THEN x ELSE call[<<u, j>>]

LEMMA CallSet ==
    ASSUME TypeOK, NEW t \in Tab, NEW k \in Slot, NEW x,
           call' = [call EXCEPT ![<<t, k>>] = x]
    PROVE  OnlyCall(t, k, x)
  <1> SUFFICES ASSUME NEW u \in Tab, NEW j \in Slot
               PROVE  call'[<<u, j>>] = IF u = t /\ j = k THEN x
                                        ELSE call[<<u, j>>]
    BY DEF OnlyCall
  <1>1. <<u, j>> \in Tab \X Slot /\ (<<u, j>> = <<t, k>> <=> u = t /\ j = k)
    OBVIOUS
  <1>2. QED BY <1>1 DEF TypeOK

(* A step of one tab.                                                        *)
LEMMA OneTabSteps ==
    ASSUME \A u \in Tab : TabInv(u), NEW t \in Tab, TabInv(t)', now' = now,
           \A u \in Tab : u # t =>
              /\ mode'[u] = mode[u] /\ session'[u] = session[u]
              /\ currentToken'[u] = currentToken[u]
              /\ due'[u] = due[u] /\ req'[u] = req[u]
              /\ \A k \in Slot : call'[<<u, k>>] = call[<<u, k>>]
    PROVE  \A u \in Tab : TabInv(u)'
  <1> SUFFICES ASSUME NEW u \in Tab PROVE TabInv(u)'
    OBVIOUS
  <1>1. CASE u = t
    BY <1>1
  <1>2. CASE u # t
    BY <1>2, OtherTab
  <1>3. QED BY <1>1, <1>2

LEMMA InitPoll == Init => PollInv
  <1> SUFFICES ASSUME Init, NEW t \in Tab PROVE TabInv(t)
    BY InitTimes DEF PollInv
  <1>1. /\ mode[t] = "closed" /\ session[t] = 0 /\ currentToken[t] = 0
        /\ req[t] = Idle
        /\ \A k \in Slot : call[<<t, k>>] = NoCall
        /\ "reload" \in Slot
    BY DEF Init, Slot
  <1>2. QED BY <1>1 DEF TabInv, Rests, NeverReloads, Idle, NoCall

LEMMA TickPoll ==
    ASSUME PollInv, Tick, TypeOK'
    PROVE  \A t \in Tab : TabInv(t)'
  <1> SUFFICES ASSUME NEW t \in Tab PROVE TabInv(t)'
    OBVIOUS
  <1>1. /\ now' = now + 1 /\ (mode[t] # "closed" => now < due[t])
        /\ UNCHANGED <<mode, session, currentToken, due, call, req>>
    BY DEF Tick
  <1>2. now \in Nat /\ due[t] \in Nat /\ Poll \in Nat
    BY Times DEF PollInv, TimeInv
  <1>3. TabInv(t)
    BY DEF PollInv
  <1>4. mode[t] # "closed" => TimerRuns(t)'
    BY <1>1, <1>2, <1>3 DEF TabInv, TimerRuns
  <1>5. QED
    BY <1>1, <1>3, <1>4
       DEF TabInv, Rests, NeverReloads, TokenKept, BearerYoung

LEMMA OpenPoll ==
    ASSUME PollInv, NEW t \in Tab, Open(t)
    PROVE  \A u \in Tab : TabInv(u)'
  <1>0. TypeOK /\ TabInv(t) /\ \A u \in Tab : TabInv(u)
    BY DEF PollInv, TimeInv
  <1>1. "focus" \in Slot /\ "poll" \in Slot /\ "reload" \in Slot
    BY DEF Slot
  <1>2. \A u \in Tab, j \in Slot :
           call'[<<u, j>>] = IF u = t /\ j = "focus" THEN Asked(cookie)
                             ELSE call[<<u, j>>]
    <2>1. PICK x : x = Asked(cookie)
      OBVIOUS
    <2>2. call' = [call EXCEPT ![<<t, "focus">>] = x]
      BY <2>1 DEF Open, Ask
    <2>3. OnlyCall(t, "focus", x)
      BY <1>0, <1>1, <2>2, CallSet
    <2>4. QED BY <2>1, <2>3 DEF OnlyCall
  <1>3. /\ mode'[t] = "open" /\ due'[t] = now + Poll
        /\ UNCHANGED <<now, session, currentToken, req>>
        /\ \A u \in Tab : u # t => mode'[u] = mode[u] /\ due'[u] = due[u]
    BY <1>0 DEF Open, TypeOK
  <1>4. session[t] = 0 /\ \A j \in Slot : call[<<t, j>>].st = "none"
    BY <1>0 DEF TabInv, Rests, Open
  <1>5. /\ call'[<<t, "poll">>] = call[<<t, "poll">>]
        /\ call'[<<t, "reload">>] = call[<<t, "reload">>]
    BY <1>1, <1>2
  <1>6. TimerRuns(t)'
    BY <1>0, <1>1, <1>3, <1>4, <1>5, Times DEF TimerRuns
  <1>7. TabInv(t)'
    BY <1>0, <1>3, <1>4, <1>5, <1>6 DEF TabInv, NeverReloads, BearerYoung
  <1>8. QED BY <1>0, <1>2, <1>3, <1>7, OneTabSteps

LEMMA TimerPoll ==
    ASSUME PollInv, NEW t \in Tab, TimerFires(t)
    PROVE  \A u \in Tab : TabInv(u)'
  <1>0. TypeOK /\ TabInv(t) /\ \A u \in Tab : TabInv(u)
    BY DEF PollInv, TimeInv
  <1>1. "focus" \in Slot /\ "poll" \in Slot /\ "reload" \in Slot
    BY DEF Slot
  <1>2. PICK x :
           /\ x = IF session[t] # 0 THEN Asked(cookie) ELSE call[<<t, "poll">>]
           /\ \A u \in Tab, j \in Slot :
                 call'[<<u, j>>] = IF u = t /\ j = "poll" THEN x
                                   ELSE call[<<u, j>>]
    <2>1. PICK x :
             x = IF session[t] # 0 THEN Asked(cookie) ELSE call[<<t, "poll">>]
      OBVIOUS
    <2>2. call' = [call EXCEPT ![<<t, "poll">>] = x]
      BY <1>0, <1>1, <2>1 DEF TimerFires, Ask, TypeOK
    <2>3. OnlyCall(t, "poll", x)
      BY <1>0, <1>1, <2>2, CallSet
    <2>4. QED BY <2>1, <2>3 DEF OnlyCall
  <1>3. /\ mode[t] # "closed" /\ now = due[t] /\ due'[t] = now + Poll
        /\ call[<<t, "poll">>].st = "none"
        /\ UNCHANGED <<now, mode, session, currentToken, req>>
        /\ \A u \in Tab : u # t => due'[u] = due[u]
    BY <1>0 DEF TimerFires, TypeOK
  <1>4. /\ call'[<<t, "poll">>] = x
        /\ call'[<<t, "reload">>] = call[<<t, "reload">>]
    BY <1>1, <1>2
  <1>5. IF session[t] # 0 THEN x.st = "asked" /\ x.since = now
                          ELSE x.st = "none"
    BY <1>2, <1>3 DEF Asked
  <1>6. TimerRuns(t)'
    BY <1>0, <1>3, <1>4, <1>5, Times DEF TimerRuns
  <1>7. ASSUME mode[t] = "open", session[t] # 0 PROVE TokenKept(t)'
    <2>1. session[t] + Poll + Delay > due[t] + Buffer
      BY <1>0, <1>3, <1>7 DEF TabInv, TokenKept
    <2>2. x.st # "none"
      BY <1>5, <1>7
    <2>3. session[t] + 2 * Poll + Delay > (due[t] + Poll) + Buffer
      BY <1>0, <2>1, Times
    <2>4. QED BY <1>3, <1>4, <2>2, <2>3 DEF TokenKept
  <1>8. TabInv(t)'
    BY <1>0, <1>3, <1>4, <1>6, <1>7 DEF TabInv, NeverReloads, BearerYoung
  <1>9. QED BY <1>0, <1>2, <1>3, <1>8, OneTabSteps

LEMMA FocusPoll ==
    ASSUME PollInv, NEW t \in Tab, Focus(t)
    PROVE  \A u \in Tab : TabInv(u)'
  <1>0. TypeOK /\ TabInv(t) /\ \A u \in Tab : TabInv(u)
    BY DEF PollInv, TimeInv
  <1>1. "focus" \in Slot /\ "poll" \in Slot /\ "reload" \in Slot
    BY DEF Slot
  <1>2. \A u \in Tab, j \in Slot :
           call'[<<u, j>>] = IF u = t /\ j = "focus" THEN Asked(cookie)
                             ELSE call[<<u, j>>]
    <2>1. PICK x : x = Asked(cookie)
      OBVIOUS
    <2>2. call' = [call EXCEPT ![<<t, "focus">>] = x]
      BY <2>1 DEF Focus, Ask
    <2>3. OnlyCall(t, "focus", x)
      BY <1>0, <1>1, <2>2, CallSet
    <2>4. QED BY <2>1, <2>3 DEF OnlyCall
  <1>3. mode[t] # "closed"
        /\ UNCHANGED <<now, mode, session, currentToken, due, req>>
    BY DEF Focus
  <1>4. /\ call'[<<t, "poll">>] = call[<<t, "poll">>]
        /\ call'[<<t, "reload">>] = call[<<t, "reload">>]
    BY <1>1, <1>2
  <1>5. TabInv(t)'
    BY <1>0, <1>3, <1>4
       DEF TabInv, TimerRuns, NeverReloads, TokenKept, BearerYoung
  <1>6. QED BY <1>0, <1>2, <1>3, <1>5, OneTabSteps

LEMMA ServePoll ==
    ASSUME PollInv, NEW t \in Tab, NEW k \in Slot,
           Serve(t, k) \/ CallFails(t, k)
    PROVE  \A u \in Tab : TabInv(u)'
  <1>0. TypeOK /\ TabInv(t) /\ \A u \in Tab : TabInv(u)
    BY DEF PollInv, TimeInv
  <1>1. "focus" \in Slot /\ "poll" \in Slot /\ "reload" \in Slot
    BY DEF Slot
  <1>2. PICK tok, err : Reply(t, k, tok, err)
    BY DEF Serve, CallFails
  <1>3. \A u \in Tab, j \in Slot :
           call'[<<u, j>>] = IF u = t /\ j = k
                             THEN Served(call[<<t, k>>], tok, err)
                             ELSE call[<<u, j>>]
    <2>1. PICK x : x = Served(call[<<t, k>>], tok, err)
      OBVIOUS
    <2>2. call' = [call EXCEPT ![<<t, k>>] = x]
      BY <1>2, <2>1 DEF Reply
    <2>3. OnlyCall(t, k, x)
      BY <1>0, <2>2, CallSet
    <2>4. QED BY <2>1, <2>3 DEF OnlyCall
  <1>4. call[<<t, k>>].st = "asked"
        /\ UNCHANGED <<now, mode, session, currentToken, due, req>>
    BY DEF Serve, CallFails
  <1>5. \A j \in Slot : /\ call'[<<t, j>>].st = "none"
                             <=> call[<<t, j>>].st = "none"
                        /\ call'[<<t, j>>].since = call[<<t, j>>].since
    BY <1>3, <1>4 DEF Served
  <1>6. /\ call'[<<t, "poll">>].st = "none" <=> call[<<t, "poll">>].st = "none"
        /\ call'[<<t, "poll">>].since = call[<<t, "poll">>].since
        /\ call'[<<t, "reload">>].st = "none"
             <=> call[<<t, "reload">>].st = "none"
    BY <1>1, <1>5
  <1>7. TimerRuns(t)' <=> TimerRuns(t)
    BY <1>4, <1>6 DEF TimerRuns
  <1>8. TokenKept(t)' <=> TokenKept(t)
    BY <1>4, <1>6 DEF TokenKept
  <1>9. Rests(t)' <=> Rests(t)
    BY <1>4, <1>5 DEF Rests
  <1>10. NeverReloads(t)'
    BY <1>0, <1>4, <1>6 DEF TabInv, NeverReloads
  <1>11. TabInv(t)'
    BY <1>0, <1>4, <1>7, <1>8, <1>9, <1>10 DEF TabInv, BearerYoung
  <1>12. QED BY <1>0, <1>3, <1>4, <1>11, OneTabSteps

(* An answer that comes makes the token of the tab newer than the last       *)
(* firing of its timer, or is not what the timer waits for.                 *)
LEMMA ArrivePoll ==
    ASSUME PollInv, NEW t \in Tab, NEW k \in Slot, Arrive(t, k)
    PROVE  \A u \in Tab : TabInv(u)'
  <1>0. TypeOK /\ TabInv(t) /\ \A u \in Tab : TabInv(u)
    BY DEF PollInv, TimeInv
  <1>1. "focus" \in Slot /\ "poll" \in Slot /\ "reload" \in Slot
    BY DEF Slot
  <1>2. PICK c \in Calls : c = call[<<t, k>>]
    BY <1>0 DEF TypeOK
  <1>3. \A u \in Tab, j \in Slot :
           call'[<<u, j>>] = IF u = t /\ j = k THEN NoCall
                             ELSE call[<<u, j>>]
    <2>1. call' = [call EXCEPT ![<<t, k>>] = NoCall]
      BY DEF Arrive
    <2>2. OnlyCall(t, k, NoCall)
      BY <1>0, <2>1, CallSet
    <2>3. QED BY <2>2 DEF OnlyCall
  <1>4. currentToken[t] = session[t] /\ mode[t] # "closed"
    BY <1>0 DEF TabInv, NeverReloads, Rests, Arrive
  <1>5. /\ k # "reload" /\ c.st = "served"
        /\ session'[t] = c.got /\ currentToken'[t] = c.got
        /\ mode'[t] = IF c.err THEN "leaving" ELSE mode[t]
        /\ UNCHANGED <<now, due, req>>
        /\ \A u \in Tab : u # t => /\ session'[u] = session[u]
                                   /\ currentToken'[u] = currentToken[u]
                                   /\ mode'[u] = mode[u]
    BY <1>0, <1>2, <1>4 DEF Arrive, TypeOK
  <1>6. /\ call'[<<t, "poll">>] = IF k = "poll" THEN NoCall
                                  ELSE call[<<t, "poll">>]
        /\ call'[<<t, "reload">>] = call[<<t, "reload">>]
    BY <1>1, <1>3, <1>5
  <1>7. TimerRuns(t) /\ NeverReloads(t)
    BY <1>0, <1>4 DEF TabInv
  <1>8. TimerRuns(t)'
    BY <1>5, <1>6, <1>7 DEF TimerRuns, NoCall
  <1>9. ASSUME mode'[t] = "open", session'[t] # 0 PROVE TokenKept(t)'
    <2>1. /\ c.got \in Nat /\ c.since \in Nat /\ c.got > c.since + Buffer
          /\ now <= c.since + Delay
      BY <1>0, <1>2, <1>5, <1>9, Times
         DEF PollInv, TimeInv, RepliesFresh, CallTimes
    <2>2. due[t] <= now + Poll
      BY <1>7 DEF TimerRuns
    <2>3. c.got + Poll + Delay > due[t] + Buffer
      BY <1>0, <2>1, <2>2, Times
    <2>4. QED BY <1>5, <2>3 DEF TokenKept
  <1>10. mode'[t] # "closed"
    BY <1>4, <1>5
  <1>11. NeverReloads(t)'
    BY <1>5, <1>6, <1>7 DEF NeverReloads
  <1>12. BearerYoung(t)' <=> BearerYoung(t)
    BY <1>5 DEF BearerYoung
  <1>13. TabInv(t)'
    BY <1>0, <1>5, <1>8, <1>9, <1>10, <1>11, <1>12 DEF TabInv
  <1>14. QED BY <1>0, <1>3, <1>5, <1>13, OneTabSteps

LEMMA SendPoll ==
    ASSUME PollInv, NEW t \in Tab, Send(t) \/ Answer(t)
    PROVE  \A u \in Tab : TabInv(u)'
  <1>0. TypeOK /\ TabInv(t) /\ \A u \in Tab : TabInv(u)
    BY DEF PollInv, TimeInv
  <1>1. UNCHANGED <<now, mode, session, currentToken, due, call>>
    BY DEF Send, Answer
  <1>2. PICK r : req' = [req EXCEPT ![t] = r]
                 /\ \/ r = Idle
                    \/ r = Sent(currentToken[t], FALSE) /\ mode[t] = "open"
    BY DEF Send, Answer
  <1>3. req'[t] = r /\ \A u \in Tab : u # t => req'[u] = req[u]
    BY <1>0, <1>2 DEF TypeOK
  <1>4. currentToken[t] = session[t]
    BY <1>0 DEF TabInv, NeverReloads
  <1>5. req'[t].st # "reload"
        /\ (req'[t].st = "sent" => BearerYoung(t)')
    <2>1. CASE r = Idle
      BY <1>3, <2>1 DEF Idle
    <2>2. CASE r = Sent(currentToken[t], FALSE) /\ mode[t] = "open"
      <3>1. r.st = "sent" /\ r.bearer = session[t] /\ r.at = now
        BY <1>4, <2>2 DEF Sent
      <3>2. session[t] # 0 => now + Buffer < session[t] + Poll + 2 * Delay
        BY <2>2, KeptYoung
      <3>3. QED BY <1>3, <3>1, <3>2 DEF BearerYoung
    <2>3. QED BY <1>2, <2>1, <2>2
  <1>6. /\ TimerRuns(t)' <=> TimerRuns(t)
        /\ Rests(t)' <=> Rests(t)
        /\ TokenKept(t)' <=> TokenKept(t)
    BY <1>1 DEF TimerRuns, Rests, TokenKept
  <1>7. NeverReloads(t)'
    BY <1>0, <1>1, <1>5 DEF TabInv, NeverReloads
  <1>8. TabInv(t)'
    BY <1>0, <1>1, <1>5, <1>6, <1>7 DEF TabInv
  <1>9. QED BY <1>0, <1>1, <1>3, <1>8, OneTabSteps

(* No request is rejected that had a token.                                  *)
LEMMA BearersAccepted ==
    ASSUME PollFits, PollInv, NEW t \in Tab, req[t].st = "sent",
           req[t].bearer # 0
    PROVE  Accepted(req[t].bearer)
  <1>1. /\ BearerYoung(t) /\ now <= req[t].at + Delay /\ TypeOK
    BY DEF PollInv, TabInv, TimeInv, ReqTimes
  <1>2. req[t].at + Delay <= req[t].bearer + Leeway
    BY <1>1, Times DEF BearerYoung, PollFits
  <1>3. now <= req[t].bearer + Leeway
    BY <1>1, <1>2, Times
  <1>4. QED BY <1>3 DEF Accepted

LEMMA LeavePoll ==
    ASSUME PollInv, NEW t \in Tab, SignOut(t) \/ Leave(t)
    PROVE  \A u \in Tab : TabInv(u)'
  <1>0. TypeOK /\ TabInv(t) /\ \A u \in Tab : TabInv(u)
    BY DEF PollInv, TimeInv
  <1>1. CASE SignOut(t)
    <2>1. /\ mode[t] = "open" /\ mode'[t] = "leaving"
          /\ \A u \in Tab : u # t => mode'[u] = mode[u]
          /\ UNCHANGED <<now, session, currentToken, due, call, req>>
      BY <1>0, <1>1 DEF SignOut, TypeOK
    <2>2. TabInv(t)'
      BY <1>0, <2>1 DEF TabInv, TimerRuns, NeverReloads, BearerYoung
    <2>3. QED BY <1>0, <2>1, <2>2, OneTabSteps
  <1>2. CASE Leave(t)
    <2>1. /\ mode'[t] = "closed" /\ session'[t] = 0 /\ currentToken'[t] = 0
          /\ req'[t] = Idle
          /\ \A u \in Tab : u # t =>
                /\ mode'[u] = mode[u] /\ session'[u] = session[u]
                /\ currentToken'[u] = currentToken[u] /\ req'[u] = req[u]
          /\ UNCHANGED <<now, due>>
      BY <1>0, <1>2 DEF Leave, TypeOK
    <2>2. \A u \in Tab, j \in Slot :
             call'[<<u, j>>] = IF u = t THEN NoCall ELSE call[<<u, j>>]
      BY <1>2 DEF Leave
    <2>3. Rests(t)' /\ NeverReloads(t)'
      BY <2>1, <2>2 DEF Rests, NeverReloads, NoCall, Idle, Slot
    <2>4. TabInv(t)'
      BY <2>1, <2>3 DEF TabInv, Idle
    <2>5. QED BY <1>0, <2>1, <2>2, <2>4, OneTabSteps
  <1>3. QED BY <1>1, <1>2

LEMMA PollStep == PollFits /\ PollInv /\ [Next]_vars => PollInv'
  <1> SUFFICES ASSUME PollFits, PollInv, [Next]_vars PROVE PollInv'
    OBVIOUS
  <1>0. TimeInv /\ TimeInv' /\ TypeOK'
    BY TimeStep DEF PollInv, TimeInv
  <1> SUFFICES \A u \in Tab : TabInv(u)'
    BY <1>0 DEF PollInv
  <1>1. CASE SignIn \/ Refusing \/ UNCHANGED vars
    <2>1. UNCHANGED <<now, mode, session, currentToken, due, call, req>>
      BY <1>1 DEF SignIn, Refusing, vars
    <2>2. QED BY <2>1, OtherTab DEF PollInv
  <1>2. CASE Tick
    BY <1>0, <1>2, TickPoll
  <1>3. ASSUME NEW t \in Tab, TabNext(t) PROVE \A u \in Tab : TabInv(u)'
    <2>1. CASE Open(t) \/ TimerFires(t) \/ Focus(t)
      BY <2>1, OpenPoll, TimerPoll, FocusPoll
    <2>2. CASE \E k \in Slot : Serve(t, k) \/ CallFails(t, k) \/ Arrive(t, k)
      BY <2>2, ServePoll, ArrivePoll
    <2>3. CASE Send(t) \/ Answer(t)
      BY <2>3, SendPoll
    <2>4. CASE Unauthorized(t)
      <3>1. /\ req[t].st = "sent" /\ req[t].bearer # 0
            /\ ~Accepted(req[t].bearer)
        BY <2>4 DEF Unauthorized, ShouldReload
      <3>2. QED BY <3>1, BearersAccepted
    <2>5. CASE Reloaded(t)
      BY <2>5 DEF Reloaded, PollInv, TabInv, NeverReloads
    <2>6. CASE SignOut(t) \/ Leave(t)
      BY <2>6, LeavePoll
    <2>7. QED BY <1>3, <2>1, <2>2, <2>3, <2>4, <2>5, <2>6 DEF TabNext
  <1>4. QED BY <1>1, <1>2, <1>3 DEF Next

LEMMA PollAlways == PollFits => (Spec => []PollInv)
  <1> SUFFICES ASSUME PollFits PROVE Spec => []PollInv
    OBVIOUS
  <1>1. PollInv /\ [Next]_vars => PollInv'
    BY PollStep
  <1>2. QED BY InitPoll, <1>1, PTL DEF Spec

(* CallsAccepted is an invariant when the time from one firing of the timer  *)
(* to the answer of the next, and a request after it, fit in the buffer and  *)
(* the leeway: for any number of tabs that renew, sign in and sign out       *)
(* beside each other, and whatever the order their answers come in.         *)
THEOREM CallsAreAccepted == PollFits => (Spec => []CallsAccepted)
  <1> SUFFICES ASSUME PollFits PROVE Spec => []CallsAccepted
    OBVIOUS
  <1>1. PollInv => CallsAccepted
    BY BearersAccepted DEF CallsAccepted
  <1>2. Spec => []PollInv
    BY PollAlways
  <1>3. QED BY <1>1, <1>2, PTL

(* What holds of the claim that no stale token is sent (NoStaleBearer, which *)
(* the code does not keep): a token sent has expired for less than Poll and  *)
(* two calls, less Buffer, whether or not Keycloak renews.                   *)
StaleBriefly ==
    \A t \in Tab :
        req[t].st = "sent" /\ req[t].bearer # 0
            => req[t].at + Buffer < req[t].bearer + Poll + 2 * Delay

(* StaleBriefly is an invariant under the same condition: where calls take   *)
(* no time, no token is sent that expired Poll - Buffer ago or longer.       *)
THEOREM StaleTokensAreYoung == PollFits => (Spec => []StaleBriefly)
  <1> SUFFICES ASSUME PollFits PROVE Spec => []StaleBriefly
    OBVIOUS
  <1>1. PollInv => StaleBriefly
    BY DEF PollInv, TabInv, BearerYoung, StaleBriefly
  <1>2. Spec => []PollInv
    BY PollAlways
  <1>3. QED BY <1>1, <1>2, PTL
=============================================================================
