------------------------------- MODULE Session -------------------------------
(***************************************************************************)
(* One browser's session: access tokens that expire, the session cookie     *)
(* that all tabs share, the tabs that renew it, and the API calls that      *)
(* carry a token.                                                           *)
(*                                                                         *)
(* /api/auth/session runs the jwt callback of lib/auth-options.ts over the  *)
(* cookie of the request and puts the result in the cookie of the answer.   *)
(* SessionProvider asks for it when a tab opens, every Poll and on focus;   *)
(* AuthSync copies the token of a new session to currentToken (lib/api.ts). *)
(* request() sends currentToken, and after a 401 reloads the session and    *)
(* tries once more.                                                         *)
(*                                                                         *)
(* A token is the time at which it expires; 0 is no token.                  *)
(***************************************************************************)
EXTENDS Naturals

CONSTANTS Tab,
          Looked,   \* bound: tabs that ask again outside their timer
          Life,     \* how long Keycloak makes a token last
          Buffer,   \* bufferSeconds: renew so long before the end
          Leeway,   \* how long after its end the server accepts a token
          Poll,     \* refetchInterval
          Delay,    \* bound: how long a call takes
          MaxTime   \* bound on the clock

ASSUME TimesAssumption ==
    /\ {Life, Buffer, Leeway, Poll, Delay, MaxTime} \subseteq Nat
    /\ Buffer < Life
    /\ Delay < Poll
    /\ Looked \subseteq Tab

Slot == {"poll", "focus", "reload"}
Token == Nat

VARIABLES
    now,           \* the time
    refusing,      \* Keycloak renews nothing: down, or the login has ended
    cookie,        \* the token in the session cookie
    mode,          \* each tab: closed, open, or signing out
    session,       \* the token of the session that useSession() returns
    currentToken,  \* the token that calls are made with
    due,           \* when the timer of SessionProvider fires next
    call,          \* the session call in each slot of a tab
    req,           \* the API request of a tab
    refused,       \* history: Keycloak has refused a renewal
    failed,        \* history: the call that reloads a session has failed
    left           \* history: the user has signed out

history == <<refused, failed, left>>
vars == <<now, refusing, cookie, mode, session, currentToken, due, call, req,
          history>>

NoCall == [st |-> "none", had |-> 0, since |-> 0, got |-> 0, err |-> FALSE]
Idle == [st |-> "idle", bearer |-> 0, at |-> 0, again |-> FALSE]

Calls == [st : {"none", "asked", "served"}, had : Token, since : Nat,
          got : Token, err : BOOLEAN]
Requests == [st : {"idle", "sent", "reload"}, bearer : Token, at : Nat,
             again : BOOLEAN]

TypeOK ==
    /\ now \in Nat
    /\ refusing \in BOOLEAN
    /\ cookie \in Token
    /\ mode \in [Tab -> {"closed", "open", "leaving"}]
    /\ session \in [Tab -> Token]
    /\ currentToken \in [Tab -> Token]
    /\ due \in [Tab -> Nat]
    /\ call \in [Tab \X Slot -> Calls]
    /\ req \in [Tab -> Requests]
    /\ refused \in BOOLEAN
    /\ failed \in BOOLEAN
    /\ left \in BOOLEAN

Init ==
    /\ now = 0
    /\ refusing = FALSE
    /\ cookie = 0
    /\ mode = [t \in Tab |-> "closed"]
    /\ session = [t \in Tab |-> 0]
    /\ currentToken = [t \in Tab |-> 0]
    /\ due = [t \in Tab |-> 0]
    /\ call = [c \in Tab \X Slot |-> NoCall]
    /\ req = [t \in Tab |-> Idle]
    /\ refused = FALSE
    /\ failed = FALSE
    /\ left = FALSE
-----------------------------------------------------------------------------
(* Keycloak and the clock.                                                  *)

\* The OIDC login: the jwt callback keeps the tokens of the new account.
SignIn ==
    /\ cookie = 0
    /\ ~refusing
    /\ cookie' = now + Life
    /\ UNCHANGED <<now, refusing, mode, session, currentToken, due, call, req,
                   history>>

Refusing ==
    /\ refusing' = ~refusing
    /\ UNCHANGED <<now, cookie, mode, session, currentToken, due, call, req,
                   history>>

\* No call takes longer than Delay, and timers fire on time.
Tick ==
    /\ now < MaxTime
    /\ \A t \in Tab :
          /\ mode[t] # "closed" => now < due[t]
          /\ req[t].st = "sent" => now < req[t].at + Delay
          /\ \A k \in Slot :
                call[<<t, k>>].st # "none"
                    => now < call[<<t, k>>].since + Delay
    /\ now' = now + 1
    /\ UNCHANGED <<refusing, cookie, mode, session, currentToken, due, call,
                   req, history>>
-----------------------------------------------------------------------------
(* Session calls.                                                           *)

Asked(had) ==
    [st |-> "asked", had |-> had, since |-> now, got |-> 0, err |-> FALSE]

Ask(t, k) == call' = [call EXCEPT ![<<t, k>>] = Asked(cookie)]

\* SessionProvider mounts, asks for the session and starts its timer.
Open(t) ==
    /\ mode[t] = "closed"
    /\ mode' = [mode EXCEPT ![t] = "open"]
    /\ due' = [due EXCEPT ![t] = now + Poll]
    /\ Ask(t, "focus")
    /\ UNCHANGED <<now, refusing, cookie, session, currentToken, req, history>>

\* The timer asks only where there is a session to keep.
TimerFires(t) ==
    /\ mode[t] # "closed"
    /\ now = due[t]
    /\ call[<<t, "poll">>].st = "none"
    /\ due' = [due EXCEPT ![t] = now + Poll]
    /\ IF session[t] # 0 THEN Ask(t, "poll") ELSE UNCHANGED call
    /\ UNCHANGED <<now, refusing, cookie, mode, session, currentToken, req,
                   history>>

\* The tab is looked at again, or another tab says that the session changed.
Focus(t) ==
    /\ t \in Looked
    /\ mode[t] # "closed"
    /\ call[<<t, "focus">>].st = "none"
    /\ Ask(t, "focus")
    /\ UNCHANGED <<now, refusing, cookie, mode, session, currentToken, due,
                   req, history>>

\* Faulty: no buffer.  Faulty: expiresAt is not kept.
NoBuffer(tok) == now >= tok
NeverExpired(tok) == FALSE
\* now >= expiresAt - bufferSeconds
IsExpired(tok) == now + Buffer >= tok

Served(c, tok, err) ==
    [st |-> "served", had |-> 0, since |-> c.since, got |-> tok, err |-> err]

Reply(t, k, tok, err) ==
    call' = [call EXCEPT ![<<t, k>>] = Served(call[<<t, k>>], tok, err)]

\* The jwt callback: keep the token, renew it, or report that it cannot.
Serve(t, k) ==
    LET had == call[<<t, k>>].had IN
    /\ call[<<t, k>>].st = "asked"
    /\ \/ /\ had = 0 \/ ~IsExpired(had)
          /\ Reply(t, k, had, FALSE)
          /\ UNCHANGED refused
       \/ /\ had # 0 /\ IsExpired(had) /\ ~refusing
          /\ Reply(t, k, now + Life, FALSE)
          /\ UNCHANGED refused
       \/ /\ had # 0 /\ IsExpired(had) /\ refusing
          /\ Reply(t, k, had, TRUE)
          /\ refused' = TRUE
    /\ UNCHANGED <<now, refusing, cookie, mode, session, currentToken, due,
                   req, failed, left>>

\* The call fails, on its way or on its way back: fetchData() logs the error
\* and answers null, which is no session, and no cookie is set.
CallFails(t, k) ==
    /\ call[<<t, k>>].st = "asked"
    /\ Reply(t, k, 0, FALSE)
    /\ failed' = (failed \/ k = "reload")
    /\ UNCHANGED <<now, refusing, cookie, mode, session, currentToken, due,
                   req, refused, left>>

\* An answer without a session leaves the cookie alone.
SetCookie(tok) == cookie' = IF tok = 0 THEN cookie ELSE tok

\* AuthSync acts when the token of the session is another one, or an error.
Arrive(t, k) ==
    LET c == call[<<t, k>>] IN
    /\ k # "reload"
    /\ c.st = "served"
    /\ SetCookie(c.got)
    /\ session' = [session EXCEPT ![t] = c.got]
    /\ currentToken' = [currentToken EXCEPT
                          ![t] = IF c.got = session[t] THEN @ ELSE c.got]
    /\ mode' = [mode EXCEPT ![t] = IF c.err THEN "leaving" ELSE @]
    /\ call' = [call EXCEPT ![<<t, k>>] = NoCall]
    /\ UNCHANGED <<now, refusing, due, req, history>>
-----------------------------------------------------------------------------
(* API calls.                                                               *)

Sent(tok, again) ==
    [st |-> "sent", bearer |-> tok, at |-> now, again |-> again]

Send(t) ==
    /\ mode[t] = "open"
    /\ req[t].st = "idle"
    /\ req' = [req EXCEPT ![t] = Sent(currentToken[t], FALSE)]
    /\ UNCHANGED <<now, refusing, cookie, mode, session, currentToken, due,
                   call, history>>

\* validate_bearer_token, as far as time matters.
Accepted(tok) == tok # 0 /\ now <= tok + Leeway

Reloading(r) ==
    [st |-> "reload", bearer |-> r.bearer, at |-> r.at, again |-> FALSE]

\* shouldRetryUnauthorizedAfterReload.  Faulty: without bearerWasSent.
AlsoWithoutBearer(r) == ~Accepted(r.bearer) /\ ~r.again
ShouldReload(r) == ~Accepted(r.bearer) /\ r.bearer # 0 /\ ~r.again

Answer(t) ==
    /\ req[t].st = "sent"
    /\ ~ShouldReload(req[t])
    /\ req' = [req EXCEPT ![t] = Idle]
    /\ UNCHANGED <<now, refusing, cookie, mode, session, currentToken, due,
                   call, history>>

\* 401: reloadSessionAccessToken asks for the session.
Unauthorized(t) ==
    /\ req[t].st = "sent"
    /\ ShouldReload(req[t])
    /\ req' = [req EXCEPT ![t] = Reloading(req[t])]
    /\ Ask(t, "reload")
    /\ UNCHANGED <<now, refusing, cookie, mode, session, currentToken, due,
                   history>>

\* The reloaded token is set and the request made again, or the tab signs out.
Reloaded(t) ==
    LET c == call[<<t, "reload">>] IN
    /\ req[t].st = "reload"
    /\ c.st = "served"
    /\ SetCookie(c.got)
    /\ currentToken' = [currentToken EXCEPT
                          ![t] = IF c.got = 0 THEN @ ELSE c.got]
    /\ call' = [call EXCEPT ![<<t, "reload">>] = NoCall]
    /\ \/ /\ c.err \/ c.got = 0
          /\ mode' = [mode EXCEPT ![t] = "leaving"]
          /\ req' = [req EXCEPT ![t] = Idle]
       \/ /\ ~c.err /\ c.got # 0
          /\ req' = [req EXCEPT ![t] = Sent(c.got, TRUE)]
          /\ UNCHANGED mode
    /\ UNCHANGED <<now, refusing, session, due, history>>
-----------------------------------------------------------------------------
(* Signing out.                                                             *)

\* The user menu.
SignOut(t) ==
    /\ mode[t] = "open"
    /\ session[t] # 0
    /\ mode' = [mode EXCEPT ![t] = "leaving"]
    /\ left' = TRUE
    /\ UNCHANGED <<now, refusing, cookie, session, currentToken, due, call,
                   req, refused, failed>>

\* signOut() has cleared the cookie and loads another page.
Leave(t) ==
    /\ mode[t] = "leaving"
    /\ cookie' = 0
    /\ mode' = [mode EXCEPT ![t] = "closed"]
    /\ session' = [session EXCEPT ![t] = 0]
    /\ currentToken' = [currentToken EXCEPT ![t] = 0]
    /\ call' = [c \in Tab \X Slot |-> IF c[1] = t THEN NoCall ELSE call[c]]
    /\ req' = [req EXCEPT ![t] = Idle]
    /\ UNCHANGED <<now, refusing, due, history>>

TabNext(t) ==
    \/ Open(t) \/ TimerFires(t) \/ Focus(t)
    \/ \E k \in Slot : Serve(t, k) \/ CallFails(t, k) \/ Arrive(t, k)
    \/ Send(t) \/ Answer(t) \/ Unauthorized(t) \/ Reloaded(t)
    \/ SignOut(t) \/ Leave(t)

Next == SignIn \/ Refusing \/ Tick \/ \E t \in Tab : TabNext(t)

Spec == Init /\ [][Next]_vars
-----------------------------------------------------------------------------
(* Properties. *)

\* The token that request() sends after it has reloaded the session is one
\* that the server still accepts, for as long as the call may take: the one
\* retry after a 401 is enough (shouldRetryUnauthorizedAfterReload allows no
\* second one).
RetryAccepted ==
    \A t \in Tab :
        req[t].st = "sent" /\ req[t].again => Accepted(req[t].bearer)

\* A tab that is not signing out makes no call that the server rejects for
\* its age: the timer, the buffer of the jwt callback and the leeway of the
\* server fit together, whatever order the answers of session calls arrive in.
CallsAccepted ==
    \A t \in Tab :
        mode[t] = "open" /\ req[t].st = "sent" /\ req[t].bearer # 0
            => Accepted(req[t].bearer)

\* No tab signs out of its own accord unless Keycloak refused a renewal, the
\* call that reloads a session after a 401 failed (api.ts:301 takes a failure
\* for the end of the session), or the user signed out somewhere: lost races
\* between tabs, late cookies, rejected tokens and the failing calls of the
\* timer never cost the user the session.
SignOutHasCause ==
    \A t \in Tab : mode[t] = "leaving" => refused \/ failed \/ left

\* "so the JWT callback can refresh tokens before stale Bearer calls"
\* (components/Providers.tsx): no call leaves an open tab with a token that
\* has expired, as long as Keycloak renews.
NoStaleBearer ==
    \A t \in Tab :
        mode[t] = "open" /\ req[t].st = "sent" /\ req[t].bearer # 0 /\ ~refused
            => req[t].at < req[t].bearer
=============================================================================
