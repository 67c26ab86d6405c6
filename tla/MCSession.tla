----------------------------- MODULE MCSession -------------------------------
(***************************************************************************)
(* Who the user is, for TLC: Session in three sizes, and Keys.              *)
(*                                                                         *)
(* In one size of Session, calls take up to half the time between two       *)
(* firings of the timer, so that the server does reject tokens.  The others *)
(* have the times of the code, and calls that take none: two tabs that      *)
(* renew, or one that is also looked at.  Session abstracts from keys, and  *)
(* Keys from time, so a behaviour is of one size or of Keys, at, while the  *)
(* rest stays as it began.                                                  *)
(***************************************************************************)
EXTENDS Session, TLC

CONSTANTS Request, User, Email, None, MaxKeys  \* of Keys

VARIABLES
    at,  \* "slow", "prompt", "alone" or "keys"
    newest, account, token, jwks, fetch, request, users, heard

inKeys == <<newest, account, token, jwks, fetch, request, users, heard>>

Server == INSTANCE Keys

\* The times of the code, in units of 60 s and of 30 s.
Prompt == INSTANCE Session WITH
    Life <- 5, Buffer <- 1, Leeway <- 1, Poll <- 2, Delay <- 0, MaxTime <- 7
Alone == INSTANCE Session WITH
    Looked <- Tab,
    Life <- 10, Buffer <- 2, Leeway <- 2, Poll <- 4, Delay <- 0, MaxTime <- 13

\* One tab at a time.
OneIsOpen ==
    \A t, u \in Tab : mode[t] # "closed" /\ mode[u] # "closed" => t = u

\* Where Keys is not looked at, one of its initial states is enough.
MCInit ==
    /\ at \in {"slow", "prompt", "alone", "keys"}
    /\ Init /\ Server!Init
    /\ at # "keys" =>
          /\ jwks = {}
          /\ account = [u \in User |-> CHOOSE e \in Email : TRUE]

MCNext ==
    /\ \/ at = "slow" /\ Next /\ UNCHANGED inKeys
       \/ at = "prompt" /\ Prompt!Next /\ UNCHANGED inKeys
       \/ at = "alone" /\ Alone!Next /\ OneIsOpen' /\ UNCHANGED inKeys
       \/ at = "keys" /\ Server!Next /\ UNCHANGED vars
    /\ UNCHANGED at

MCSpec == MCInit /\ [][MCNext]_<<at, vars, inKeys>>

Symmetry == Permutations(Tab) \cup Permutations(Request)

\* CallsAccepted with the times of the code and calls that take none: the
\* timer, the buffer of the jwt callback and the leeway of the server leave no
\* gap, but not a second to spare either.
TimesFit ==
    /\ at = "prompt" => Prompt!CallsAccepted
    /\ at = "alone" => Alone!CallsAccepted

\* Those of Keys.
OutageKeepsSessions == Server!OutageKeepsSessions
SetBackOnce == Server!SetBackOnce
FreshKeysFit == Server!FreshKeysFit
=============================================================================
