------------------------------ MODULE ApiSession ------------------------------
(***************************************************************************)
(* The session of the frontend: the tokens in the auth store, the calls    *)
(* that carry them, and the refresh that calls share when they are         *)
(* answered 401.  The login is a call as well: it passes through the same  *)
(* interceptors, and its page is open to a user who is signed in.          *)
(* JavaScript runs one handler at a time; what interleaves is the arrival  *)
(* of answers, the user's sign-in and sign-out, the expiry of tokens and a *)
(* reload of the page.                                                     *)
(*                                                                         *)
(* The server keeps no session: a token is good until it expires, tokens   *)
(* of a kind expire in the order of their issue, and any request may be    *)
(* answered with another error instead (429, 5xx) or not be answered       *)
(* (which axios reports as an error).                                      *)
(***************************************************************************)
EXTENDS Naturals

CONSTANTS
  Calls,
  Users,
  None,
  MaxTokens,    \* bound: pairs of tokens the server issues
  MaxRefusals,  \* bound: refresh tokens that expire
  MaxReloads    \* bound: reloads of the page

ASSUME SessionAssumption ==
  /\ {MaxTokens, MaxRefusals, MaxReloads} \subseteq Nat
  /\ None \notin Users /\ None \notin Calls /\ None \notin [user : Users, n : 1 .. MaxTokens]

VARIABLES
  session,    \* the auth store: an access token and a refresh token, or None
  user,       \* history: who signed in last, or None when the session was cleared since
  call,       \* call[c]: a request and its interceptor (tries = 2: sent once more)
  refreshing, \* the call that has created the shared promise, or None
  post,       \* post[c]: the refresh token of a refresh request in flight, or None
  reply,      \* reply[c]: a pair of tokens on its way, to the login c or the refresh of c
  issued,     \* pairs of tokens issued so far
  expired,    \* access tokens up to this one have expired
  refused,    \* so have refresh tokens up to this one
  reloads,
  crossed     \* history: a session has begun or ended while other calls were in flight

requests == <<call, refreshing, post, reply>>
server == <<issued, expired, refused>>
vars == <<session, user, requests, server, reloads, crossed>>

\* The n-th pair of tokens is for a user.
Token == [user : Users, n : 1 .. MaxTokens]

Call == [phase : {"idle", "sent", "waiting"},
         as : Users \cup {None},      \* whose credentials a login sends
         first : Token \cup {None},   \* the token it was sent with at first
         token : Token \cup {None},   \* the one it was last sent with
         tries : 0 .. 2,
         awaits : Calls \cup {None}]  \* whose refresh it waits for

Idle == [phase |-> "idle", as |-> None, first |-> None, token |-> None, tries |-> 0, awaits |-> None]
SignedOut == [access |-> None, refresh |-> None]

Issue(u) == [user |-> u, n |-> issued + 1]

InFlight == {c \in Calls : call[c].phase # "idle" \/ refreshing = c}

\* The interceptor attaches the token in the store, if there is one.
Sent(u) == [phase |-> "sent", as |-> u, first |-> session.access, token |-> session.access,
             tries |-> 1, awaits |-> None]

\* clear(), with calls `left` in flight.
Clear(left) ==
  /\ session' = SignedOut
  /\ user' = None
  /\ crossed' = (crossed \/ left # {})

-----------------------------------------------------------------------------
(* Calls                                                                   *)

\* A component calls the API.
Send(c) ==
  /\ call[c].phase = "idle"
  /\ session.access # None
  /\ call' = [call EXCEPT ![c] = Sent(None)]
  /\ UNCHANGED <<session, user, refreshing, post, reply, server, reloads, crossed>>

\* LoginPage.submit, whoever is signed in.
SendLogin(c, u) ==
  /\ call[c].phase = "idle"
  /\ call' = [call EXCEPT ![c] = Sent(u)]
  /\ UNCHANGED <<session, user, refreshing, post, reply, server, reloads, crossed>>

\* The server issues the first pair of a session.
ServeLogin(c) ==
  /\ call[c].phase = "sent" /\ call[c].as # None /\ reply[c] = None
  /\ issued < MaxTokens
  /\ reply' = [reply EXCEPT ![c] = Issue(call[c].as)]
  /\ issued' = issued + 1
  /\ UNCHANGED <<session, user, call, refreshing, post, expired, refused, reloads, crossed>>

\* It arrives: setTokens, whatever is in the store.
SignIn(c) ==
  /\ call[c].phase = "sent" /\ reply[c] # None
  /\ session' = [access |-> reply[c], refresh |-> reply[c]]
  /\ user' = reply[c].user
  /\ crossed' = (crossed \/ InFlight \ {c} # {})
  /\ call' = [call EXCEPT ![c] = Idle]
  /\ reply' = [reply EXCEPT ![c] = None]
  /\ UNCHANGED <<refreshing, post, server, reloads>>

\* The answer is a success, or an error other than 401, or there is none: the
\* caller has it.  (A login that succeeds is SignIn.)
Settle(c) ==
  /\ call[c].phase = "sent"
  /\ call' = [call EXCEPT ![c] = Idle]
  /\ reply' = [reply EXCEPT ![c] = None]
  /\ UNCHANGED <<session, user, refreshing, post, server, reloads, crossed>>

\* A token that has expired, or wrong credentials.
Refuses(c) ==
  /\ call[c].phase = "sent" /\ reply[c] = None
  /\ call[c].as = None => call[c].token.n <= expired

\* Mutation of Unauthorized: every call starts a refresh of its own.
UnauthorizedAlone(c) ==
  /\ Refuses(c)
  /\ IF session.refresh # None /\ call[c].tries = 1
     THEN /\ call' = [call EXCEPT ![c] = [@ EXCEPT !.phase = "waiting", !.awaits = c]]
          /\ post' = [post EXCEPT ![c] = session.refresh]
          /\ refreshing' = c
     ELSE /\ call' = [call EXCEPT ![c] = Idle]
          /\ UNCHANGED <<refreshing, post>>
  /\ UNCHANGED <<session, user, reply, server, reloads, crossed>>

\* The answer is 401: the response interceptor waits for the refresh under
\* way, or starts one; a call that was sent again, or that finds no refresh
\* token, is rejected.
Unauthorized(c) ==
  /\ Refuses(c)
  /\ IF session.refresh # None /\ call[c].tries = 1
     THEN LET starter == IF refreshing = None THEN c ELSE refreshing
          IN  /\ call' = [call EXCEPT ![c] = [@ EXCEPT !.phase = "waiting", !.awaits = starter]]
              /\ refreshing' = starter
              /\ post' = IF refreshing = None THEN [post EXCEPT ![c] = session.refresh] ELSE post
     ELSE /\ call' = [call EXCEPT ![c] = Idle]
          /\ UNCHANGED <<refreshing, post>>
  /\ UNCHANGED <<session, user, reply, server, reloads, crossed>>

-----------------------------------------------------------------------------
(* The refresh                                                             *)

\* The server issues the next pair.
ServeRefresh(p) ==
  /\ post[p] # None /\ reply[p] = None
  /\ post[p].n > refused
  /\ issued < MaxTokens
  /\ reply' = [reply EXCEPT ![p] = Issue(post[p].user)]
  /\ issued' = issued + 1
  /\ UNCHANGED <<session, user, call, refreshing, post, expired, refused, reloads, crossed>>

\* The promise of p resolves: setTokens, whatever is in the store, and the calls
\* that waited are sent again with `token[c]`.
Resolve(p, token) ==
  /\ post[p] # None /\ reply[p] # None
  /\ session' = [access |-> reply[p], refresh |-> reply[p]]
  /\ call' = [c \in Calls |-> IF call[c].awaits # p THEN call[c]
                              ELSE [call[c] EXCEPT !.phase = "sent", !.token = token[c],
                                                   !.tries = @ + 1, !.awaits = None]]
  /\ refreshing' = None
  /\ post' = [post EXCEPT ![p] = None]
  /\ reply' = [reply EXCEPT ![p] = None]
  /\ UNCHANGED <<user, server, reloads, crossed>>

\* Mutation of Refreshed: the calls that waited are sent as they were.
RefreshedStale(p) == Resolve(p, [c \in Calls |-> call[c].token])

Refreshed(p) == Resolve(p, [c \in Calls |-> reply[p]])

\* The promise of p resolves to null and the calls that waited are rejected.
Reject(p) ==
  /\ Clear({c \in InFlight : call[c].awaits # p})
  /\ call' = [c \in Calls |-> IF call[c].awaits = p THEN Idle ELSE call[c]]
  /\ refreshing' = None

\* Mutation of RefreshFails: the shared promise is not reset.
RefreshFailsPending(p) ==
  /\ post[p] # None
  /\ Clear({c \in InFlight : call[c].awaits # p})
  /\ call' = [c \in Calls |-> IF call[c].awaits = p THEN Idle ELSE call[c]]
  /\ post' = [post EXCEPT ![p] = None]
  /\ reply' = [reply EXCEPT ![p] = None]
  /\ UNCHANGED <<refreshing, server, reloads>>

\* Mutation of RefreshFails: the calls that wait are not told.
RefreshFailsSilent(p) ==
  /\ post[p] # None
  /\ Clear(InFlight)
  /\ refreshing' = None
  /\ post' = [post EXCEPT ![p] = None]
  /\ reply' = [reply EXCEPT ![p] = None]
  /\ UNCHANGED <<call, server, reloads>>

\* The answer is an error other than 401, of the rate limiter for instance, or
\* there is none.
RefreshFails(p) ==
  /\ post[p] # None
  /\ Reject(p)
  /\ post' = [post EXCEPT ![p] = None]
  /\ reply' = [reply EXCEPT ![p] = None]
  /\ UNCHANGED <<server, reloads>>

\* The answer is 401, which passes through the response interceptor as well:
\* it finds a refresh token and waits for the refresh under way, its own.
\* Only if the user has signed out meanwhile is the request rejected.
RefreshRefused(p) ==
  /\ post[p] # None /\ reply[p] = None
  /\ post[p].n <= refused
  /\ post' = [post EXCEPT ![p] = None]
  /\ IF session.refresh # None
     THEN UNCHANGED <<session, user, call, refreshing, crossed>>
     ELSE Reject(p)
  /\ UNCHANGED <<reply, server, reloads>>

-----------------------------------------------------------------------------
(* The user and the world                                                  *)

\* Mutation of SignOut: the refresh token stays.
SignOutKeeping ==
  /\ session.access # None
  /\ session' = [session EXCEPT !.access = None]
  /\ user' = None
  /\ crossed' = (crossed \/ InFlight # {})
  /\ UNCHANGED <<requests, server, reloads>>

\* The button in Shell.  Calls in flight are not aborted.
SignOut ==
  /\ session.access # None
  /\ Clear(InFlight)
  /\ UNCHANGED <<requests, server, reloads>>

\* The page is reloaded: the store is persisted, all else is gone.
Reload ==
  /\ reloads < MaxReloads
  /\ reloads' = reloads + 1
  /\ call' = [c \in Calls |-> Idle]
  /\ refreshing' = None
  /\ post' = [c \in Calls |-> None]
  /\ reply' = [c \in Calls |-> None]
  /\ UNCHANGED <<session, user, server, crossed>>

\* An access token expires, or a refresh token, which lives longer.
Expire ==
  \/ /\ expired < issued
     /\ expired' = expired + 1
     /\ UNCHANGED <<session, user, requests, issued, refused, reloads, crossed>>
  \/ /\ refused < expired
     /\ refused < MaxRefusals
     /\ refused' = refused + 1
     /\ UNCHANGED <<session, user, requests, issued, expired, reloads, crossed>>

-----------------------------------------------------------------------------
(* The specification                                                       *)

Init ==
  /\ session = SignedOut
  /\ user = None
  /\ call = [c \in Calls |-> Idle]
  /\ refreshing = None
  /\ post = [c \in Calls |-> None]
  /\ reply = [c \in Calls |-> None]
  /\ issued = 0 /\ expired = 0 /\ refused = 0 /\ reloads = 0
  /\ crossed = FALSE

\* A request in flight is answered, or axios gives up on it.
Answer(c) == SignIn(c) \/ Settle(c) \/ Unauthorized(c)
AnswerRefresh(p) == Refreshed(p) \/ RefreshFails(p) \/ RefreshRefused(p)

Next ==
  \/ \E c \in Calls : Send(c) \/ ServeLogin(c) \/ Answer(c) \/ ServeRefresh(c) \/ AnswerRefresh(c)
  \/ \E c \in Calls, u \in Users : SendLogin(c, u)
  \/ SignOut \/ Reload \/ Expire

Spec == Init /\ [][Next]_vars

Fairness == \A c \in Calls : WF_vars(Answer(c)) /\ WF_vars(AnswerRefresh(c))

FairSpec == Spec /\ Fairness

-----------------------------------------------------------------------------
(* Properties                                                              *)

\* Every variable has its type; a call waits for the refresh under way or for
\* none, and tokens are on their way to a refresh or a login alone.
TypeOK ==
  /\ session \in [access : Token \cup {None}, refresh : Token \cup {None}]
  /\ user \in Users \cup {None}
  /\ call \in [Calls -> Call]
  /\ refreshing \in Calls \cup {None}
  /\ post \in [Calls -> Token \cup {None}] /\ reply \in [Calls -> Token \cup {None}]
  /\ issued \in 0 .. MaxTokens /\ expired \in 0 .. issued /\ refused \in 0 .. expired
  /\ reloads \in Nat /\ crossed \in BOOLEAN
  /\ \A c \in Calls :
       /\ call[c].phase = "waiting" <=> call[c].awaits # None
       /\ call[c].awaits # None => call[c].awaits = refreshing
       /\ reply[c] # None => post[c] # None \/ (call[c].phase = "sent" /\ call[c].as # None)

\* client.ts:25 "attempt a single refresh": however many calls are answered 401
\* at a time, one refresh request is in flight.
SingleFlight == \A c, d \in Calls : post[c] # None /\ post[d] # None => c = d

\* "then retry": a call is sent twice at most, the second time with a token that
\* was issued after the first, to the same user, unless a session began or ended
\* with other calls in flight: a call of that session that is answered 401 is
\* sent again with the tokens of the next, or of a refresh that was under way.
RetryIsFresh ==
  \A c \in Calls : call[c].tries = 2 /\ ~crossed =>
    /\ call[c].first # None /\ call[c].token.n > call[c].first.n
    /\ call[c].token.user = call[c].first.user

\* The tokens in the store are those of whoever signed in last; when nobody is
\* signed in there are none.  (A refresh that is in flight when its user signs
\* out, or another signs in, may bring his tokens back.)
SessionIsCurrent ==
  ~crossed => /\ session.access # None => session.access.user = user
              /\ session.access = None => session.refresh = None
              /\ user = None <=> session.access = None

\* Every call is settled, as long as no refresh token expires: the refresh that
\* calls share ends, and leaves nobody waiting.
CallsSettle ==
  \A c \in Calls : call[c].phase # "idle" ~> (call[c].phase = "idle" \/ refused > 0)

\* client.ts:25 "otherwise clear the session": when the session's refresh token is
\* refused, the session is cleared.
RefusalClears ==
  \A c \in Calls :
    (post[c] # None /\ post[c] = session.refresh /\ post[c].n <= refused) ~> session = SignedOut
=============================================================================
