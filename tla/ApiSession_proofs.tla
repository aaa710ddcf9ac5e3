-------------------------- MODULE ApiSession_proofs --------------------------
(***************************************************************************)
(* Theorems about ApiSession, for any calls, users, tokens and reloads.    *)
(***************************************************************************)
EXTENDS ApiSession, TLAPS

-----------------------------------------------------------------------------
(* The invariant                                                           *)

Typed ==
  /\ session \in [access : Token \cup {None}, refresh : Token \cup {None}]
  /\ user \in Users \cup {None}
  /\ call \in [Calls -> Call]
  /\ refreshing \in Calls \cup {None}
  /\ post \in [Calls -> Token \cup {None}] /\ reply \in [Calls -> Token \cup {None}]
  /\ issued \in 0 .. MaxTokens /\ expired \in 0 .. issued /\ refused \in 0 .. expired
  /\ reloads \in Nat /\ crossed \in BOOLEAN

\* A call waits for the refresh under way, and has been sent once by then; while
\* no session has begun or ended under it, it is the current user's, and no
\* newer than the session.
CallOK(c) ==
  /\ call[c].phase = "waiting" <=> call[c].awaits # None
  /\ call[c].awaits # None => call[c].awaits = refreshing /\ call[c].tries = 1
  /\ call[c].phase # "idle" /\ ~crossed =>
       /\ call[c].first = None => user = None
       /\ call[c].first # None =>
            call[c].first.user = user /\ session.access # None /\ call[c].first.n <= session.access.n
  /\ call[c].tries = 2 => call[c].phase # "idle"
  /\ call[c].tries = 2 /\ ~crossed =>
       /\ call[c].first # None /\ call[c].token \in Token
       /\ call[c].token.n > call[c].first.n /\ call[c].token.user = call[c].first.user

\* A refresh request in flight is the one the calls wait for, its own included;
\* what it brings is newer than the session.
PostOK(c) ==
  post[c] # None =>
    /\ refreshing = c /\ call[c].awaits = c
    /\ ~crossed => post[c].user = user
    /\ ~crossed /\ reply[c] # None =>
         reply[c].user = user /\ session.access # None /\ reply[c].n > session.access.n

\* Tokens on their way have been issued, to a refresh or a login.
ReplyOK(c) ==
  reply[c] # None =>
    /\ reply[c].n <= issued
    /\ post[c] # None \/ (call[c].phase = "sent" /\ call[c].as # None)

SessionOK ==
  /\ session.access # None => session.access.n <= issued
  /\ ~crossed =>
       /\ session.access # None => session.access.user = user
       /\ session.refresh # None => session.refresh.user = user
       /\ session.access = None => session.refresh = None
       /\ user = None <=> session.access = None

SessionInv ==
  /\ Typed /\ SessionOK
  /\ \A c \in Calls : CallOK(c) /\ PostOK(c) /\ ReplyOK(c)

LEMMA IdleIsCall == Idle \in Call
BY DEF Idle, Call

LEMMA InitInv ==
  ASSUME Init
  PROVE  SessionInv
<1>1. Typed
  <2>1. MaxTokens \in Nat
    BY SessionAssumption
  <2>2. issued \in 0 .. MaxTokens /\ expired \in 0 .. issued /\ refused \in 0 .. expired
    BY <2>1 DEF Init
  <2>3. session \in [access : Token \cup {None}, refresh : Token \cup {None}]
    BY DEF Init, SignedOut
  <2> QED BY <2>2, <2>3, IdleIsCall DEF Init, Typed
<1>2. SessionOK
  BY DEF Init, SessionOK, SignedOut
<1>3. ASSUME NEW c \in Calls PROVE CallOK(c) /\ PostOK(c) /\ ReplyOK(c)
  <2>1. call[c] = Idle /\ post[c] = None /\ reply[c] = None
    BY DEF Init
  <2> QED BY <2>1 DEF CallOK, PostOK, ReplyOK, Idle
<1> QED BY <1>1, <1>2, <1>3 DEF SessionInv

-----------------------------------------------------------------------------
(* What steps leave alone                                                  *)

\* A call that is idle again is in order, whatever else has changed.
LEMMA IdleOK ==
  ASSUME NEW c \in Calls, call'[c] = Idle
  PROVE  CallOK(c)'
BY DEF CallOK, Idle

\* The next pair of tokens.
LEMMA IssueOK ==
  ASSUME Typed, issued < MaxTokens, NEW u \in Users
  PROVE  Issue(u) \in Token /\ Issue(u) # None /\ Issue(u).n = issued + 1 /\ Issue(u).user = u
BY SessionAssumption DEF Typed, Issue, Token

\* One call is replaced.
LEMMA Replace ==
  ASSUME Typed, NEW c \in Calls, NEW v \in Call, call' = [call EXCEPT ![c] = v]
  PROVE  /\ call' \in [Calls -> Call] /\ call'[c] = v
         /\ \A d \in Calls \ {c} : call'[d] = call[d]
BY DEF Typed

\* A request in flight is no refresh as long as its call does not wait.
LEMMA SentHasNoPost ==
  ASSUME SessionInv, NEW c \in Calls, call[c].phase # "waiting"
  PROVE  post[c] = None
BY SessionAssumption DEF SessionInv, CallOK, PostOK

\* What the step of one call changes concerns that call alone.
LEMMA OthersOK ==
  ASSUME SessionInv, NEW c \in Calls, NEW d \in Calls,
         call'[d] = call[d], post'[d] = post[d], reply'[d] = reply[d],
         UNCHANGED <<session, user, refreshing, crossed>>, issued \in Nat, issued' \in Nat, issued <= issued'
  PROVE  CallOK(d)' /\ PostOK(d)' /\ ReplyOK(d)'
<1>1. reply[d] # None => reply[d].n \in Nat
  BY DEF SessionInv, Typed, Token
<1> QED BY <1>1 DEF SessionInv, CallOK, PostOK, ReplyOK

\* The calls that wait all wait for p.
LEMMA AllAwait ==
  ASSUME SessionInv, NEW p \in Calls, post[p] # None
  PROVE  /\ refreshing = p /\ call[p].awaits = p /\ call[p].phase = "waiting"
         /\ \A c \in Calls : call[c].awaits = p \/ (call[c].awaits = None /\ call[c].phase # "waiting")
         /\ \A c \in Calls : c # p => post[c] = None
BY SessionAssumption DEF SessionInv, CallOK, PostOK

-----------------------------------------------------------------------------
(* Calls                                                                   *)

\* A call or a login is sent.
LEMMA SentInv ==
  ASSUME SessionInv, NEW c \in Calls, NEW u \in Users \cup {None},
         call[c].phase = "idle", call' = [call EXCEPT ![c] = Sent(u)],
         UNCHANGED <<session, user, refreshing, post, reply, server, reloads, crossed>>
  PROVE  SessionInv'
<1>1. session.access \in Token \cup {None}
  BY DEF SessionInv, Typed
<1>2. /\ Sent(u) \in Call /\ Sent(u).first = session.access /\ Sent(u).tries = 1
      /\ Sent(u).awaits = None /\ Sent(u).phase = "sent"
  <2> DEFINE token == session.access
  <2>1. Sent(u) = [phase |-> "sent", as |-> u, first |-> token, token |-> token, tries |-> 1, awaits |-> None]
        /\ token \in Token \cup {None} /\ token = session.access
    BY <1>1 DEF Sent
  <2> HIDE DEF token
  <2>2. Sent(u) \in Call
    BY <2>1 DEF Call
  <2>3. Sent(u).first = token
    BY <2>1
  <2>4. Sent(u).tries = 1 /\ Sent(u).awaits = None /\ Sent(u).phase = "sent"
    BY <2>1
  <2> QED BY <2>1, <2>2, <2>3, <2>4
<1>3. /\ call' \in [Calls -> Call] /\ call'[c] = Sent(u)
      /\ \A d \in Calls \ {c} : call'[d] = call[d]
  BY <1>2, Replace DEF SessionInv
<1>4. Typed' /\ SessionOK'
  BY <1>3 DEF server, SessionInv, Typed, SessionOK
<1>5. ASSUME NEW d \in Calls PROVE CallOK(d)' /\ PostOK(d)' /\ ReplyOK(d)'
  <2>1. CASE d = c
    <3>1. CallOK(c)'
      <4>1. session.access # None => session.access.n \in Nat
        BY <1>1 DEF Token
      <4>2. ~crossed => /\ session.access = None => user = None
                        /\ session.access # None => session.access.user = user
        BY DEF SessionInv, SessionOK
      <4>3. /\ call'[c].first = session.access /\ call'[c].tries = 1
            /\ call'[c].awaits = None /\ call'[c].phase = "sent"
        BY <1>2, <1>3
      <4>4. session' = session /\ user' = user /\ crossed' = crossed
        OBVIOUS
      <4>5. ~crossed => /\ session.access = None => user = None
                        /\ session.access # None =>
                             session.access.user = user /\ session.access.n <= session.access.n
        BY <4>1, <4>2
      <4> QED BY <4>3, <4>4, <4>5 DEF CallOK
    <3>2. post[c] = None
      BY SentHasNoPost
    <3>3. reply[c] = None
      BY <3>2 DEF SessionInv, ReplyOK
    <3> QED BY <2>1, <3>1, <3>2, <3>3 DEF PostOK, ReplyOK
  <2>2. CASE d # c
    BY <1>3, <2>2 DEF server, SessionInv, CallOK, PostOK, ReplyOK
  <2> QED BY <2>1, <2>2
<1> QED BY <1>4, <1>5 DEF SessionInv

\* The server issues a pair of tokens to u, for the request of c.
LEMMA ServeInv ==
  ASSUME SessionInv, NEW c \in Calls, NEW u \in Users, issued < MaxTokens, issued' = issued + 1,
         reply' = [reply EXCEPT ![c] = Issue(u)],
         post[c] # None \/ (call[c].phase = "sent" /\ call[c].as # None),
         post[c] # None => post[c].user = u,
         UNCHANGED <<session, user, call, refreshing, post, expired, refused, reloads, crossed>>
  PROVE  SessionInv'
<1>1. Issue(u) \in Token /\ Issue(u) # None /\ Issue(u).n = issued + 1 /\ Issue(u).user = u
  BY IssueOK DEF SessionInv
<1>2. issued \in Nat /\ issued' \in 0 .. MaxTokens /\ expired \in 0 .. issued /\ expired \in 0 .. issued'
  BY SessionAssumption DEF SessionInv, Typed
<1>3. reply'[c] = Issue(u) /\ reply' \in [Calls -> Token \cup {None}] /\ \A d \in Calls \ {c} : reply'[d] = reply[d]
  BY <1>1 DEF SessionInv, Typed
<1>4. session.access # None => session.access.n \in Nat /\ session.access.n <= issued
  BY DEF SessionInv, Typed, SessionOK, Token
<1>5. Typed'
  BY <1>2, <1>3 DEF SessionInv, Typed
<1>6. SessionOK'
  BY <1>2, <1>4 DEF SessionInv, SessionOK
<1>7. ASSUME NEW d \in Calls PROVE CallOK(d)' /\ PostOK(d)' /\ ReplyOK(d)'
  <2>1. CASE d = c
    <3>1. ~crossed /\ post[c] # None => user = u /\ session.access # None
      BY SessionAssumption DEF SessionInv, SessionOK, PostOK
    <3>2. PostOK(c)'
      BY <1>1, <1>2, <1>3, <1>4, <3>1 DEF SessionInv, PostOK
    <3>3. CallOK(c)' /\ ReplyOK(c)'
      BY <1>1, <1>3 DEF SessionInv, CallOK, ReplyOK
    <3> QED BY <2>1, <3>2, <3>3
  <2>2. CASE d # c
    BY <1>2, <1>3, <2>2, OthersOK
  <2> QED BY <2>1, <2>2
<1> QED BY <1>5, <1>6, <1>7 DEF SessionInv

LEMMA ServeLoginInv ==
  ASSUME SessionInv, NEW c \in Calls, ServeLogin(c)
  PROVE  SessionInv'
<1>1. call[c].as \in Users
  BY DEF ServeLogin, SessionInv, Typed, Call
<1>2. post[c] = None
  BY SentHasNoPost DEF ServeLogin
<1> QED BY <1>1, <1>2, ServeInv DEF ServeLogin

LEMMA SignInInv ==
  ASSUME SessionInv, NEW c \in Calls, SignIn(c)
  PROVE  SessionInv'
<1>1. /\ call[c].phase = "sent" /\ reply[c] # None
      /\ session' = [access |-> reply[c], refresh |-> reply[c]] /\ user' = reply[c].user
      /\ crossed' = (crossed \/ InFlight \ {c} # {})
      /\ reply' = [reply EXCEPT ![c] = None]
      /\ UNCHANGED <<refreshing, post, issued, expired, refused, reloads>>
  BY DEF SignIn, server
<1>2. reply[c] \in Token /\ reply[c].user \in Users /\ reply[c].n \in Nat /\ reply[c].n <= issued
  BY <1>1 DEF SessionInv, Typed, ReplyOK, Token
<1>3. /\ call' \in [Calls -> Call] /\ call'[c] = Idle
      /\ \A d \in Calls \ {c} : call'[d] = call[d]
  BY IdleIsCall, Replace DEF SignIn, SessionInv
<1>4. /\ reply' \in [Calls -> Token \cup {None}] /\ reply'[c] = None
      /\ \A d \in Calls \ {c} : reply'[d] = reply[d]
  BY <1>1 DEF SessionInv, Typed
<1>5. Typed'
  BY <1>1, <1>2, <1>3, <1>4 DEF SessionInv, Typed
<1>6. SessionOK'
  BY <1>1, <1>2, SessionAssumption DEF SessionOK
<1>7. post[c] = None
  BY <1>1, SentHasNoPost
<1>8. ASSUME NEW d \in Calls PROVE CallOK(d)' /\ PostOK(d)' /\ ReplyOK(d)'
  <2>1. CASE d = c
    BY <1>1, <1>3, <1>4, <1>7, <2>1, IdleOK DEF PostOK, ReplyOK
  <2>2. CASE d # c
    <3>1. call[d].phase # "idle" => crossed'
      BY <1>1, <2>2 DEF InFlight
    <3>2. post[d] # None => call[d].phase # "idle"
      BY SentHasNoPost
    <3>3. ~crossed' => call[d].phase = "idle" /\ ~crossed
      BY <1>1, <3>1
    <3> QED BY <1>1, <1>3, <1>4, <2>2, <3>1, <3>2, <3>3 DEF SessionInv, CallOK, PostOK, ReplyOK
  <2> QED BY <2>1, <2>2
<1> QED BY <1>5, <1>6, <1>8 DEF SessionInv

\* A call in flight, not waiting, is settled.
LEMMA EndInv ==
  ASSUME SessionInv, NEW c \in Calls, call[c].phase = "sent", call' = [call EXCEPT ![c] = Idle],
         reply' = [reply EXCEPT ![c] = None],
         UNCHANGED <<session, user, refreshing, post, server, reloads, crossed>>
  PROVE  SessionInv'
<1>1. /\ call' \in [Calls -> Call] /\ call'[c] = Idle
      /\ \A d \in Calls \ {c} : call'[d] = call[d]
  BY IdleIsCall, Replace DEF SessionInv
<1>2. /\ reply' \in [Calls -> Token \cup {None}] /\ reply'[c] = None
      /\ \A d \in Calls \ {c} : reply'[d] = reply[d]
  BY DEF SessionInv, Typed
<1>3. Typed' /\ SessionOK'
  BY <1>1, <1>2 DEF server, SessionInv, Typed, SessionOK
<1>4. ASSUME NEW d \in Calls PROVE CallOK(d)' /\ PostOK(d)' /\ ReplyOK(d)'
  <2>1. CASE d = c
    <3>1. post[c] = None
      BY SentHasNoPost
    <3> QED BY <1>1, <1>2, <2>1, <3>1, IdleOK DEF PostOK, ReplyOK
  <2>2. CASE d # c
    BY <1>1, <1>2, <2>2 DEF server, SessionInv, CallOK, PostOK, ReplyOK
  <2> QED BY <2>1, <2>2
<1> QED BY <1>3, <1>4 DEF SessionInv

LEMMA UnauthorizedInv ==
  ASSUME SessionInv, NEW c \in Calls, Unauthorized(c)
  PROVE  SessionInv'
<1>0. call[c].phase = "sent" /\ reply[c] = None /\ UNCHANGED <<session, user, reply, server, reloads, crossed>>
  BY DEF Unauthorized, Refuses
<1>1. CASE ~(session.refresh # None /\ call[c].tries = 1)
  <2>1. reply' = [reply EXCEPT ![c] = None]
    BY <1>0 DEF SessionInv, Typed
  <2> QED BY <1>0, <1>1, <2>1, EndInv DEF Unauthorized
<1>2. CASE session.refresh # None /\ call[c].tries = 1
  <2> DEFINE starter == IF refreshing = None THEN c ELSE refreshing
             v == [call[c] EXCEPT !.phase = "waiting", !.awaits = starter]
  <2>1. starter \in Calls /\ call[c] \in Call
    BY DEF SessionInv, Typed
  <2>2. v \in Call /\ v.phase = "waiting" /\ v.awaits = starter /\ v.tries = 1
        /\ v.first = call[c].first
    BY <1>2, <2>1 DEF Call
  <2>3. call' = [call EXCEPT ![c] = v] /\ refreshing' = starter
        /\ post' = IF refreshing = None THEN [post EXCEPT ![c] = session.refresh] ELSE post
    BY <1>2 DEF Unauthorized, SessionInv, Typed
  <2>4. /\ call' \in [Calls -> Call] /\ call'[c] = v
        /\ \A d \in Calls \ {c} : call'[d] = call[d]
    BY <2>2, <2>3, Replace DEF SessionInv
  <2>5. Typed'
    BY <1>0, <2>1, <2>3, <2>4 DEF server, SessionInv, Typed
  <2>6. SessionOK'
    BY <1>0 DEF server, SessionInv, SessionOK
  <2>7. starter # None
    BY <2>1, SessionAssumption
  <2>8. ASSUME NEW d \in Calls PROVE CallOK(d)'
    <3>1. CASE d = c
      BY <1>0, <2>2, <2>3, <2>4, <2>7, <3>1 DEF SessionInv, CallOK
    <3>2. CASE d # c
      BY <1>0, <2>3, <2>4, <3>2 DEF SessionInv, CallOK
    <3> QED BY <3>1, <3>2
  <2>9. ASSUME NEW d \in Calls PROVE PostOK(d)' /\ ReplyOK(d)'
    <3>0. ReplyOK(d)'
      BY <1>0, <2>3, <2>4 DEF server, SessionInv, Typed, ReplyOK
    <3>1. CASE refreshing = None
      <4>1. post[d] = None
        BY <3>1, SessionAssumption DEF SessionInv, PostOK
      <4>2. post'[d] = IF d = c THEN session.refresh ELSE None
        BY <2>3, <3>1, <4>1 DEF SessionInv, Typed
      <4> QED BY <1>0, <2>2, <2>3, <2>4, <3>0, <3>1, <4>2 DEF SessionInv, SessionOK, PostOK
    <3>2. CASE refreshing # None
      <4>1. post[d] # None => d # c
        BY <1>0, SentHasNoPost
      <4> QED BY <1>0, <2>3, <2>4, <3>0, <3>2, <4>1 DEF SessionInv, PostOK
    <3> QED BY <3>1, <3>2
  <2> QED BY <2>5, <2>6, <2>8, <2>9 DEF SessionInv
<1> QED BY <1>1, <1>2

-----------------------------------------------------------------------------
(* The refresh                                                             *)

LEMMA ServeRefreshInv ==
  ASSUME SessionInv, NEW p \in Calls, ServeRefresh(p)
  PROVE  SessionInv'
<1>1. post[p].user \in Users
  BY DEF ServeRefresh, SessionInv, Typed, Token
<1> QED BY <1>1, ServeInv DEF ServeRefresh

LEMMA RefreshedInv ==
  ASSUME SessionInv, NEW p \in Calls, Refreshed(p)
  PROVE  SessionInv'
<1> DEFINE fresh == reply[p]
           again(c) == [call[c] EXCEPT !.phase = "sent", !.token = fresh,
                                       !.tries = call[c].tries + 1, !.awaits = None]
<1>0. call' = [c \in Calls |-> IF call[c].awaits # p THEN call[c] ELSE again(c)]
  BY DEF Refreshed, Resolve
<1>1. /\ post[p] # None /\ fresh # None
      /\ session' = [access |-> fresh, refresh |-> fresh]
      /\ refreshing' = None /\ post' = [post EXCEPT ![p] = None] /\ reply' = [reply EXCEPT ![p] = None]
      /\ UNCHANGED <<user, issued, expired, refused, reloads, crossed>>
  BY DEF Refreshed, Resolve, server
<1>2. fresh \in Token /\ fresh.n \in Nat /\ fresh.n <= issued
  BY <1>1 DEF SessionInv, Typed, ReplyOK, Token
<1>3. /\ refreshing = p /\ call[p].awaits = p /\ call[p].phase = "waiting"
      /\ \A c \in Calls : call[c].awaits = p \/ (call[c].awaits = None /\ call[c].phase # "waiting")
      /\ \A c \in Calls : c # p => post[c] = None
  BY <1>1, AllAwait
<1>4. ~crossed => /\ fresh.user = user /\ user \in Users
                  /\ session.access \in Token /\ fresh.n > session.access.n
  BY <1>1, <1>2 DEF SessionInv, Typed, PostOK, Token
<1> HIDE DEF fresh, again
<1>5. ASSUME NEW c \in Calls, call[c].awaits = p
      PROVE  /\ call'[c] \in Call
             /\ call'[c].phase = "sent" /\ call'[c].token = fresh /\ call'[c].awaits = None
             /\ call'[c].first = call[c].first /\ call'[c].tries = 2 /\ call[c].phase # "idle"
  <2>1. call[c] \in Call /\ call[c].tries = 1 /\ call[c].phase # "idle"
    BY <1>5, SessionAssumption DEF SessionInv, Typed, CallOK
  <2>2. call'[c] = again(c)
    BY <1>0, <1>5
  <2>3. again(c) = [phase |-> "sent", as |-> call[c].as, first |-> call[c].first, token |-> fresh,
                    tries |-> 2, awaits |-> None]
    <3>1. again(c) = [call[c] EXCEPT !.phase = "sent", !.token = fresh, !.tries = 2, !.awaits = None]
      BY <2>1 DEF again
    <3> QED BY <2>1, <3>1 DEF Call
  <2>4. again(c) \in Call
    BY <1>2, <2>1, <2>3 DEF Call
  <2> QED BY <2>1, <2>2, <2>3, <2>4
<1>6. ASSUME NEW c \in Calls, call[c].awaits # p
      PROVE  call'[c] = call[c] /\ call[c] \in Call /\ call[c].awaits = None /\ call[c].phase # "waiting"
  BY <1>0, <1>3, <1>6 DEF SessionInv, Typed
<1>7. call' \in [Calls -> Call]
  <2>1. \A c \in Calls : call'[c] \in Call
    BY <1>5, <1>6
  <2>2. call' = [c \in Calls |-> call'[c]]
    BY <1>0
  <2> QED BY <2>1, <2>2
<1>8. \A c \in Calls : post'[c] = None
  BY <1>1, <1>3 DEF SessionInv, Typed
<1>9. /\ reply' \in [Calls -> Token \cup {None}] /\ reply'[p] = None
      /\ \A c \in Calls \ {p} : reply'[c] = reply[c]
  BY <1>1 DEF SessionInv, Typed
<1>10. Typed'
  <2>1. session' \in [access : Token \cup {None}, refresh : Token \cup {None}]
    BY <1>1, <1>2
  <2>2. post' \in [Calls -> Token \cup {None}]
    BY <1>1 DEF SessionInv, Typed
  <2> QED BY <1>1, <1>7, <1>9, <2>1, <2>2 DEF SessionInv, Typed
<1>11. SessionOK'
  BY <1>1, <1>2, <1>4, SessionAssumption DEF SessionOK
<1>12. ASSUME NEW c \in Calls PROVE CallOK(c)'
  <2>1. CallOK(c) /\ (call[c].first # None => call[c].first \in Token /\ call[c].first.n \in Nat)
    <3>1. CallOK(c) /\ call[c] \in Call
      BY DEF SessionInv, Typed
    <3> QED BY <3>1 DEF Call, Token
  <2>2. ASSUME ~crossed, call[c].phase # "idle"
        PROVE  /\ call[c].first = None => user = None
               /\ call[c].first # None => call[c].first.user = user /\ call[c].first.n < fresh.n
    <3>1. session.access.n \in Nat
      BY <1>4, <2>2 DEF Token
    <3> QED BY <1>2, <1>4, <2>1, <2>2, <3>1 DEF CallOK
  <2>3. user' = user /\ crossed' = crossed /\ session'.access = fresh /\ fresh # None
    BY <1>1
  <2>4. CASE call[c].awaits = p
    <3>1. /\ call'[c].phase = "sent" /\ call'[c].token = fresh /\ call'[c].awaits = None
          /\ call'[c].first = call[c].first /\ call'[c].tries = 2 /\ call[c].phase # "idle"
      BY <1>5, <2>4
    <3>2. ~crossed => call[c].first # None
      BY <1>4, <2>2, <3>1, SessionAssumption
    <3> QED BY <1>2, <1>4, <2>1, <2>2, <2>3, <3>1, <3>2 DEF CallOK
  <2>5. CASE call[c].awaits # p
    <3>1. call'[c] = call[c] /\ call[c].awaits = None /\ call[c].phase # "waiting"
      BY <1>6, <2>5
    <3> QED BY <1>2, <2>1, <2>2, <2>3, <3>1 DEF CallOK
  <2> QED BY <2>4, <2>5
<1>13. ASSUME NEW c \in Calls PROVE ReplyOK(c)'
  <2>1. CASE c = p
    BY <1>9, <2>1 DEF ReplyOK
  <2>2. CASE c # p
    <3>1. reply[c] # None => reply[c].n <= issued /\ call[c].phase = "sent" /\ call[c].as # None
      BY <1>3, <2>2 DEF SessionInv, ReplyOK
    <3>2. call[c].phase = "sent" => call[c].awaits # p
      BY SessionAssumption DEF SessionInv, CallOK
    <3> QED BY <1>1, <1>6, <1>9, <2>2, <3>1, <3>2 DEF ReplyOK
  <2> QED BY <2>1, <2>2
<1> QED BY <1>8, <1>10, <1>11, <1>12, <1>13 DEF SessionInv, PostOK

\* The refresh of p has failed; what is left to say is that nothing comes back.
LEMMA RejectInv ==
  ASSUME SessionInv, NEW p \in Calls, post[p] # None, Reject(p), post' = [post EXCEPT ![p] = None],
         reply' = [reply EXCEPT ![p] = None], UNCHANGED <<server, reloads>>
  PROVE  SessionInv'
<1>1. /\ refreshing = p
      /\ \A c \in Calls : call[c].awaits = p \/ (call[c].awaits = None /\ call[c].phase # "waiting")
      /\ \A c \in Calls : c # p => post[c] = None
  BY AllAwait
<1>2. \A c \in Calls : call'[c] = IF call[c].awaits = p THEN Idle ELSE call[c]
  BY DEF Reject
<1>3. call' \in [Calls -> Call]
  BY IdleIsCall DEF Reject, SessionInv, Typed
<1>4. \A c \in Calls : post'[c] = None
  BY <1>1 DEF SessionInv, Typed
<1>5. session' = SignedOut /\ user' = None /\ refreshing' = None
      /\ crossed' = (crossed \/ {c \in InFlight : call[c].awaits # p} # {})
  BY DEF Reject, Clear
<1>6. /\ reply' \in [Calls -> Token \cup {None}] /\ reply'[p] = None
      /\ \A c \in Calls \ {p} : reply'[c] = reply[c]
  BY DEF SessionInv, Typed
<1>7. Typed'
  <2>1. session' \in [access : Token \cup {None}, refresh : Token \cup {None}]
    BY <1>5 DEF SignedOut
  <2>2. post' \in [Calls -> Token \cup {None}]
    BY <1>4 DEF SessionInv, Typed
  <2> QED BY <1>3, <1>5, <1>6, <2>1, <2>2 DEF server, SessionInv, Typed
<1>8. SessionOK'
  BY <1>5 DEF SessionOK, SignedOut
<1>9. ASSUME NEW c \in Calls PROVE CallOK(c)'
  <2>1. CASE call[c].awaits = p
    BY <1>2, <2>1, IdleOK
  <2>2. CASE call[c].awaits # p
    <3>1. call'[c] = call[c] /\ call[c].awaits = None
      BY <1>1, <1>2, <2>2
    <3>2. call[c].phase # "idle" => crossed'
      BY <1>5, <2>2 DEF InFlight
    <3> QED BY <3>1, <3>2 DEF SessionInv, CallOK
  <2> QED BY <2>1, <2>2
<1>10. ASSUME NEW c \in Calls PROVE ReplyOK(c)'
  <2>1. c # p /\ reply[c] # None => reply[c].n <= issued /\ call[c].phase = "sent" /\ call[c].as # None
    BY <1>1 DEF SessionInv, ReplyOK
  <2>2. call[c].phase = "sent" => call[c].awaits # p
    BY SessionAssumption DEF SessionInv, CallOK
  <2> QED BY <1>2, <1>6, <2>1, <2>2 DEF server, ReplyOK
<1> QED BY <1>4, <1>7, <1>8, <1>9, <1>10 DEF SessionInv, PostOK

LEMMA RefreshFailsInv ==
  ASSUME SessionInv, NEW p \in Calls, RefreshFails(p)
  PROVE  SessionInv'
BY RejectInv DEF RefreshFails

LEMMA RefreshRefusedInv ==
  ASSUME SessionInv, NEW p \in Calls, RefreshRefused(p)
  PROVE  SessionInv'
<1>0. reply[p] = None /\ reply' = reply /\ reply' = [reply EXCEPT ![p] = None]
  BY DEF RefreshRefused, SessionInv, Typed
<1>1. CASE session.refresh = None
  BY <1>0, <1>1, RejectInv DEF RefreshRefused
<1>2. CASE session.refresh # None
  <2>1. UNCHANGED <<session, user, call, refreshing, reply, server, reloads, crossed>>
        /\ post' = [post EXCEPT ![p] = None]
    BY <1>2 DEF RefreshRefused
  <2>2. \A c \in Calls : (post'[c] # None => post'[c] = post[c]) /\ (c # p => post'[c] = post[c])
    BY <2>1 DEF SessionInv, Typed
  <2>3. Typed' /\ SessionOK'
    BY <2>1 DEF server, SessionInv, Typed, SessionOK
  <2>4. \A c \in Calls : CallOK(c)' /\ PostOK(c)' /\ ReplyOK(c)'
    BY <1>0, <2>1, <2>2 DEF server, SessionInv, CallOK, PostOK, ReplyOK
  <2> QED BY <2>3, <2>4 DEF SessionInv
<1> QED BY <1>1, <1>2

-----------------------------------------------------------------------------
(* The user and the world                                                  *)

LEMMA SignOutInv ==
  ASSUME SessionInv, SignOut
  PROVE  SessionInv'
<1>1. session' = SignedOut /\ user' = None /\ crossed' = (crossed \/ InFlight # {})
      /\ UNCHANGED <<call, refreshing, post, reply, issued, expired, refused, reloads>>
  BY DEF SignOut, Clear, requests, server
<1>2. Typed'
  <2>1. session' \in [access : Token \cup {None}, refresh : Token \cup {None}]
    BY <1>1 DEF SignedOut
  <2> QED BY <1>1, <2>1 DEF SessionInv, Typed
<1>3. SessionOK'
  BY <1>1 DEF SessionOK, SignedOut
<1>4. ASSUME NEW c \in Calls PROVE CallOK(c)' /\ PostOK(c)' /\ ReplyOK(c)'
  <2>1. call[c].phase # "idle" => crossed'
    BY <1>1 DEF InFlight
  <2>2. post[c] # None => call[c].phase # "idle"
    BY SentHasNoPost
  <2> QED BY <1>1, <2>1, <2>2 DEF SessionInv, CallOK, PostOK, ReplyOK
<1> QED BY <1>2, <1>3, <1>4 DEF SessionInv

LEMMA ReloadInv ==
  ASSUME SessionInv, Reload
  PROVE  SessionInv'
<1>1. call' \in [Calls -> Call] /\ \A c \in Calls : call'[c] = Idle /\ post'[c] = None /\ reply'[c] = None
  BY IdleIsCall DEF Reload
<1>2. Typed' /\ SessionOK'
  BY <1>1 DEF Reload, server, SessionInv, Typed, SessionOK
<1>3. \A c \in Calls : CallOK(c)' /\ PostOK(c)' /\ ReplyOK(c)'
  BY <1>1, IdleOK DEF PostOK, ReplyOK
<1> QED BY <1>2, <1>3 DEF SessionInv

LEMMA ExpireInv ==
  ASSUME SessionInv, Expire
  PROVE  SessionInv'
<1>1. UNCHANGED <<session, user, call, refreshing, post, reply, issued, reloads, crossed>>
      /\ expired' \in 0 .. issued /\ refused' \in 0 .. expired'
  BY SessionAssumption DEF Expire, requests, SessionInv, Typed
<1>2. Typed' /\ SessionOK'
  BY <1>1 DEF SessionInv, Typed, SessionOK
<1>3. \A c \in Calls : CallOK(c)' /\ PostOK(c)' /\ ReplyOK(c)'
  BY <1>1 DEF SessionInv, CallOK, PostOK, ReplyOK
<1> QED BY <1>2, <1>3 DEF SessionInv

LEMMA StutterInv ==
  ASSUME SessionInv, UNCHANGED vars
  PROVE  SessionInv'
BY DEF vars, requests, server, SessionInv, Typed, SessionOK, CallOK, PostOK, ReplyOK

-----------------------------------------------------------------------------
(* The theorems                                                            *)

\* Whatever answers arrive in whatever order, and whoever signs in and out
\* meanwhile, the session and its calls keep the invariant.
THEOREM SessionInvariant == Spec => []SessionInv
<1>1. Init => SessionInv
  BY InitInv
<1>2. SessionInv /\ [Next]_vars => SessionInv'
  <2> SUFFICES ASSUME SessionInv, [Next]_vars PROVE SessionInv'
    OBVIOUS
  <2>1. ASSUME NEW c \in Calls, Send(c) \/ \E u \in Users : SendLogin(c, u) PROVE SessionInv'
    BY <2>1, SentInv DEF Send, SendLogin
  <2>2. ASSUME NEW c \in Calls, ServeLogin(c) \/ ServeRefresh(c) PROVE SessionInv'
    BY <2>2, ServeLoginInv, ServeRefreshInv
  <2>3. ASSUME NEW c \in Calls, Answer(c) PROVE SessionInv'
    <3>1. CASE SignIn(c)
      BY <3>1, SignInInv
    <3>2. CASE Settle(c)
      BY <3>2, EndInv DEF Settle
    <3>3. CASE Unauthorized(c)
      BY <3>3, UnauthorizedInv
    <3> QED BY <2>3, <3>1, <3>2, <3>3 DEF Answer
  <2>4. ASSUME NEW p \in Calls, AnswerRefresh(p) PROVE SessionInv'
    BY <2>4, RefreshedInv, RefreshFailsInv, RefreshRefusedInv DEF AnswerRefresh
  <2>5. CASE SignOut \/ Reload \/ Expire
    BY <2>5, SignOutInv, ReloadInv, ExpireInv
  <2>6. CASE UNCHANGED vars
    BY <2>6, StutterInv
  <2> QED BY <2>1, <2>2, <2>3, <2>4, <2>5, <2>6 DEF Next
<1> QED BY <1>1, <1>2, PTL DEF Spec

\* Every variable keeps its type, a call waits for the refresh under way or for
\* none, and tokens are on their way to a refresh or a login alone.
THEOREM SessionTypeCorrect == Spec => []TypeOK
<1>1. SessionInv => TypeOK
  BY DEF SessionInv, Typed, CallOK, ReplyOK, TypeOK
<1> QED BY <1>1, SessionInvariant, PTL

\* However many calls are answered 401, one refresh request is in flight.
THEOREM RefreshIsShared == Spec => []SingleFlight
<1>1. SessionInv => SingleFlight
  BY DEF SessionInv, PostOK, SingleFlight
<1> QED BY <1>1, SessionInvariant, PTL

\* A call that is sent again carries a newer token of the same user, unless a
\* session has begun or ended, by the call of somebody who signs in over it
\* included, while other calls were in flight.
THEOREM RetriesAreFresh == Spec => []RetryIsFresh
<1>1. SessionInv => RetryIsFresh
  BY DEF SessionInv, CallOK, RetryIsFresh
<1> QED BY <1>1, SessionInvariant, PTL

\* While no session has begun or ended under a call, the tokens in the store are
\* those of whoever signed in last, over another's session or not.
THEOREM SessionFollowsUser == Spec => []SessionIsCurrent
<1>1. SessionInv => SessionIsCurrent
  BY DEF SessionInv, SessionOK, SessionIsCurrent
<1> QED BY <1>1, SessionInvariant, PTL
=============================================================================
