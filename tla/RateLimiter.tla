----------------------------- MODULE RateLimiter -----------------------------
(***************************************************************************)
(* The token buckets of the API (interfaces/http/rate_limit.py): one per   *)
(* key of a client, made full when the key is first seen, kept in the      *)
(* memory of one process.                                                  *)
(*                                                                         *)
(* Time is in ticks, Minute of them in a minute.  The code counts tokens   *)
(* in floats; here a token is Minute units, so that a tick refills         *)
(* PerMinute units and everything is whole.                                *)
(***************************************************************************)
EXTENDS Naturals

CONSTANTS
  Keys,       \* hashes of Authorization headers, addresses of clients
  PerMinute,  \* rate_limit_per_minute, upload_rate_limit_per_minute
  Minute,     \* ticks of the clock in a minute
  None,       \* no bucket yet
  Horizon     \* bound: the clock stops here

ASSUME LimiterAssumption ==
  /\ PerMinute \in Nat /\ Horizon \in Nat
  /\ Minute \in Nat \ {0}
  /\ None \notin [tokens : Nat, last : Nat]

VARIABLES
  now,     \* time.monotonic()
  bucket,  \* bucket[k]: the tokens of k, in units, when it last asked
  spent    \* history: spent[k][s], the requests of k served since time s

vars == <<now, bucket, spent>>

Full == PerMinute * Minute

Times == 0 .. Horizon

\* What k has now: a new bucket is full, another one is refilled up to that.
Refilled(k) ==
  IF bucket[k] = None THEN Full
  ELSE LET earned == bucket[k].tokens + (now - bucket[k].last) * PerMinute
       IN  IF earned < Full THEN earned ELSE Full

Affords(k) == Refilled(k) >= Minute

Keep(k, tokens) == bucket' = [bucket EXCEPT ![k] = [tokens |-> tokens, last |-> now]]

\* Mutation of Refuse: the time of the refusal is kept, what was refilled is not.
RefuseUnrefilled(k) ==
  /\ ~Affords(k)
  /\ Keep(k, IF bucket[k] = None THEN Full ELSE bucket[k].tokens)
  /\ UNCHANGED <<now, spent>>

\* Mutation of Serve: the time of the request is not kept.
ServeUntimed(k) ==
  /\ Affords(k)
  /\ bucket' = [bucket EXCEPT ![k] =
                 [tokens |-> Refilled(k) - Minute, last |-> IF @ = None THEN now ELSE @.last]]
  /\ spent' = [spent EXCEPT ![k] = [s \in Times |-> IF s <= now THEN @[s] + 1 ELSE @[s]]]
  /\ UNCHANGED now

\* allow: a request is served and takes one token.
Serve(k) ==
  /\ Affords(k)
  /\ Keep(k, Refilled(k) - Minute)
  /\ spent' = [spent EXCEPT ![k] = [s \in Times |-> IF s <= now THEN @[s] + 1 ELSE @[s]]]
  /\ UNCHANGED now

\* allow: it is refused, and takes none.
Refuse(k) ==
  /\ ~Affords(k)
  /\ Keep(k, Refilled(k))
  /\ UNCHANGED <<now, spent>>

Tick ==
  /\ now < Horizon
  /\ now' = now + 1
  /\ UNCHANGED <<bucket, spent>>

\* The process starts again, with no bucket.
Restart ==
  /\ bucket' = [k \in Keys |-> None]
  /\ spent' = [k \in Keys |-> [s \in Times |-> 0]]
  /\ UNCHANGED now

Init ==
  /\ now = 0
  /\ bucket = [k \in Keys |-> None]
  /\ spent = [k \in Keys |-> [s \in Times |-> 0]]

Next == (\E k \in Keys : Serve(k) \/ Refuse(k)) \/ Tick \/ Restart

Spec == Init /\ [][Next]_vars

-----------------------------------------------------------------------------
(* Properties                                                              *)

\* A bucket has no more than it holds, and was last asked in the past.
TypeOK ==
  /\ now \in Times
  /\ bucket \in [Keys -> [tokens : 0 .. Full, last : 0 .. now] \cup {None}]
  /\ spent \in [Keys -> [Times -> Nat]]

\* rate_limit.py:5 "a stricter bucket": however the requests of a key are
\* spread, of those since any time the process serves as many as a full bucket
\* holds and no more than are refilled on top of it.
WithinAllowance ==
  \A k \in Keys : \A s \in 0 .. now :
    spent[k][s] * Minute <= Full + PerMinute * (now - s)

\* Nobody is refused for less: whoever has no token left has been served, since
\* some time, so much that one more would go beyond that.
RefusalIsDeserved ==
  \A k \in Keys : ~Affords(k) =>
    \E s \in 0 .. now : (spent[k][s] + 1) * Minute > Full + PerMinute * (now - s)
=============================================================================
