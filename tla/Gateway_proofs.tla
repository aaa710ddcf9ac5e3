---------------------------- MODULE Gateway_proofs ----------------------------
(***************************************************************************)
(* What a token bucket allows in any window of time, and that it allows    *)
(* all of it, for any rate, any keys and any length of a tick; that the    *)
(* gateway keeps to it; and what its accounts and searches promise.        *)
(***************************************************************************)
EXTENDS Gateway, Integers, FiniteSetTheorems, TLAPS

\* What is left in a bucket and what was served since s add up to no more than
\* a full bucket and what was refilled since.
Accounted(k) ==
  /\ \A s \in Times : s > bucket[k].last => spent[k][s] = 0
  /\ \A s \in Times : s <= bucket[k].last =>
       bucket[k].tokens + spent[k][s] * Minute <= Full + PerMinute * (bucket[k].last - s)

\* And to just as much since the last time it was full.
Earned(k) ==
  \E s \in Times :
    /\ s <= bucket[k].last
    /\ bucket[k].tokens + spent[k][s] * Minute = Full + PerMinute * (bucket[k].last - s)

LimiterInv ==
  /\ TypeOK
  /\ \A k \in Keys :
       IF bucket[k] = None THEN \A s \in Times : spent[k][s] = 0
       ELSE Accounted(k) /\ Earned(k)

-----------------------------------------------------------------------------
(* Arithmetic                                                              *)

LEMMA FullIsNat == Full \in Nat
BY LimiterAssumption DEF Full

LEMMA ProductIsNat == \A a, b \in Nat : a * b \in Nat
OBVIOUS

LEMMA ProductAdds == \A p, a, b \in Int : p * (a + b) = p * a + p * b
OBVIOUS

\* Refilling from `from` to `to`, on top of what was refilled before that.
LEMMA RefillsAddUp ==
  ASSUME NEW p \in Nat, NEW s \in Int, NEW from \in Int, NEW to \in Int
  PROVE  p * (from - s) + (to - from) * p = p * (to - s)
<1>1. p * ((from - s) + (to - from)) = p * (from - s) + p * (to - from)
  BY ProductAdds
<1>2. (from - s) + (to - from) = to - s
  OBVIOUS
<1>3. p * (to - from) = (to - from) * p
  OBVIOUS
<1> QED BY <1>1, <1>2, <1>3

LEMMA OneMoreServed ==
  ASSUME NEW n \in Nat
  PROVE  (n + 1) * Minute = n * Minute + Minute
BY LimiterAssumption

-----------------------------------------------------------------------------
(* Asking                                                                  *)

\* What k has when it asks: no more than was served and refilled leaves it, and
\* exactly that since some time.
LEMMA RefilledIsAccounted ==
  ASSUME LimiterInv, NEW k \in Keys
  PROVE  /\ Refilled(k) \in 0 .. Full
         /\ \A s \in Times : s > now => spent[k][s] = 0
         /\ \A s \in 0 .. now :
              Refilled(k) + spent[k][s] * Minute <= Full + PerMinute * (now - s)
         /\ \E s \in 0 .. now :
              Refilled(k) + spent[k][s] * Minute = Full + PerMinute * (now - s)
<1> USE LimiterAssumption, FullIsNat
<1>1. now \in Times /\ now \in Nat /\ spent[k] \in [Times -> Nat]
  BY DEF LimiterInv, TypeOK, Times
<1>2. CASE bucket[k] = None
  <2>1. \A s \in Times : spent[k][s] = 0
    BY <1>2 DEF LimiterInv
  <2>2. Refilled(k) = Full
    BY <1>2 DEF Refilled
  <2>3. ASSUME NEW s \in 0 .. now
        PROVE  /\ spent[k][s] * Minute = 0
               /\ PerMinute * (now - s) \in Nat
    <3>1. s \in Times
      BY <1>1 DEF Times
    <3>2. spent[k][s] = 0
      BY <2>1, <3>1
    <3>3. now - s \in Nat
      BY <1>1
    <3> QED BY <3>2, <3>3, ProductIsNat
  <2>4. \A s \in 0 .. now : Refilled(k) + spent[k][s] * Minute <= Full + PerMinute * (now - s)
    BY <2>2, <2>3
  <2>5. Refilled(k) + spent[k][now] * Minute = Full + PerMinute * (now - now)
    <3>1. spent[k][now] * Minute = 0
      BY <2>3, <1>1
    <3>2. PerMinute * (now - now) = 0
      BY <1>1
    <3> QED BY <2>2, <3>1, <3>2
  <2>6. now \in 0 .. now
    BY <1>1
  <2> QED BY <2>1, <2>2, <2>4, <2>5, <2>6
<1>3. CASE bucket[k] # None
  <2> DEFINE b == bucket[k]
             earned == b.tokens + (now - b.last) * PerMinute
  <2>1. b.tokens \in Nat /\ b.tokens <= Full /\ b.last \in Nat /\ b.last <= now
    BY <1>3, <1>1 DEF LimiterInv, TypeOK
  <2>2. Accounted(k) /\ Earned(k)
    BY <1>3 DEF LimiterInv
  <2>3. earned \in Nat /\ earned >= b.tokens
    <3>1. now - b.last \in Nat
      BY <1>1, <2>1
    <3>2. (now - b.last) * PerMinute \in Nat
      BY <3>1, ProductIsNat
    <3> QED BY <3>2, <2>1
  <2>4. Refilled(k) = IF earned < Full THEN earned ELSE Full
    BY <1>3 DEF Refilled
  <2>5. Refilled(k) \in 0 .. Full /\ Refilled(k) <= earned
    BY <2>3, <2>4
  <2>6. \A s \in Times : s > now => spent[k][s] = 0
    BY <1>1, <2>1, <2>2 DEF Accounted, Times
  <2>7. ASSUME NEW s \in 0 .. b.last
        PROVE  /\ s \in Times
               /\ spent[k][s] * Minute \in Nat
               /\ PerMinute * (b.last - s) \in Nat /\ PerMinute * (now - s) \in Nat
               /\ earned + PerMinute * (b.last - s) = b.tokens + PerMinute * (now - s)
    <3>1. s \in Times
      BY <1>1, <2>1 DEF Times
    <3>2. spent[k][s] \in Nat /\ b.last - s \in Nat /\ now - s \in Nat
      BY <1>1, <2>1, <3>1
    <3>3. PerMinute * (b.last - s) + (now - b.last) * PerMinute = PerMinute * (now - s)
      BY <1>1, <2>1, RefillsAddUp
    <3>4. PerMinute * (b.last - s) \in Nat /\ PerMinute * (now - s) \in Nat
          /\ spent[k][s] * Minute \in Nat /\ (now - b.last) * PerMinute \in Int
      BY <3>2, <1>1, <2>1, ProductIsNat
    <3> QED BY <3>1, <3>3, <3>4, <2>1
  <2>8. ASSUME NEW s \in 0 .. now
        PROVE  Refilled(k) + spent[k][s] * Minute <= Full + PerMinute * (now - s)
    <3>1. CASE s <= b.last
      <4>1. s \in 0 .. b.last
        BY <3>1, <2>1, <1>1
      <4>2. b.tokens + spent[k][s] * Minute <= Full + PerMinute * (b.last - s)
        BY <4>1, <2>2, <2>7, <3>1 DEF Accounted
      <4> HIDE DEF b, earned
      <4> QED BY <4>1, <4>2, <2>7, <2>5, <2>3, <2>1
    <3>2. CASE s > b.last
      <4>1. spent[k][s] = 0
        BY <3>2, <1>1, <2>1, <2>2 DEF Accounted, Times
      <4>2. PerMinute * (now - s) \in Nat
        <5>1. now - s \in Nat
          BY <1>1
        <5> QED BY <5>1, ProductIsNat
      <4>3. spent[k][s] * Minute = 0
        BY <4>1
      <4> QED BY <4>2, <4>3, <2>5
    <3> QED BY <3>1, <3>2, <1>1, <2>1
  <2>9. \E s \in 0 .. now : Refilled(k) + spent[k][s] * Minute = Full + PerMinute * (now - s)
    <3>1. CASE earned < Full
      <4>1. PICK s \in Times : /\ s <= b.last
                               /\ b.tokens + spent[k][s] * Minute = Full + PerMinute * (b.last - s)
        BY <2>2 DEF Earned
      <4>2. s \in 0 .. b.last /\ s \in 0 .. now
        BY <4>1, <1>1, <2>1 DEF Times
      <4>3. Refilled(k) = earned
        BY <3>1, <2>4
      <4> HIDE DEF b, earned
      <4>4. Refilled(k) + spent[k][s] * Minute = Full + PerMinute * (now - s)
        BY <4>1, <4>2, <4>3, <2>7, <2>3, <2>1
      <4> QED BY <4>2, <4>4
    <3>2. CASE earned >= Full /\ b.last < now
      <4>1. spent[k][now] = 0
        BY <3>2, <1>1, <2>1, <2>2 DEF Accounted
      <4>2. Refilled(k) = Full
        BY <3>2, <2>4, <2>3
      <4>3. spent[k][now] * Minute = 0 /\ PerMinute * (now - now) = 0 /\ now \in 0 .. now
        BY <4>1, <1>1
      <4> QED BY <4>2, <4>3
    <3>3. CASE earned >= Full /\ b.last = now
      <4>1. PICK s \in Times : /\ s <= b.last
                               /\ b.tokens + spent[k][s] * Minute = Full + PerMinute * (b.last - s)
        BY <2>2 DEF Earned
      <4>2. s \in 0 .. now
        BY <4>1, <3>3, <1>1 DEF Times
      <4>3. earned = b.tokens
        BY <3>3, <1>1, <2>1
      <4>4. Refilled(k) = b.tokens
        BY <3>3, <4>3, <2>4, <2>1
      <4> QED BY <4>1, <4>2, <4>4, <3>3
    <3>4. earned < Full \/ (earned >= Full /\ b.last < now) \/ (earned >= Full /\ b.last = now)
      <4> HIDE DEF b, earned
      <4> QED BY <1>1, <2>1, <2>3
    <3> QED BY <3>1, <3>2, <3>3, <3>4
  <2> HIDE DEF b
  <2> QED BY <2>5, <2>6, <2>8, <2>9
<1> QED BY <1>2, <1>3

-----------------------------------------------------------------------------
(* The invariant                                                           *)

LEMMA LimiterInit == Init => LimiterInv
<1> SUFFICES ASSUME Init PROVE LimiterInv
  OBVIOUS
<1> USE LimiterAssumption
<1>1. TypeOK
  BY DEF Init, TypeOK, Times
<1>2. \A k \in Keys : bucket[k] = None /\ \A s \in Times : spent[k][s] = 0
  BY DEF Init
<1> QED BY <1>1, <1>2 DEF LimiterInv

\* A request that is served.
LEMMA ServeKeeps ==
  ASSUME LimiterInv, NEW k \in Keys, Serve(k)
  PROVE  LimiterInv'
<1> USE LimiterAssumption, FullIsNat
<1> DEFINE left == Refilled(k) - Minute
<1>1. now \in Times /\ now \in Nat /\ spent \in [Keys -> [Times -> Nat]]
  BY DEF LimiterInv, TypeOK, Times
<1>2. Refilled(k) \in 0 .. Full /\ Refilled(k) >= Minute
  BY RefilledIsAccounted DEF Serve, Affords
<1>3. left \in 0 .. Full /\ left + Minute = Refilled(k)
  BY <1>2
<1>4. bucket' = [bucket EXCEPT ![k] = [tokens |-> left, last |-> now]]
  BY DEF Serve, Keep
<1>5. bucket \in [Keys -> [tokens : 0 .. Full, last : 0 .. now] \cup {None}]
  BY DEF LimiterInv, TypeOK
<1>6. now' = now
  BY DEF Serve
<1>7. [tokens |-> left, last |-> now] \in [tokens : 0 .. Full, last : 0 .. now]
  BY <1>1, <1>3
<1> HIDE DEF left
<1>8. bucket' \in [Keys -> [tokens : 0 .. Full, last : 0 .. now] \cup {None}]
  BY <1>4, <1>5, <1>7
<1>9. /\ spent' \in [Keys -> [Times -> Nat]]
      /\ \A j \in Keys \ {k} : spent'[j] = spent[j]
      /\ \A s \in Times : spent'[k][s] = IF s <= now THEN spent[k][s] + 1 ELSE spent[k][s]
  <2>1. spent' = [spent EXCEPT ![k] = [s \in Times |-> IF s <= now THEN spent[k][s] + 1
                                                       ELSE spent[k][s]]]
    BY DEF Serve
  <2>2. [s \in Times |-> IF s <= now THEN spent[k][s] + 1 ELSE spent[k][s]] \in [Times -> Nat]
    BY <1>1
  <2> QED BY <1>1, <2>1, <2>2
<1>10. TypeOK'
  BY <1>1, <1>6, <1>8, <1>9 DEF TypeOK, Full, Times
<1>11. bucket'[k] # None /\ bucket'[k].tokens = left /\ bucket'[k].last = now
  BY <1>4, <1>5, <1>7
<1>12. ASSUME NEW s \in 0 .. now
       PROVE  /\ s \in Times /\ spent[k][s] \in Nat
              /\ left + spent'[k][s] * Minute = Refilled(k) + spent[k][s] * Minute
  <2>1. s \in Times /\ s <= now
    BY <1>1 DEF Times
  <2>2. spent'[k][s] = spent[k][s] + 1 /\ spent[k][s] \in Nat
    BY <2>1, <1>9, <1>1
  <2>3. spent'[k][s] * Minute = spent[k][s] * Minute + Minute
    BY <2>2, OneMoreServed
  <2>4. spent[k][s] * Minute \in Nat
    BY <2>2, ProductIsNat
  <2> QED BY <2>1, <2>2, <2>3, <2>4, <1>2, <1>3
<1>13. Accounted(k)'
  <2>1. \A s \in Times : s > now => spent'[k][s] = 0
    BY <1>1, <1>9, RefilledIsAccounted DEF Times
  <2>2. \A s \in 0 .. now : left + spent'[k][s] * Minute <= Full + PerMinute * (now - s)
    BY <1>12, RefilledIsAccounted
  <2>3. \A s \in Times : s <= now => s \in 0 .. now
    BY <1>1 DEF Times
  <2> QED BY <2>1, <2>2, <2>3, <1>11 DEF Accounted, Full, Times
<1>14. Earned(k)'
  <2>1. PICK s \in 0 .. now : Refilled(k) + spent[k][s] * Minute = Full + PerMinute * (now - s)
    BY RefilledIsAccounted
  <2>2. left + spent'[k][s] * Minute = Full + PerMinute * (now - s) /\ s \in Times /\ s <= now
    BY <2>1, <1>12, <1>1
  <2> QED BY <2>2, <1>11 DEF Earned, Full, Times
<1>15. ASSUME NEW j \in Keys \ {k}
       PROVE  IF bucket'[j] = None THEN \A s \in Times : spent'[j][s] = 0
              ELSE (Accounted(j) /\ Earned(j))'
  <2>1. bucket'[j] = bucket[j] /\ spent'[j] = spent[j]
    BY <1>4, <1>9, <1>5
  <2> QED BY <2>1 DEF LimiterInv, Accounted, Earned, Full, Times
<1> QED BY <1>10, <1>11, <1>13, <1>14, <1>15 DEF LimiterInv, Times

\* One that is refused.
LEMMA RefuseKeeps ==
  ASSUME LimiterInv, NEW k \in Keys, Refuse(k)
  PROVE  LimiterInv'
<1> USE LimiterAssumption, FullIsNat
<1>1. now \in Times /\ now \in Nat /\ spent \in [Keys -> [Times -> Nat]]
  BY DEF LimiterInv, TypeOK, Times
<1>2. bucket' = [bucket EXCEPT ![k] = [tokens |-> Refilled(k), last |-> now]]
      /\ now' = now /\ spent' = spent
  BY DEF Refuse, Keep
<1>3. bucket \in [Keys -> [tokens : 0 .. Full, last : 0 .. now] \cup {None}]
  BY DEF LimiterInv, TypeOK
<1>4. [tokens |-> Refilled(k), last |-> now] \in [tokens : 0 .. Full, last : 0 .. now]
  BY <1>1, RefilledIsAccounted
<1>5. TypeOK'
  BY <1>1, <1>2, <1>3, <1>4 DEF TypeOK, Full, Times
<1>6. bucket'[k] # None /\ bucket'[k].tokens = Refilled(k) /\ bucket'[k].last = now
  BY <1>2, <1>3, <1>4
<1>7. \A s \in Times : s <= now <=> s \in 0 .. now
  BY <1>1 DEF Times
<1>8. Accounted(k)'
  BY <1>2, <1>6, <1>7, RefilledIsAccounted DEF Accounted, Full, Times
<1>9. Earned(k)'
  <2>1. PICK s \in 0 .. now : Refilled(k) + spent[k][s] * Minute = Full + PerMinute * (now - s)
    BY RefilledIsAccounted
  <2>2. s \in Times /\ s <= now
    BY <1>1 DEF Times
  <2> QED BY <2>1, <2>2, <1>2, <1>6 DEF Earned, Full, Times
<1>10. ASSUME NEW j \in Keys \ {k}
       PROVE  IF bucket'[j] = None THEN \A s \in Times : spent'[j][s] = 0
              ELSE (Accounted(j) /\ Earned(j))'
  <2>1. bucket'[j] = bucket[j]
    BY <1>2, <1>3
  <2> QED BY <2>1, <1>2 DEF LimiterInv, Accounted, Earned, Full, Times
<1> QED BY <1>5, <1>6, <1>8, <1>9, <1>10 DEF LimiterInv, Times

LEMMA LimiterStep == LimiterInv /\ [Next]_vars => LimiterInv'
<1> SUFFICES ASSUME LimiterInv, [Next]_vars PROVE LimiterInv'
  OBVIOUS
<1> USE LimiterAssumption
<1>1. ASSUME NEW k \in Keys, Serve(k) PROVE LimiterInv'
  BY <1>1, ServeKeeps
<1>2. ASSUME NEW k \in Keys, Refuse(k) PROVE LimiterInv'
  BY <1>2, RefuseKeeps
<1>3. CASE Tick
  <2>1. now \in 0 .. now' /\ now' \in Times /\ bucket' = bucket /\ spent' = spent
    BY <1>3 DEF Tick, LimiterInv, TypeOK, Times
  <2>2. 0 .. now \subseteq 0 .. now'
    BY <2>1 DEF Times
  <2>3. bucket' \in [Keys -> [tokens : 0 .. Full, last : 0 .. now'] \cup {None}]
    BY <2>1, <2>2 DEF LimiterInv, TypeOK
  <2>4. TypeOK'
    BY <2>1, <2>3 DEF LimiterInv, TypeOK, Full, Times
  <2> QED BY <2>1, <2>4 DEF LimiterInv, Accounted, Earned, Full, Times
<1>4. CASE Restart
  <2>1. TypeOK'
    BY <1>4 DEF Restart, LimiterInv, TypeOK, Full, Times
  <2>2. \A k \in Keys : bucket'[k] = None /\ \A s \in Times : spent'[k][s] = 0
    BY <1>4 DEF Restart
  <2> QED BY <2>1, <2>2 DEF LimiterInv, Times
<1>5. CASE UNCHANGED vars
  BY <1>5 DEF LimiterInv, TypeOK, Accounted, Earned, Full, Times, vars
<1> QED BY <1>1, <1>2, <1>3, <1>4, <1>5 DEF Next

-----------------------------------------------------------------------------
(* Theorems                                                                *)

\* No bucket has more than it holds, or was last asked in the future.
THEOREM LimiterTypeCorrect == Spec => []TypeOK
<1>1. LimiterInv => TypeOK
  BY DEF LimiterInv
<1> QED BY <1>1, LimiterInit, LimiterStep, PTL DEF Spec

\* In any window of time a key is served no more than a full bucket and what
\* is refilled in it.
THEOREM AllowanceIsKept == Spec => []WithinAllowance
<1>1. LimiterInv => WithinAllowance
  <2> SUFFICES ASSUME LimiterInv, NEW k \in Keys, NEW s \in 0 .. now
               PROVE  spent[k][s] * Minute <= Full + PerMinute * (now - s)
    BY DEF WithinAllowance
  <2> USE LimiterAssumption, FullIsNat
  <2>1. now \in Times /\ now \in Nat /\ s \in Times /\ spent[k][s] \in Nat
    BY DEF LimiterInv, TypeOK, Times
  <2>2. Refilled(k) \in Nat /\ spent[k][s] * Minute \in Nat /\ PerMinute * (now - s) \in Nat
    <3>1. now - s \in Nat
      BY <2>1
    <3> QED BY <2>1, <3>1, RefilledIsAccounted, ProductIsNat
  <2>3. Refilled(k) + spent[k][s] * Minute <= Full + PerMinute * (now - s)
    BY RefilledIsAccounted
  <2> QED BY <2>2, <2>3
<1> QED BY <1>1, LimiterInit, LimiterStep, PTL DEF Spec

\* And it is refused only when it has been served just as much.
THEOREM RefusalsAreDeserved == Spec => []RefusalIsDeserved
<1>1. LimiterInv => RefusalIsDeserved
  <2> SUFFICES ASSUME LimiterInv, NEW k \in Keys, ~Affords(k)
               PROVE  \E s \in 0 .. now : (spent[k][s] + 1) * Minute > Full + PerMinute * (now - s)
    BY DEF RefusalIsDeserved
  <2> USE LimiterAssumption, FullIsNat
  <2>1. PICK s \in 0 .. now : Refilled(k) + spent[k][s] * Minute = Full + PerMinute * (now - s)
    BY RefilledIsAccounted
  <2>2. now \in Nat /\ spent[k][s] \in Nat
    BY DEF LimiterInv, TypeOK, Times
  <2>3. Refilled(k) \in Nat /\ Refilled(k) < Minute
    BY RefilledIsAccounted DEF Affords
  <2>4. (spent[k][s] + 1) * Minute = spent[k][s] * Minute + Minute
    BY <2>2, OneMoreServed
  <2>5. spent[k][s] * Minute \in Nat
    BY <2>2, ProductIsNat
  <2>6. (spent[k][s] + 1) * Minute > Full + PerMinute * (now - s)
    BY <2>1, <2>3, <2>4, <2>5
  <2> QED BY <2>6
<1> QED BY <1>1, LimiterInit, LimiterStep, PTL DEF Spec

-----------------------------------------------------------------------------
(* The gateway implements the limiter                                      *)

LEMMA GatewayStepIsLimited == [GatewayNext]_gateway => [Next]_vars
<1> SUFFICES ASSUME [GatewayNext]_gateway PROVE [Next]_vars
  OBVIOUS
<1>1. ASSUME NEW r \in Requests, NEW k \in Keys, Admit(r, k) \/ Limit(r, k) PROVE Next
  BY <1>1 DEF Admit, Limit, Next
<1>2. ASSUME NEW r \in Requests,
             \/ Lookup(r) \/ Insert(r) \/ Confirm(r) \/ SignIn(r) \/ Renew(r)
             \/ AdmitSearch(r) \/ Prepare(r) \/ Query(r)
      PROVE  UNCHANGED limiter
  BY <1>2 DEF Lookup, Insert, Confirm, SignIn, Renew, AdmitSearch, Prepare, Query, Find
<1>3. ASSUME \/ \E d \in Docs : Rebuild(d)
             \/ \E s \in rows, v \in Vectors : Embed(s, v)
             \/ Seed
      PROVE  UNCHANGED limiter
  BY <1>3 DEF Rebuild, Embed, Seed
<1>4. Pass \/ Crash => Next
  BY DEF Pass, Crash, Next
<1>5. UNCHANGED gateway \/ UNCHANGED limiter => UNCHANGED vars
  BY DEF gateway, limiter, vars
<1> QED BY <1>1, <1>2, <1>3, <1>4, <1>5 DEF GatewayNext

\* In front of the routers the buckets do what they do alone: no handler gives
\* a token back or takes a second one.
THEOREM GatewayImplementsLimiter == GatewaySpec => Spec
<1>1. GatewayInit => Init
  BY DEF GatewayInit
<1> QED BY <1>1, GatewayStepIsLimited, PTL DEF GatewaySpec, Spec

\* So requests are limited as the buckets promise, whatever they ask.
THEOREM GatewayLimits == GatewaySpec => [](WithinAllowance /\ RefusalIsDeserved)
BY GatewayImplementsLimiter, AllowanceIsKept, RefusalsAreDeserved, PTL

LEMMA GatewayLimiterInv == GatewaySpec => []LimiterInv
BY GatewayImplementsLimiter, LimiterInit, LimiterStep, PTL DEF Spec

-----------------------------------------------------------------------------
(* The inductive invariant of the accounts and the searches                *)

Phases == {"new", "admitted", "absent", "stored", "ready", "done"}
Statuses == {"none", "200", "201", "500", "lost"} \cup Refused
Asks ==
  (([op : {"register"}, email : Emails, password : Requests]
     \cup [op : {"login"}, email : Emails, password : Requests \cup {"seed"}])
    \cup [op : {"refresh"}, with : Requests])
    \cup [op : {"search"}, with : Requests, doc : Docs \cup {None},
          symbol : (Docs \X (1 .. MaxRuns)) \cup {None}, text : Vectors \cup {None}]
Call == [phase : Phases, ask : Asks \cup {None}, vector : Vectors \cup {None}]
Hits == [plan : {"sorted", "scanned"}, best : SUBSET Row, self : SUBSET Row]

Typed ==
  /\ users \subseteq User /\ rows \subseteq Row /\ runs \in 0 .. MaxRuns
  /\ call \in [Requests -> Call]
  /\ answer \in [Requests -> Statuses]
  /\ token \in [Requests -> Token \cup {None}]
  /\ hits \in [Requests -> Hits \cup {None}]

\* The account a request asked for has the password it gave.
Stands(q) == \E u \in Account(call[q].ask.email) : u.password = q

RegisterOK(q) ==
  /\ call[q].phase = "stored" \/ answer[q] = "201" => Stands(q)
  /\ answer[q] \in {"409", "500"} => Account(call[q].ask.email) # {}
  /\ answer[q] # "none" => call[q].phase = "done"

\* Tokens are of the account that signed in at their root, and of its role.
TokenOK(q) ==
  token[q] # None =>
    /\ call[q].phase = "done" /\ token[q].issued <= now
    /\ call[token[q].root].phase = "done"
    /\ token[q].sub = Lower[call[token[q].root].ask.email]
    /\ \E u \in users : u.email = token[q].sub /\ u.role = token[q].role

\* A request that carries tokens carries some that were issued.
CarriesOK(q) ==
  call[q].phase \notin {"new", "done"} =>
    /\ call[q].ask \in Asks
    /\ call[q].ask.op \in {"refresh", "search"} =>
         call[q].ask.with \in Requests /\ token[call[q].ask.with] # None

HitsOK(q) ==
  hits[q] # None =>
    /\ call[q].phase = "done"
    /\ call[q].ask.with \in Requests /\ token[call[q].ask.with] # None
    /\ \A s \in hits[q].best : Owns(call[q].ask.with, s.doc)

RequestOK(q) == RegisterOK(q) /\ TokenOK(q) /\ CarriesOK(q) /\ HitsOK(q)

GatewayInv ==
  /\ Typed
  /\ OneAccountPerEmail
  /\ \A q \in Requests : RequestOK(q)

\* What no step takes back.
Grew ==
  /\ users \subseteq users' /\ now <= now'
  /\ \A q \in Requests :
       /\ call[q].phase = "done" => call'[q] = call[q]
       /\ token[q] # None => token'[q] = token[q]

SameRequest(q) ==
  call'[q] = call[q] /\ answer'[q] = answer[q] /\ token'[q] = token[q] /\ hits'[q] = hits[q]

LEMMA OthersKeep ==
  ASSUME Typed, TypeOK, TypeOK', Grew, NEW q \in Requests, RequestOK(q), SameRequest(q)
  PROVE  RequestOK(q)'
<1>1. RegisterOK(q)'
  BY DEF RequestOK, RegisterOK, Stands, Account, Grew, SameRequest
<1>2. TokenOK(q)'
  <2> SUFFICES ASSUME token[q] # None PROVE TokenOK(q)'
    BY DEF TokenOK, SameRequest
  <2>1. token[q] \in Token /\ token[q].root \in Requests /\ token[q].issued \in Nat
    BY DEF Typed, Token, Times
  <2>2. now \in Nat /\ now' \in Nat
    BY DEF TypeOK, Times
  <2>3. TokenOK(q)
    BY DEF RequestOK
  <2>4. token'[q] = token[q] /\ call'[q] = call[q]
        /\ call'[token[q].root] = call[token[q].root]
    BY <2>1, <2>3 DEF SameRequest, Grew, TokenOK
  <2>5. token[q].issued <= now'
    BY <2>1, <2>2, <2>3 DEF TokenOK, Grew
  <2> QED BY <2>3, <2>4, <2>5 DEF TokenOK, Grew
<1>3. CarriesOK(q)'
  BY DEF RequestOK, CarriesOK, Grew, SameRequest
<1>4. HitsOK(q)'
  <2> SUFFICES ASSUME hits[q] # None PROVE HitsOK(q)'
    BY DEF HitsOK, SameRequest
  <2>1. HitsOK(q)
    BY DEF RequestOK
  <2>2. hits'[q] = hits[q] /\ call'[q] = call[q] /\ call[q].ask.with \in Requests
        /\ token'[call[q].ask.with] = token[call[q].ask.with] /\ token[call[q].ask.with] # None
    BY <2>1 DEF HitsOK, SameRequest, Grew
  <2> QED BY <2>1, <2>2 DEF HitsOK, Owns
<1> QED BY <1>1, <1>2, <1>3, <1>4 DEF RequestOK

LEMMA Pending ==
  ASSUME GatewayInv, NEW r \in Requests, call[r].phase # "done"
  PROVE  token[r] = None /\ hits[r] = None /\ answer[r] = "none"
BY DEF GatewayInv, RequestOK, RegisterOK, TokenOK, HitsOK

\* A step of request r leaves the invariant if it does so for r.
LEMMA StepOfOne ==
  ASSUME GatewayInv, TypeOK, TypeOK', NEW r \in Requests, call[r].phase # "done",
         Typed', OneAccountPerEmail', users \subseteq users', now' = now,
         \A q \in Requests \ {r} : SameRequest(q),
         RequestOK(r)'
  PROVE  GatewayInv' /\ Grew
<1>1. Grew
  <2>1. now \in Nat
    BY DEF TypeOK, Times
  <2> QED BY <2>1, Pending DEF Grew, SameRequest
<1>2. ASSUME NEW q \in Requests PROVE RequestOK(q)'
  <2>1. CASE q = r
    BY <2>1
  <2>2. CASE q # r
    BY <1>1, <2>2, OthersKeep DEF GatewayInv
  <2> QED BY <2>1, <2>2
<1> QED BY <1>1, <1>2 DEF GatewayInv

\* Steps that leave every request as it is.
LEMMA StepOfNone ==
  ASSUME GatewayInv, TypeOK, TypeOK', Typed', OneAccountPerEmail', users \subseteq users',
         now <= now', UNCHANGED <<call, answer, token, hits>>
  PROVE  GatewayInv'
<1>1. Grew /\ \A q \in Requests : SameRequest(q)
  BY DEF Grew, SameRequest
<1> QED BY <1>1, OthersKeep DEF GatewayInv

LEMMA Advances ==
  ASSUME Typed, NEW r \in Requests, NEW p \in Phases, Advance(r, p)
  PROVE  /\ call' \in [Requests -> Call]
         /\ call'[r].phase = p /\ call'[r].ask = call[r].ask
         /\ \A q \in Requests \ {r} : call'[q] = call[q]
<1>1. call[r] \in Call
  BY DEF Typed
<1>2. [call[r] EXCEPT !.phase = p] = [phase |-> p, ask |-> call[r].ask, vector |-> call[r].vector]
  BY <1>1 DEF Call
<1>4. call' = [q \in Requests |-> IF q = r THEN [call[r] EXCEPT !.phase = p] ELSE call[q]]
  BY DEF Typed, Advance
<1>3. [phase |-> p, ask |-> call[r].ask, vector |-> call[r].vector] \in Call
  BY <1>1 DEF Call
<1> QED BY <1>2, <1>3, <1>4 DEF Typed

LEMMA Answers ==
  ASSUME Typed, NEW r \in Requests, NEW status \in Statuses, Answer(r, status)
  PROVE  /\ call' \in [Requests -> Call] /\ answer' \in [Requests -> Statuses]
         /\ call'[r].phase = "done" /\ answer'[r] = status
         /\ status \notin Vain => call'[r].ask = call[r].ask
         /\ \A q \in Requests \ {r} : call'[q] = call[q] /\ answer'[q] = answer[q]
<1>1. call[r] \in Call
  BY DEF Typed
<1>2. /\ Done(r, status) \in Call /\ Done(r, status).phase = "done"
      /\ status \notin Vain => Done(r, status).ask = call[r].ask
  <2>1. CASE status \in Vain
    <3>1. Done(r, status) = [phase |-> "done", ask |-> None, vector |-> None]
      BY <2>1 DEF Done, New
    <3> QED BY <2>1, <3>1 DEF Call, Phases
  <2>2. CASE status \notin Vain
    <3>1. Done(r, status) = [phase |-> "done", ask |-> call[r].ask, vector |-> call[r].vector]
      BY <1>1, <2>2 DEF Done, Call
    <3> QED BY <1>1, <3>1 DEF Call, Phases
  <2> QED BY <2>1, <2>2
<1>3. call' = [call EXCEPT ![r] = Done(r, status)] /\ answer' = [answer EXCEPT ![r] = status]
  BY DEF Answer
<1> QED BY <1>2, <1>3 DEF Typed

-----------------------------------------------------------------------------
(* Every action                                                            *)

LEMMA SendKeeps ==
  ASSUME GatewayInv, TypeOK, TypeOK', now' = now, NEW r \in Requests,
         NEW ask \in Auth(r) \cup Search, Send(r, ask)
  PROVE  GatewayInv'
<1> DEFINE sent == [phase |-> "admitted", ask |-> ask, vector |-> None]
<1>1. call[r] = New /\ call' = [call EXCEPT ![r] = sent]
  BY DEF Send, New
<1>2. ask \in Asks /\ (ask.op \in {"refresh", "search"} =>
                         ask.with \in Requests /\ token[ask.with] # None)
  <2>1. CASE ask \in Auth(r)
    BY <2>1 DEF Auth, Asks
  <2>2. CASE ask \in Search
    <3>1. \A s \in rows : Id(s) \in Docs \X (1 .. MaxRuns)
      BY DEF GatewayInv, Typed, Row, Id
    <3> QED BY <2>2, <3>1 DEF Search, Asks
  <2> QED BY <2>1, <2>2
<1>3. sent \in Call
  BY <1>2 DEF Call, Phases
<1>4. UNCHANGED <<users, rows, runs, answer, token, hits>>
  BY DEF Send, store
<1>5. Typed' /\ OneAccountPerEmail'
  BY <1>1, <1>3, <1>4 DEF GatewayInv, Typed, OneAccountPerEmail
<1>6. call[r].phase # "done"
  BY <1>1 DEF New
<1>7. call'[r] = sent /\ \A q \in Requests \ {r} : SameRequest(q)
  BY <1>1, <1>4 DEF GatewayInv, Typed, SameRequest
<1>8. RequestOK(r)'
  BY <1>2, <1>4, <1>6, <1>7, Pending
     DEF RequestOK, RegisterOK, TokenOK, CarriesOK, HitsOK
<1> QED BY <1>4, <1>5, <1>6, <1>7, <1>8, StepOfOne

\* A request that is answered, and gets no tokens and no hits.
LEMMA AnswerKeeps ==
  ASSUME GatewayInv, TypeOK, TypeOK', now' = now, NEW r \in Requests, NEW status \in Statuses,
         Answer(r, status), call[r].phase # "done",
         status = "201" => Stands(r),
         status \in {"409", "500"} => Account(call[r].ask.email) # {},
         UNCHANGED <<users, store, token, hits>>
  PROVE  GatewayInv'
<1>1. UNCHANGED <<users, rows, runs, token, hits>>
  BY DEF store
<1>2. /\ call' \in [Requests -> Call] /\ answer' \in [Requests -> Statuses]
      /\ call'[r].phase = "done" /\ answer'[r] = status
      /\ status \notin Vain => call'[r].ask = call[r].ask
      /\ \A q \in Requests \ {r} : call'[q] = call[q] /\ answer'[q] = answer[q]
  BY Answers DEF GatewayInv
<1>3. Typed' /\ OneAccountPerEmail'
  BY <1>1, <1>2 DEF GatewayInv, Typed, OneAccountPerEmail
<1>4. \A q \in Requests \ {r} : SameRequest(q)
  BY <1>1, <1>2 DEF SameRequest
<1>5. RequestOK(r)'
  <2>1. RegisterOK(r)'
    BY <1>1, <1>2 DEF RegisterOK, Stands, Account, Vain, Refused
  <2> QED BY <1>1, <1>2, <2>1, Pending DEF RequestOK, TokenOK, CarriesOK, HitsOK
<1> QED BY <1>1, <1>3, <1>4, <1>5, StepOfOne

\* A request that goes on, and gets neither an answer nor tokens.
LEMMA AdvanceKeeps ==
  ASSUME GatewayInv, TypeOK, TypeOK', now' = now, NEW r \in Requests,
         NEW p \in {"absent", "stored"}, Advance(r, p), call[r].phase \notin {"new", "done"},
         users' \subseteq User, users \subseteq users', OneAccountPerEmail',
         p = "stored" => Stands(r)',
         UNCHANGED <<store, answer, token, hits>>
  PROVE  GatewayInv'
<1>1. UNCHANGED <<rows, runs, answer, token, hits>>
  BY DEF store
<1>2. /\ call' \in [Requests -> Call]
      /\ call'[r].phase = p /\ call'[r].ask = call[r].ask
      /\ \A q \in Requests \ {r} : call'[q] = call[q]
  BY Advances DEF GatewayInv, Phases
<1>3. Typed'
  BY <1>1, <1>2 DEF GatewayInv, Typed
<1>4. \A q \in Requests \ {r} : SameRequest(q)
  BY <1>1, <1>2 DEF SameRequest
<1>5. CarriesOK(r)
  BY DEF GatewayInv, RequestOK
<1>6. RequestOK(r)'
  BY <1>1, <1>2, <1>5, Pending DEF RequestOK, RegisterOK, TokenOK, CarriesOK, HitsOK
<1> QED BY <1>3, <1>4, <1>6, StepOfOne

LEMMA LookupKeeps ==
  ASSUME GatewayInv, TypeOK, TypeOK', NEW r \in Requests, Lookup(r)
  PROVE  GatewayInv'
<1>1. /\ call[r].phase = "admitted" /\ now' = now
      /\ UNCHANGED <<users, store, token, hits>>
  BY DEF Lookup, At, limiter
<1>2. CASE Account(call[r].ask.email) # {}
  <2>1. Answer(r, "409")
    BY <1>2 DEF Lookup
  <2> QED BY <1>1, <1>2, <2>1, AnswerKeeps DEF Statuses, Refused
<1>3. CASE Account(call[r].ask.email) = {}
  <2>1. Advance(r, "absent") /\ UNCHANGED answer
    BY <1>3 DEF Lookup
  <2>2. users' \subseteq User /\ users \subseteq users' /\ OneAccountPerEmail'
    BY <1>1 DEF GatewayInv, Typed, OneAccountPerEmail
  <2> QED BY <1>1, <2>1, <2>2, AdvanceKeeps
<1> QED BY <1>2, <1>3

\* An account for an email that has none.
LEMMA NewUserIsAlone ==
  ASSUME GatewayInv, NEW email \in Emails, NEW password \in Requests \cup {"seed"},
         NEW role \in {"engineer", "admin"}, Account(email) = {}, NewUser(email, password, role)
  PROVE  /\ users' \subseteq User /\ users \subseteq users' /\ OneAccountPerEmail'
         /\ \E u \in users' : u.email = Lower[email] /\ u.password = password
<1> DEFINE new == [email |-> Lower[email], password |-> password, role |-> role]
<1>1. users' = users \cup {new}
  BY DEF NewUser
<1>2. Lower[email] \in Emails
  BY GatewayAssumption
<1>3. new \in User /\ users \subseteq User
  BY <1>2 DEF User, GatewayInv, Typed
<1>4. \A u \in users : u.email # new.email
  BY DEF Account
<1>5. OneAccountPerEmail'
  BY <1>1, <1>4 DEF GatewayInv, OneAccountPerEmail
<1> QED BY <1>1, <1>3, <1>5

LEMMA InsertKeeps ==
  ASSUME GatewayInv, TypeOK, TypeOK', NEW r \in Requests, Insert(r)
  PROVE  GatewayInv'
<1> DEFINE email == call[r].ask.email
<1>1. /\ call[r].phase = "absent" /\ call[r].ask.op = "register" /\ now' = now
      /\ UNCHANGED <<store, token, hits>>
  BY DEF Insert, At, limiter
<1>2. CASE Account(email) # {}
  <2>1. Answer(r, "500") /\ UNCHANGED users
    BY <1>2 DEF Insert
  <2> QED BY <1>1, <1>2, <2>1, AnswerKeeps DEF Statuses, Refused
<1>3. CASE Account(email) = {}
  <2>1. NewUser(email, r, "engineer") /\ Advance(r, "stored") /\ UNCHANGED answer
    BY <1>3 DEF Insert
  <2>2. email \in Emails
    <3>1. call[r].ask \in Asks
      BY <1>1 DEF GatewayInv, RequestOK, CarriesOK
    <3> QED BY <1>1, <3>1 DEF Asks
  <2>3. /\ users' \subseteq User /\ users \subseteq users' /\ OneAccountPerEmail'
        /\ \E u \in users' : u.email = Lower[email] /\ u.password = r
    BY <1>3, <2>1, <2>2, NewUserIsAlone
  <2>4. call'[r].ask = call[r].ask
    BY <2>1, Advances DEF GatewayInv, Phases
  <2>5. Stands(r)'
    BY <2>3, <2>4 DEF Stands, Account
  <2> QED BY <1>1, <2>1, <2>3, <2>5, AdvanceKeeps
<1> QED BY <1>2, <1>3

LEMMA ConfirmKeeps ==
  ASSUME GatewayInv, TypeOK, TypeOK', NEW r \in Requests, Confirm(r)
  PROVE  GatewayInv'
<1>1. /\ call[r].phase = "stored" /\ now' = now /\ Answer(r, "201")
      /\ UNCHANGED <<users, store, token, hits>>
  BY DEF Confirm, At, limiter
<1>2. Stands(r)
  BY <1>1 DEF GatewayInv, RequestOK, RegisterOK
<1> QED BY <1>1, <1>2, AnswerKeeps DEF Statuses, Refused

\* A request that is answered with tokens of an account.
LEMMA IssueKeeps ==
  ASSUME GatewayInv, TypeOK, TypeOK', now' = now, NEW r \in Requests,
         NEW sub \in Emails, NEW role \in {"engineer", "admin"}, NEW root \in Requests,
         Issue(r, sub, role, root), Answer(r, "200"), call[r].phase # "done",
         root = r \/ call[root].phase = "done",
         sub = Lower[call[root].ask.email],
         \E u \in users : u.email = sub /\ u.role = role,
         UNCHANGED <<users, store, hits>>
  PROVE  GatewayInv'
<1> DEFINE new == [sub |-> sub, role |-> role, issued |-> now, root |-> root]
<1>1. UNCHANGED <<users, rows, runs, hits>>
  BY DEF store
<1>2. /\ call' \in [Requests -> Call] /\ answer' \in [Requests -> Statuses]
      /\ call'[r].phase = "done" /\ answer'[r] = "200"
      /\ call'[r].ask = call[r].ask
      /\ \A q \in Requests \ {r} : call'[q] = call[q] /\ answer'[q] = answer[q]
  BY Answers DEF GatewayInv, Statuses, Refused, Vain
<1>3. token' = [token EXCEPT ![r] = new]
  BY DEF Issue
<1>4. new \in Token /\ now \in Nat
  BY DEF Token, TypeOK, Times
<1>5. Typed' /\ OneAccountPerEmail'
  BY <1>1, <1>2, <1>3, <1>4 DEF GatewayInv, Typed, OneAccountPerEmail
<1>6. \A q \in Requests \ {r} : SameRequest(q)
  BY <1>1, <1>2, <1>3 DEF SameRequest, GatewayInv, Typed
<1>7. TokenOK(r)'
  <2>1. token'[r] = new
    BY <1>3 DEF GatewayInv, Typed
  <2>2. call'[root].phase = "done" /\ call'[root].ask = call[root].ask
    BY <1>2
  <2>3. new.sub = sub /\ new.role = role /\ new.issued = now /\ new.root = root
    OBVIOUS
  <2> HIDE DEF new
  <2> QED BY <1>1, <1>2, <1>4, <2>1, <2>2, <2>3 DEF TokenOK
<1>8. RequestOK(r)'
  BY <1>1, <1>2, <1>7, Pending DEF RequestOK, RegisterOK, CarriesOK, HitsOK
<1> QED BY <1>1, <1>5, <1>6, <1>8, StepOfOne

LEMMA SignInKeeps ==
  ASSUME GatewayInv, TypeOK, TypeOK', NEW r \in Requests, SignIn(r)
  PROVE  GatewayInv'
<1> DEFINE ask == call[r].ask
           known == {u \in Account(ask.email) : u.password = ask.password}
<1>1. call[r].phase = "admitted" /\ now' = now /\ UNCHANGED <<users, store, hits>>
  BY DEF SignIn, At, limiter
<1>2. CASE Answer(r, "401") /\ UNCHANGED token
  BY <1>1, <1>2, AnswerKeeps DEF Statuses, Refused
<1>3. ASSUME NEW u \in known, Issue(r, u.email, u.role, r), Answer(r, "200")
      PROVE  GatewayInv'
  <2>1. u \in users /\ u.email = Lower[ask.email]
    BY DEF Account
  <2>2. u.email \in Emails /\ u.role \in {"engineer", "admin"}
    BY <2>1 DEF GatewayInv, Typed, User
  <2> QED BY <1>1, <1>3, <2>1, <2>2, IssueKeeps
<1> QED BY <1>2, <1>3 DEF SignIn

LEMMA RenewKeeps ==
  ASSUME GatewayInv, TypeOK, TypeOK', NEW r \in Requests, Renew(r)
  PROVE  GatewayInv'
<1> DEFINE old == call[r].ask.with
<1>1. /\ call[r].phase = "admitted" /\ call[r].ask.op = "refresh" /\ now' = now
      /\ UNCHANGED <<users, store, hits>>
  BY DEF Renew, At, limiter
<1>2. CASE Answer(r, "401") /\ UNCHANGED token
  BY <1>1, <1>2, AnswerKeeps DEF Statuses, Refused
<1>3. CASE Issue(r, token[old].sub, token[old].role, token[old].root) /\ Answer(r, "200")
  <2>1. old \in Requests /\ token[old] # None
    BY <1>1 DEF GatewayInv, RequestOK, CarriesOK
  <2>2. TokenOK(old) /\ token[old] \in Token
    BY <2>1 DEF GatewayInv, RequestOK, Typed
  <2>3. token[old].sub \in Emails /\ token[old].role \in {"engineer", "admin"}
        /\ token[old].root \in Requests
    BY <2>2 DEF Token
  <2> QED BY <1>1, <1>3, <2>1, <2>2, <2>3, IssueKeeps DEF TokenOK
<1> QED BY <1>2, <1>3 DEF Renew

LEMMA PrepareKeeps ==
  ASSUME GatewayInv, TypeOK, TypeOK', NEW r \in Requests, Prepare(r)
  PROVE  GatewayInv'
<1> DEFINE ask == call[r].ask
           found == {s \in rows : Id(s) = ask.symbol}
           refused ==
             IF ~Valid(ask.with, AccessTtl) THEN "401"
             ELSE IF ask.doc # None /\ ~Owns(ask.with, ask.doc) THEN "403"
             ELSE IF ask.symbol # None /\ found = {} THEN "404"
             ELSE IF \E s \in found : ~Owns(ask.with, s.doc) THEN "403"
             ELSE IF \E s \in found : s.vector = None THEN "422"
             ELSE "no"
<1>1. /\ call[r].phase = "admitted" /\ ask.op = "search" /\ now' = now
      /\ UNCHANGED <<users, store, token, hits>>
  BY DEF Prepare, At, limiter
<1>2. IF refused # "no" THEN Answer(r, refused)
      ELSE /\ UNCHANGED answer
           /\ \E v \in {s.vector : s \in found} \cup ({ask.text} \ {None}) :
                call' = [call EXCEPT ![r] = [phase |-> "ready", ask |-> ask, vector |-> v]]
  BY DEF Prepare
<1>3. refused \in {"401", "403", "404", "422", "no"}
  OBVIOUS
<1>4. CarriesOK(r)
  BY DEF GatewayInv, RequestOK
<1>5. CASE refused # "no"
  <2>1. PICK status \in {"401", "403", "404", "422"} : Answer(r, status)
    BY <1>2, <1>3, <1>5
  <2> QED BY <1>1, <2>1, AnswerKeeps DEF Statuses, Refused
<1>6. CASE refused = "no"
  <2>1. PICK v \in {s.vector : s \in found} \cup ({ask.text} \ {None}) :
          call' = [call EXCEPT ![r] = [phase |-> "ready", ask |-> ask, vector |-> v]]
    BY <1>2, <1>6
  <2>2. ask \in Asks
    BY <1>1, <1>4 DEF CarriesOK
  <2>3. v \in Vectors \cup {None}
    <3>1. \A s \in rows : s.vector \in Vectors \cup {None}
      BY DEF GatewayInv, Typed, Row
    <3>2. ask.text \in Vectors \cup {None}
      BY <1>1, <2>2 DEF Asks
    <3> QED BY <3>1, <3>2
  <2> DEFINE ready == [phase |-> "ready", ask |-> ask, vector |-> v]
  <2>4. ready \in Call
    BY <2>2, <2>3 DEF Call, Phases
  <2>5. UNCHANGED <<users, rows, runs, answer, token, hits>>
    BY <1>1, <1>2, <1>6 DEF store
  <2>6. Typed' /\ OneAccountPerEmail'
    BY <2>1, <2>4, <2>5 DEF GatewayInv, Typed, OneAccountPerEmail
  <2>7. call'[r] = ready /\ \A q \in Requests \ {r} : SameRequest(q)
    BY <2>1, <2>5 DEF GatewayInv, Typed, SameRequest
  <2>8. RequestOK(r)'
    BY <1>1, <1>4, <2>5, <2>7, Pending
       DEF RequestOK, RegisterOK, TokenOK, CarriesOK, HitsOK
  <2> QED BY <1>1, <2>5, <2>6, <2>7, <2>8, StepOfOne
<1> QED BY <1>5, <1>6

\* Whatever plan the database takes, what it finds passes the filters.
LEMMA FoundMatches ==
  ASSUME NEW vector, NEW owner, NEW doc,
         NEW best \in Sorted(rows, vector, owner, doc) \cup Scanned(rows, vector, owner, doc)
  PROVE  best \subseteq Matching(rows, owner, doc)
<1>1. CASE best \in Sorted(rows, vector, owner, doc)
  BY <1>1 DEF Sorted, Nearest
<1>2. CASE best \in Scanned(rows, vector, owner, doc)
  <2>1. PICK F \in SUBSET Matching(rows, None, None) :
               best \in Nearest(Matching(F, owner, doc), vector, TopK)
    BY <1>2 DEF Scanned
  <2>2. best \subseteq Matching(F, owner, doc)
    BY <2>1 DEF Nearest
  <2>3. F \subseteq rows
    BY <2>1 DEF Matching
  <2> QED BY <2>2, <2>3 DEF Matching
<1> QED BY <1>1, <1>2

LEMMA QueryKeeps ==
  ASSUME GatewayInv, TypeOK, TypeOK', NEW r \in Requests, Query(r)
  PROVE  GatewayInv'
<1> DEFINE ask == call[r].ask
           scope == Scope(ask.with)
<1>1. /\ call[r].phase = "ready" /\ ask.op = "search" /\ now' = now /\ Answer(r, "200")
      /\ UNCHANGED <<users, rows, runs, token>>
  BY DEF Query, Find, At, limiter, store
<1>2. PICK plan \in {"sorted", "scanned"} :
        \E best \in IF plan = "sorted" THEN Sorted(rows, call[r].vector, scope, ask.doc)
                    ELSE Scanned(rows, call[r].vector, scope, ask.doc) :
          hits' = [hits EXCEPT ![r] =
                     [plan |-> plan, best |-> best, self |-> {s \in rows : Id(s) = ask.symbol}]]
  BY DEF Query, Find
<1>3. PICK best \in Sorted(rows, call[r].vector, scope, ask.doc)
                      \cup Scanned(rows, call[r].vector, scope, ask.doc) :
        hits' = [hits EXCEPT ![r] =
                   [plan |-> plan, best |-> best, self |-> {s \in rows : Id(s) = ask.symbol}]]
  BY <1>2
<1> DEFINE new == [plan |-> plan, best |-> best, self |-> {s \in rows : Id(s) = ask.symbol}]
<1>4. best \subseteq Matching(rows, scope, ask.doc)
  BY <1>3, FoundMatches
<1>5. best \subseteq rows /\ rows \subseteq Row
  BY <1>4 DEF Matching, GatewayInv, Typed
<1>6. new \in Hits
  BY <1>5 DEF Hits
<1>7. /\ call' \in [Requests -> Call] /\ answer' \in [Requests -> Statuses]
      /\ call'[r].phase = "done" /\ answer'[r] = "200" /\ call'[r].ask = ask
      /\ \A q \in Requests \ {r} : call'[q] = call[q] /\ answer'[q] = answer[q]
  BY <1>1, Answers DEF GatewayInv, Statuses, Refused, Vain
<1>8. hits' = [hits EXCEPT ![r] = new]
  BY <1>3
<1>9. Typed' /\ OneAccountPerEmail'
  BY <1>1, <1>6, <1>7, <1>8 DEF GatewayInv, Typed, OneAccountPerEmail
<1>10. \A q \in Requests \ {r} : SameRequest(q)
  BY <1>1, <1>7, <1>8 DEF SameRequest, GatewayInv, Typed
<1>11. ask.with \in Requests /\ token[ask.with] # None
  BY <1>1 DEF GatewayInv, RequestOK, CarriesOK
<1>12. \A s \in best : Owns(ask.with, s.doc)
  <2> SUFFICES ASSUME NEW s \in best, token[ask.with].role # "admin"
               PROVE  OwnerOf[s.doc] = token[ask.with].sub
    BY DEF Owns
  <2>1. token[ask.with].sub # None
    <3>1. token[ask.with] \in Token
      BY <1>11 DEF GatewayInv, Typed
    <3> QED BY <3>1, GatewayAssumption DEF Token
  <2>2. scope = token[ask.with].sub
    BY DEF Scope
  <2> QED BY <1>4, <2>1, <2>2 DEF Matching
<1>13. HitsOK(r)'
  <2>1. hits'[r].best = best
    BY <1>8 DEF GatewayInv, Typed
  <2> QED BY <1>1, <1>7, <1>11, <1>12, <2>1 DEF HitsOK, Owns
<1>14. RequestOK(r)'
  BY <1>1, <1>7, <1>13, Pending DEF RequestOK, RegisterOK, TokenOK, CarriesOK
<1> QED BY <1>1, <1>9, <1>10, <1>14, StepOfOne

LEMMA LimitKeeps ==
  ASSUME GatewayInv, TypeOK, TypeOK', NEW r \in Requests, NEW k \in Keys, Limit(r, k)
  PROVE  GatewayInv'
<1>1. /\ call[r].phase # "done" /\ now' = now /\ Answer(r, "429")
      /\ UNCHANGED <<users, store, token, hits>>
  BY DEF Limit, New, Refuse
<1> QED BY <1>1, AnswerKeeps DEF Statuses, Refused

LEMMA PipelineKeeps ==
  ASSUME GatewayInv, TypeOK, TypeOK',
         \/ \E d \in Docs : Rebuild(d)
         \/ \E s \in rows, v \in Vectors : Embed(s, v)
  PROVE  GatewayInv'
<1>1. UNCHANGED <<now, users, call, answer, token, hits>>
  BY DEF Rebuild, Embed, limiter
<1>2. rows' \subseteq Row /\ runs' \in 0 .. MaxRuns
  <2>1. rows \subseteq Row /\ runs \in 0 .. MaxRuns /\ MaxRuns \in Nat
    BY GatewayAssumption DEF GatewayInv, Typed
  <2>2. ASSUME NEW d \in Docs, Rebuild(d) PROVE rows' \subseteq Row /\ runs' \in 0 .. MaxRuns
    <3>1. runs + 1 \in 1 .. MaxRuns /\ runs' = runs + 1
      BY <2>1, <2>2 DEF Rebuild
    <3>2. [doc |-> d, run |-> runs + 1, vector |-> None] \in Row
      BY <3>1 DEF Row
    <3> QED BY <2>1, <2>2, <3>1, <3>2 DEF Rebuild
  <2>3. ASSUME NEW s \in rows, NEW v \in Vectors, Embed(s, v)
        PROVE  rows' \subseteq Row /\ runs' \in 0 .. MaxRuns
    <3>1. [s EXCEPT !.vector = v] \in Row
      BY <2>1 DEF Row
    <3> QED BY <2>1, <2>3, <3>1 DEF Embed
  <2> QED BY <2>2, <2>3
<1>3. Typed' /\ OneAccountPerEmail' /\ now \in Nat
  BY <1>1, <1>2 DEF GatewayInv, Typed, OneAccountPerEmail, TypeOK, Times
<1> QED BY <1>1, <1>3, StepOfNone

LEMMA SeedKeeps ==
  ASSUME GatewayInv, TypeOK, TypeOK', Seed
  PROVE  GatewayInv'
<1>1. /\ Account(Seeded) = {} /\ NewUser(Seeded, "seed", "admin") /\ now' = now
      /\ UNCHANGED <<rows, runs, call, answer, token, hits>>
  BY DEF Seed, limiter, store
<1>2. Seeded \in Emails
  BY GatewayAssumption
<1>3. users' \subseteq User /\ users \subseteq users' /\ OneAccountPerEmail'
  BY <1>1, <1>2, NewUserIsAlone
<1>4. Typed' /\ now \in Nat
  BY <1>1, <1>3 DEF GatewayInv, Typed, TypeOK, Times
<1> QED BY <1>1, <1>3, <1>4, StepOfNone

LEMMA PassKeeps ==
  ASSUME GatewayInv, TypeOK, TypeOK', Pass
  PROVE  GatewayInv'
<1>1. /\ now' = now + 1 /\ UNCHANGED <<users, rows, runs, call, answer, token, hits>>
  BY DEF Pass, Tick, store
<1>2. Typed' /\ OneAccountPerEmail' /\ now <= now'
  BY <1>1 DEF GatewayInv, Typed, OneAccountPerEmail, TypeOK, Times
<1> QED BY <1>1, <1>2, StepOfNone

LEMMA CrashKeeps ==
  ASSUME GatewayInv, TypeOK, TypeOK', Crash
  PROVE  GatewayInv'
<1> DEFINE lost == {q \in Requests : call[q].phase \notin {"new", "done"}}
           ended == [phase |-> "done", ask |-> None, vector |-> None]
<1>1. /\ now' = now /\ UNCHANGED <<users, rows, runs, token, hits>>
      /\ answer' = [q \in Requests |-> IF q \in lost THEN "lost" ELSE answer[q]]
      /\ call' = [q \in Requests |-> IF q \in lost THEN Done(q, "lost") ELSE call[q]]
  BY DEF Crash, Restart, store
<1>2. \A q \in Requests : Done(q, "lost") = ended
  BY DEF Done, Vain, Refused, New
<1>3. ended \in Call /\ "lost" \in Statuses
  BY DEF Call, Phases, Statuses, Refused
<1>4. Typed' /\ OneAccountPerEmail'
  BY <1>1, <1>2, <1>3 DEF GatewayInv, Typed, OneAccountPerEmail
<1>5. Grew
  BY <1>1 DEF Grew, TypeOK, Times
<1>6. ASSUME NEW q \in Requests PROVE RequestOK(q)'
  <2>1. CASE q \notin lost
    <3>1. SameRequest(q)
      BY <1>1, <2>1 DEF SameRequest
    <3> QED BY <1>5, <3>1, OthersKeep DEF GatewayInv
  <2>2. CASE q \in lost
    <3>1. token'[q] = None /\ hits'[q] = None /\ answer'[q] = "lost" /\ call'[q].phase = "done"
      BY <1>1, <1>2, <2>2, Pending
    <3> QED BY <3>1 DEF RequestOK, RegisterOK, TokenOK, CarriesOK, HitsOK
  <2> QED BY <2>1, <2>2
<1> QED BY <1>4, <1>6 DEF GatewayInv

-----------------------------------------------------------------------------
(* Theorems                                                                *)

LEMMA GatewayStarts == GatewayInit => GatewayInv
<1> SUFFICES ASSUME GatewayInit PROVE GatewayInv
  OBVIOUS
<1>1. New \in Call
  BY DEF New, Call, Phases
<1>2. /\ users = {} /\ rows = {} /\ runs = 0
      /\ call = [r \in Requests |-> New]
      /\ answer = [r \in Requests |-> "none"]
      /\ token = [r \in Requests |-> None]
      /\ hits = [r \in Requests |-> None]
  BY DEF GatewayInit
<1>3. Typed /\ OneAccountPerEmail
  <2>1. 0 \in 0 .. MaxRuns
    BY GatewayAssumption
  <2> QED BY <1>1, <1>2, <2>1 DEF Typed, OneAccountPerEmail, Statuses, Refused
<1>4. \A q \in Requests : RequestOK(q)
  BY <1>2 DEF RequestOK, RegisterOK, TokenOK, CarriesOK, HitsOK, New
<1> QED BY <1>3, <1>4 DEF GatewayInv

LEMMA GatewayStep ==
  GatewayInv /\ TypeOK /\ TypeOK' /\ [GatewayNext]_gateway => GatewayInv'
<1> SUFFICES ASSUME GatewayInv, TypeOK, TypeOK', [GatewayNext]_gateway PROVE GatewayInv'
  OBVIOUS
<1>1. ASSUME NEW r \in Requests, NEW k \in Keys, Admit(r, k) PROVE GatewayInv'
  <2>1. now' = now
    BY <1>1 DEF Admit, Serve
  <2> QED BY <1>1, <2>1, SendKeeps DEF Admit
<1>2. ASSUME NEW r \in Requests, AdmitSearch(r) PROVE GatewayInv'
  <2>1. now' = now
    BY <1>2 DEF AdmitSearch, limiter
  <2> QED BY <1>2, <2>1, SendKeeps DEF AdmitSearch
<1>3. ASSUME NEW r \in Requests, NEW k \in Keys, Limit(r, k) PROVE GatewayInv'
  BY <1>3, LimitKeeps
<1>4. ASSUME NEW r \in Requests,
             \/ Lookup(r) \/ Insert(r) \/ Confirm(r) \/ SignIn(r) \/ Renew(r)
             \/ Prepare(r) \/ Query(r)
      PROVE  GatewayInv'
  BY <1>4, LookupKeeps, InsertKeeps, ConfirmKeeps, SignInKeeps, RenewKeeps, PrepareKeeps,
     QueryKeeps
<1>5. ASSUME \/ \E d \in Docs : Rebuild(d)
             \/ \E s \in rows, v \in Vectors : Embed(s, v)
      PROVE  GatewayInv'
  BY <1>5, PipelineKeeps
<1>6. ASSUME Seed \/ Pass \/ Crash PROVE GatewayInv'
  BY <1>6, SeedKeeps, PassKeeps, CrashKeeps
<1>7. CASE UNCHANGED gateway
  <2>1. UNCHANGED <<now, users, rows, runs, call, answer, token, hits>>
    BY <1>7 DEF gateway, limiter, store
  <2>2. Typed' /\ OneAccountPerEmail' /\ now <= now'
    BY <2>1 DEF GatewayInv, Typed, OneAccountPerEmail, TypeOK, Times
  <2> QED BY <2>1, <2>2, StepOfNone
<1> QED BY <1>1, <1>2, <1>3, <1>4, <1>5, <1>6, <1>7 DEF GatewayNext

LEMMA GatewayInvariant == GatewaySpec => [](GatewayInv /\ TypeOK)
BY GatewayImplementsLimiter, LimiterTypeCorrect, GatewayStarts, GatewayStep, PTL DEF GatewaySpec

\* Accounts, tokens, buckets and hits are what their types say.
THEOREM GatewayTypeCorrect == GatewaySpec => []GatewayTypeOK
<1>1. GatewayInv /\ TypeOK => GatewayTypeOK
  <2> SUFFICES ASSUME GatewayInv, TypeOK PROVE GatewayTypeOK
    OBVIOUS
  <2>1. /\ users \subseteq User /\ rows \subseteq Row /\ runs \in 0 .. MaxRuns
        /\ answer \in [Requests -> {"none", "200", "201", "500", "lost"} \cup Refused]
    BY DEF GatewayInv, Typed, Statuses
  <2>2. ASSUME NEW r \in Requests
        PROVE  call[r].phase \in {"new", "admitted", "absent", "stored", "ready", "done"}
    BY DEF GatewayInv, Typed, Call, Phases
  <2>3. ASSUME NEW r \in Requests, token[r] # None
        PROVE  /\ token[r] \in Token /\ token[r].issued <= now
               /\ \E u \in users : u.email = token[r].sub /\ u.role = token[r].role
    BY <2>3 DEF GatewayInv, Typed, RequestOK, TokenOK
  <2>4. ASSUME NEW r \in Requests, hits[r] # None PROVE hits[r].best \subseteq Row
    BY <2>4 DEF GatewayInv, Typed, Hits
  <2> QED BY <2>1, <2>2, <2>3, <2>4 DEF GatewayTypeOK
<1> QED BY <1>1, GatewayInvariant, PTL

\* Requests that race for an email, however they spell it, make one account.
THEOREM AccountsAreUnique == GatewaySpec => []OneAccountPerEmail
<1>1. GatewayInv => OneAccountPerEmail
  BY DEF GatewayInv
<1> QED BY <1>1, GatewayInvariant, PTL

\* Whoever is told that an account was made has made it, for good.
THEOREM RegistrationsStand == GatewaySpec => []RegistrationsAreTrue
<1>1. GatewayInv => RegistrationsAreTrue
  BY DEF GatewayInv, RequestOK, RegisterOK, Stands, RegistrationsAreTrue
<1> QED BY <1>1, GatewayInvariant, PTL

\* A search shows what the account that signed in owns, however often its tokens
\* were refreshed and whatever plan the database took.
THEOREM SearchesAreScoped == GatewaySpec => []HitsAreAllowed
<1>1. GatewayInv => HitsAreAllowed
  <2> SUFFICES ASSUME GatewayInv, NEW r \in Requests, hits[r] # None, NEW s \in hits[r].best
               PROVE  LET signedIn == call[token[call[r].ask.with].root].ask.email
                      IN  \/ OwnerOf[s.doc] = Lower[signedIn]
                          \/ \E u \in Account(signedIn) : u.role = "admin"
    BY DEF HitsAreAllowed
  <2> DEFINE q == call[r].ask.with
  <2>1. q \in Requests /\ token[q] # None /\ Owns(q, s.doc)
    BY DEF GatewayInv, RequestOK, HitsOK
  <2>2. TokenOK(q)
    BY <2>1 DEF GatewayInv, RequestOK
  <2> QED BY <2>1, <2>2 DEF TokenOK, Owns, Account
<1> QED BY <1>1, GatewayInvariant, PTL

-----------------------------------------------------------------------------
(* A search by a symbol finds it                                           *)

\* A search that is ready has a vector, and may see the symbol it is for: only
\* the owner of its document, or an administrator, gets that far.
ReadyOK(q) ==
  At(q, "search", "ready") =>
    /\ call[q].vector \in Vectors
    /\ call[q].ask.symbol # None => Owns(call[q].ask.with, call[q].ask.symbol[1])

\* SelfIsFound of one request.
SelfOK(q) ==
  (hits[q] # None /\ hits[q].plan = "sorted") =>
    \A s \in hits[q].self :
      (s.vector = call[q].vector /\ call[q].ask.doc \in {None, s.doc}) =>
        \E h \in hits[q].best : h.vector = s.vector

SelfInv ==
  /\ IsFiniteSet(rows)
  /\ \A q \in Requests : ReadyOK(q) /\ SelfOK(q)

\* Of finitely many rows, the nearest to a vector have it if any does.
LEMMA NearestHasEqual ==
  ASSUME NEW S, IsFiniteSet(S), NEW v \in Nat, NEW n \in Nat \ {0},
         \A b \in S : b.vector \in Nat,
         NEW s \in S, s.vector = v, NEW best \in Nearest(S, v, n)
  PROVE  \E h \in best : h.vector = v
<1>1. /\ best \subseteq S
      /\ Cardinality(best) = IF Cardinality(S) < n THEN Cardinality(S) ELSE n
      /\ \A b \in best, r \in S \ best : Distance(b.vector, v) <= Distance(r.vector, v)
  BY DEF Nearest
<1>2. Cardinality(S) \in Nat /\ Cardinality(S) # 0
  BY FS_CardinalityType, FS_EmptySet
<1>3. Cardinality(best) # 0
  BY <1>1, <1>2
<1>4. PICK b \in best : TRUE
  BY <1>3, FS_EmptySet
<1>5. CASE s \in best
  BY <1>5
<1>6. CASE s \notin best
  <2>1. Distance(b.vector, v) <= Distance(v, v) /\ b.vector \in Nat
    BY <1>1, <1>4, <1>6
  <2>2. b.vector = v
    BY <2>1 DEF Distance
  <2> QED BY <1>4, <2>2
<1> QED BY <1>5, <1>6

\* What leaves a request as it is, or takes it on without making it ready.
Carried(q) ==
  /\ hits'[q] = hits[q]
  /\ \/ call'[q] = call[q]
     \/ call[q].phase # "done" /\ call'[q].phase # "ready"

TokensStand == \A q \in Requests : token[q] # None => token'[q] = token[q]

LEMMA ReadyStays ==
  ASSUME GatewayInv, TokensStand, NEW q \in Requests, ReadyOK(q), call'[q] = call[q]
  PROVE  ReadyOK(q)'
<1>1. CASE call[q].phase = "ready" /\ call[q].ask.op = "search"
  <2>1. call[q].ask.with \in Requests /\ token[call[q].ask.with] # None
    BY <1>1 DEF GatewayInv, RequestOK, CarriesOK
  <2>2. token'[call[q].ask.with] = token[call[q].ask.with]
    BY <2>1 DEF TokensStand
  <2> QED BY <2>2 DEF ReadyOK, At, Owns
<1>2. CASE ~(call[q].phase = "ready" /\ call[q].ask.op = "search")
  BY <1>2 DEF ReadyOK, At
<1> QED BY <1>1, <1>2

LEMMA SelfStays ==
  ASSUME GatewayInv, NEW q \in Requests, SelfOK(q), Carried(q)
  PROVE  SelfOK(q)'
<1>1. hits[q] = None \/ call'[q] = call[q]
  BY Pending DEF Carried
<1> QED BY <1>1 DEF SelfOK, Carried

LEMMA CarriedKeeps ==
  ASSUME GatewayInv, TokensStand, NEW q \in Requests, ReadyOK(q), SelfOK(q), Carried(q)
  PROVE  ReadyOK(q)' /\ SelfOK(q)'
<1>1. CASE call'[q] = call[q]
  BY <1>1, ReadyStays, SelfStays
<1>2. CASE call'[q].phase # "ready"
  BY <1>2, SelfStays DEF ReadyOK, At
<1> QED BY <1>1, <1>2 DEF Carried

\* A step that takes no request as far as "ready" or to its hits.
LEMMA SelfStep ==
  ASSUME GatewayInv, SelfInv, TokensStand, IsFiniteSet(rows'), \A q \in Requests : Carried(q)
  PROVE  SelfInv'
BY CarriedKeeps DEF SelfInv

LEMMA PrepareFinds ==
  ASSUME GatewayInv, SelfInv, NEW r \in Requests, Prepare(r)
  PROVE  SelfInv'
<1> DEFINE ask == call[r].ask
           found == {s \in rows : Id(s) = ask.symbol}
           refused ==
             IF ~Valid(ask.with, AccessTtl) THEN "401"
             ELSE IF ask.doc # None /\ ~Owns(ask.with, ask.doc) THEN "403"
             ELSE IF ask.symbol # None /\ found = {} THEN "404"
             ELSE IF \E s \in found : ~Owns(ask.with, s.doc) THEN "403"
             ELSE IF \E s \in found : s.vector = None THEN "422"
             ELSE "no"
<1>1. /\ call[r].phase = "admitted" /\ ask.op = "search"
      /\ UNCHANGED <<rows, token, hits>>
  BY DEF Prepare, At, store
<1>2. IF refused # "no" THEN Answer(r, refused)
      ELSE \E v \in {s.vector : s \in found} \cup ({ask.text} \ {None}) :
             call' = [call EXCEPT ![r] = [phase |-> "ready", ask |-> ask, vector |-> v]]
  BY DEF Prepare
<1>3. TokensStand /\ IsFiniteSet(rows')
  BY <1>1 DEF TokensStand, SelfInv
<1>4. ask \in Asks
  BY <1>1 DEF GatewayInv, RequestOK, CarriesOK
<1>5. CASE refused # "no"
  <2>1. PICK status \in Statuses : Answer(r, status)
    BY <1>2, <1>5 DEF Statuses, Refused
  <2>2. call'[r].phase = "done" /\ \A q \in Requests \ {r} : call'[q] = call[q]
    BY <2>1, Answers DEF GatewayInv
  <2>3. \A q \in Requests : Carried(q)
    BY <1>1, <2>2 DEF Carried
  <2> QED BY <1>3, <2>3, SelfStep
<1>6. CASE refused = "no"
  <2>1. PICK v \in {s.vector : s \in found} \cup ({ask.text} \ {None}) :
          call' = [call EXCEPT ![r] = [phase |-> "ready", ask |-> ask, vector |-> v]]
    BY <1>2, <1>6
  <2>2. /\ \A s \in found : Owns(ask.with, s.doc) /\ s.vector # None
        /\ ask.symbol # None => found # {}
    BY <1>6
  <2>3. v \in Vectors
    <3>1. \A s \in found : s.vector \in Vectors
      BY <2>2 DEF GatewayInv, Typed, Row
    <3>2. ask.text \in Vectors \cup {None}
      BY <1>1, <1>4 DEF Asks
    <3> QED BY <3>1, <3>2
  <2>4. ask.symbol # None => Owns(ask.with, ask.symbol[1])
    <3> SUFFICES ASSUME ask.symbol # None PROVE Owns(ask.with, ask.symbol[1])
      OBVIOUS
    <3>1. PICK s \in found : Owns(ask.with, s.doc)
      BY <2>2
    <3>2. ask.symbol[1] = s.doc
      BY <3>1 DEF Id
    <3> QED BY <3>1, <3>2
  <2>5. /\ call'[r].vector = v /\ call'[r].ask = ask /\ call'[r].phase = "ready"
        /\ \A q \in Requests \ {r} : call'[q] = call[q]
    BY <2>1 DEF GatewayInv, Typed
  <2>6. ReadyOK(r)'
    BY <1>1, <2>3, <2>4, <2>5 DEF ReadyOK, Owns
  <2>7. SelfOK(r)'
    BY <1>1, Pending DEF SelfOK
  <2>8. \A q \in Requests \ {r} : Carried(q)
    BY <1>1, <2>5 DEF Carried
  <2> QED BY <1>3, <2>6, <2>7, <2>8, CarriedKeeps DEF SelfInv
<1> QED BY <1>5, <1>6

LEMMA QueryFinds ==
  ASSUME GatewayInv, SelfInv, NEW r \in Requests, Query(r)
  PROVE  SelfInv'
<1> DEFINE ask == call[r].ask
           v == call[r].vector
           scope == Scope(ask.with)
           self == {s \in rows : Id(s) = ask.symbol}
<1>1. /\ call[r].phase = "ready" /\ ask.op = "search" /\ Answer(r, "200")
      /\ UNCHANGED <<rows, token>>
  BY DEF Query, Find, At, store
<1>2. PICK plan \in {"sorted", "scanned"} :
        \E best \in IF plan = "sorted" THEN Sorted(rows, v, scope, ask.doc)
                    ELSE Scanned(rows, v, scope, ask.doc) :
          hits' = [hits EXCEPT ![r] = [plan |-> plan, best |-> best, self |-> self]]
  BY DEF Query, Find
<1>3. PICK best : /\ plan = "sorted" => best \in Sorted(rows, v, scope, ask.doc)
                  /\ hits' = [hits EXCEPT ![r] = [plan |-> plan, best |-> best, self |-> self]]
  BY <1>2
<1>4. /\ hits'[r] = [plan |-> plan, best |-> best, self |-> self]
      /\ \A q \in Requests \ {r} : hits'[q] = hits[q]
  BY <1>3 DEF GatewayInv, Typed
<1>5. /\ call'[r].phase = "done" /\ call'[r].ask = ask /\ call'[r].vector = v
      /\ \A q \in Requests \ {r} : call'[q] = call[q]
  <2>1. Done(r, "200") = [call[r] EXCEPT !.phase = "done"] /\ call[r] \in Call
    BY DEF Done, Vain, Refused, GatewayInv, Typed
  <2>2. Done(r, "200") = [phase |-> "done", ask |-> ask, vector |-> v]
    BY <2>1 DEF Call
  <2>3. call' = [call EXCEPT ![r] = Done(r, "200")]
    BY <1>1 DEF Answer
  <2> QED BY <2>2, <2>3 DEF GatewayInv, Typed
<1>6. TokensStand /\ IsFiniteSet(rows')
  BY <1>1 DEF TokensStand, SelfInv
<1>7. \A q \in Requests \ {r} : ReadyOK(q)' /\ SelfOK(q)'
  <2>1. \A q \in Requests \ {r} : Carried(q)
    BY <1>4, <1>5 DEF Carried
  <2> QED BY <1>6, <2>1, CarriedKeeps DEF SelfInv
<1>8. ReadyOK(r)'
  BY <1>5 DEF ReadyOK, At
<1>9. SelfOK(r)'
  <2> SUFFICES ASSUME plan = "sorted", NEW s \in self, s.vector = v, ask.doc \in {None, s.doc}
               PROVE  \E h \in best : h.vector = v
    BY <1>4, <1>5 DEF SelfOK
  <2>1. /\ v \in Vectors
        /\ ask.symbol # None => Owns(ask.with, ask.symbol[1])
    BY <1>1 DEF SelfInv, ReadyOK, At
  <2>2. s \in rows /\ s \in Row /\ ask.symbol = <<s.doc, s.run>>
    BY DEF GatewayInv, Typed, Id
  <2>3. ask.symbol # None
    BY <2>2, GatewayAssumption DEF Row
  <2>4. Owns(ask.with, s.doc)
    BY <2>1, <2>2, <2>3
  <2>5. scope = None \/ OwnerOf[s.doc] = scope
    BY <2>4 DEF Owns, Scope
  <2>6. s \in Matching(rows, scope, ask.doc)
    BY <2>1, <2>2, <2>5, GatewayAssumption DEF Matching
  <2>7. IsFiniteSet(Matching(rows, scope, ask.doc))
    BY FS_Subset DEF SelfInv, Matching
  <2>8. \A b \in Matching(rows, scope, ask.doc) : b.vector \in Nat
    BY GatewayAssumption DEF Matching, GatewayInv, Typed, Row
  <2>9. best \in Nearest(Matching(rows, scope, ask.doc), v, TopK)
    BY <1>3 DEF Sorted
  <2>10. v \in Nat /\ TopK \in Nat \ {0}
    BY <2>1, GatewayAssumption
  <2> HIDE DEF v, scope, ask, self
  <2> QED BY <2>6, <2>7, <2>8, <2>9, <2>10, NearestHasEqual
<1> QED BY <1>6, <1>7, <1>8, <1>9 DEF SelfInv

\* Every other action of a request.
LEMMA RequestFinds ==
  ASSUME GatewayInv, SelfInv, NEW r \in Requests,
         \/ \E k \in Keys : Admit(r, k) \/ Limit(r, k)
         \/ Lookup(r) \/ Insert(r) \/ Confirm(r) \/ SignIn(r) \/ Renew(r) \/ AdmitSearch(r)
  PROVE  SelfInv'
<1>1. UNCHANGED <<rows, hits>>
  BY DEF Admit, Limit, AdmitSearch, Send, Lookup, Insert, Confirm, SignIn, Renew, store
<1>2. call[r].phase # "done"
  BY DEF Admit, Limit, AdmitSearch, Send, New, Lookup, Insert, Confirm, SignIn, Renew, At
<1>3. \/ \E ask : call' = [call EXCEPT ![r] = [phase |-> "admitted", ask |-> ask, vector |-> None]]
      \/ \E p \in {"absent", "stored"} : Advance(r, p)
      \/ \E status \in Statuses : Answer(r, status)
  <2>1. CASE \E ask : Send(r, ask)
    BY <2>1 DEF Send
  <2>2. CASE \E k \in Keys : Limit(r, k)
    BY <2>2 DEF Limit, Statuses, Refused
  <2>3. CASE Lookup(r) \/ Insert(r) \/ Confirm(r)
    BY <2>3 DEF Lookup, Insert, Confirm, Statuses, Refused
  <2>4. CASE SignIn(r) \/ Renew(r)
    BY <2>4 DEF SignIn, Renew, Statuses, Refused
  <2> QED BY <2>1, <2>2, <2>3, <2>4 DEF Admit, AdmitSearch
<1>4. call'[r].phase # "ready" /\ \A q \in Requests \ {r} : call'[q] = call[q]
  <2>1. ASSUME NEW ask,
               call' = [call EXCEPT ![r] = [phase |-> "admitted", ask |-> ask, vector |-> None]]
        PROVE  call'[r].phase # "ready" /\ \A q \in Requests \ {r} : call'[q] = call[q]
    BY <2>1 DEF GatewayInv, Typed
  <2>2. ASSUME NEW p \in {"absent", "stored"}, Advance(r, p)
        PROVE  call'[r].phase # "ready" /\ \A q \in Requests \ {r} : call'[q] = call[q]
    BY <2>2, Advances DEF GatewayInv, Phases
  <2>3. ASSUME NEW status \in Statuses, Answer(r, status)
        PROVE  call'[r].phase # "ready" /\ \A q \in Requests \ {r} : call'[q] = call[q]
    BY <2>3, Answers DEF GatewayInv
  <2> QED BY <1>3, <2>1, <2>2, <2>3
<1>5. TokensStand
  <2>1. token' = token \/ \E t : token' = [token EXCEPT ![r] = t]
    BY DEF Admit, Limit, AdmitSearch, Send, Lookup, Insert, Confirm, SignIn, Renew, Issue
  <2>2. token[r] = None
    BY <1>2, Pending
  <2> QED BY <2>1, <2>2 DEF TokensStand, GatewayInv, Typed
<1>6. \A q \in Requests : Carried(q)
  BY <1>1, <1>2, <1>4 DEF Carried
<1>7. IsFiniteSet(rows')
  BY <1>1 DEF SelfInv
<1> QED BY <1>5, <1>6, <1>7, SelfStep

\* The pipeline leaves finitely many rows, and the requests.
LEMMA RowsStayFinite ==
  ASSUME SelfInv,
         \/ \E d \in Docs : Rebuild(d)
         \/ \E s \in rows, v \in Vectors : Embed(s, v)
  PROVE  IsFiniteSet(rows')
<1>1. ASSUME NEW d \in Docs, Rebuild(d) PROVE IsFiniteSet(rows')
  <2>1. IsFiniteSet({s \in rows : s.doc # d})
    BY FS_Subset DEF SelfInv
  <2>2. IsFiniteSet({s \in rows : s.doc # d} \cup {[doc |-> d, run |-> runs + 1, vector |-> None]})
    BY <2>1, FS_AddElement
  <2> QED BY <1>1, <2>2 DEF Rebuild
<1>2. ASSUME NEW s \in rows, NEW v \in Vectors, Embed(s, v) PROVE IsFiniteSet(rows')
  <2>1. IsFiniteSet(rows \ {s})
    BY FS_Subset DEF SelfInv
  <2>2. IsFiniteSet((rows \ {s}) \cup {[s EXCEPT !.vector = v]})
    BY <2>1, FS_AddElement
  <2> QED BY <1>2, <2>2 DEF Embed
<1> QED BY <1>1, <1>2

LEMMA CrashFinds ==
  ASSUME GatewayInv, SelfInv, Crash
  PROVE  SelfInv'
<1>1. UNCHANGED <<rows, token, hits>>
  BY DEF Crash, store
<1>2. ASSUME NEW q \in Requests PROVE Carried(q)
  <2>1. call'[q] = IF call[q].phase \notin {"new", "done"} THEN Done(q, "lost") ELSE call[q]
    BY DEF Crash
  <2>2. Done(q, "lost").phase = "done"
    BY DEF Done, Vain, New
  <2> QED BY <1>1, <2>1, <2>2 DEF Carried
<1>3. TokensStand /\ IsFiniteSet(rows')
  BY <1>1 DEF TokensStand, SelfInv
<1> QED BY <1>2, <1>3, SelfStep

LEMMA SelfNext ==
  GatewayInv /\ SelfInv /\ [GatewayNext]_gateway => SelfInv'
<1> SUFFICES ASSUME GatewayInv, SelfInv, [GatewayNext]_gateway PROVE SelfInv'
  OBVIOUS
<1>1. ASSUME UNCHANGED <<call, token, hits>>, IsFiniteSet(rows') PROVE SelfInv'
  BY <1>1, SelfStep DEF TokensStand, Carried
<1>2. ASSUME NEW r \in Requests,
             \/ \E k \in Keys : Admit(r, k) \/ Limit(r, k)
             \/ Lookup(r) \/ Insert(r) \/ Confirm(r) \/ SignIn(r) \/ Renew(r)
             \/ AdmitSearch(r) \/ Prepare(r) \/ Query(r)
      PROVE  SelfInv'
  BY <1>2, RequestFinds, PrepareFinds, QueryFinds
<1>3. ASSUME \/ \E d \in Docs : Rebuild(d)
             \/ \E s \in rows, v \in Vectors : Embed(s, v)
      PROVE  SelfInv'
  <2>1. UNCHANGED <<call, token, hits>>
    BY <1>3 DEF Rebuild, Embed
  <2>2. IsFiniteSet(rows')
    BY <1>3, RowsStayFinite
  <2> QED BY <1>1, <2>1, <2>2
<1>4. ASSUME Seed \/ Pass \/ UNCHANGED gateway PROVE SelfInv'
  <2>1. UNCHANGED <<rows, call, token, hits>>
    BY <1>4 DEF Seed, Pass, gateway, store
  <2> QED BY <1>1, <2>1 DEF SelfInv
<1>5. CASE Crash
  BY <1>5, CrashFinds
<1> QED BY <1>2, <1>3, <1>4, <1>5 DEF GatewayNext

LEMMA SelfInit == GatewayInit => SelfInv
<1> SUFFICES ASSUME GatewayInit PROVE SelfInv
  OBVIOUS
<1>1. IsFiniteSet(rows)
  BY FS_EmptySet DEF GatewayInit
<1>2. ASSUME NEW q \in Requests PROVE ReadyOK(q) /\ SelfOK(q)
  BY DEF GatewayInit, New, ReadyOK, SelfOK, At
<1> QED BY <1>1, <1>2 DEF SelfInv

\* A search by a symbol that sorts what it may see finds a symbol at no distance,
\* for any vectors, any length of an answer and any rows: the symbol is its own
\* nearest neighbour, and its owner's search lets it through.
THEOREM SearchFindsItself == GatewaySpec => []SelfIsFound
<1>1. SelfInv => SelfIsFound
  BY DEF SelfInv, SelfOK, SelfIsFound
<1>2. GatewaySpec => []SelfInv
  BY SelfInit, SelfNext, GatewayInvariant, PTL DEF GatewaySpec
<1> QED BY <1>1, <1>2, PTL
=============================================================================
