------------------------------ MODULE Gateway ------------------------------
(***************************************************************************)
(* Requests to the API: through the strict bucket to register, sign in and *)
(* refresh, and with an access token to search, while the pipeline         *)
(* rebuilds the symbols that are searched.                                 *)
(*                                                                         *)
(* The clock and the buckets are those of RateLimiter.  A request is made  *)
(* once, and the password it registers bears its name.  The id of an       *)
(* account is its lowercased email.                                        *)
(***************************************************************************)
EXTENDS RateLimiter, FiniteSets

CONSTANTS
  Requests,
  Emails,      \* as they are typed
  Lower,       \* Lower[e]: e in lower case
  Seeded,      \* the email of scripts/seed.py
  AccessTtl, RefreshTtl,
  Docs, Vectors,
  OwnerOf, TopK, Ef,  \* of SymbolSearch
  MaxRuns      \* bound: rebuilds

INSTANCE SymbolSearch

ASSUME GatewayAssumption ==
  /\ Lower \in [Emails -> Emails] /\ \A e \in Emails : Lower[Lower[e]] = Lower[e]
  /\ OwnerOf \in [Docs -> {Lower[e] : e \in Emails}]
  /\ Seeded \in {Lower[e] : e \in Emails}
  /\ Vectors \subseteq Nat /\ {AccessTtl, RefreshTtl, Ef, MaxRuns} \subseteq Nat
  /\ TopK \in Nat \ {0}
  /\ None \notin ((Requests \cup Emails) \cup (Docs \cup Vectors))
  /\ None \notin Docs \X Nat

VARIABLES
  users,   \* the table users
  rows,    \* the symbols with their embeddings
  runs,    \* rebuilds so far
  call,    \* call[r]: what request r asks and how far it is
  answer,  \* answer[r]: the status of its answer, or "none"
  token,   \* token[r]: the tokens it has brought, or None
  hits     \* hits[r]: what its search has found, or None

limiter == <<now, bucket, spent>>
store == <<rows, runs>>
gateway == <<limiter, users, store, call, answer, token, hits>>

Row == [doc : Docs, run : 1 .. MaxRuns, vector : Vectors \cup {None}]
Id(s) == <<s.doc, s.run>>
User == [email : Emails, password : Requests \cup {"seed"}, role : {"engineer", "admin"}]

\* A pair of tokens; `root` is the sign-in it goes back to.
Token == [sub : Emails, role : {"engineer", "admin"}, issued : Times, root : Requests]

\* A request that has been admitted carries an email and a password, or the
\* tokens of another one.
Auth(r) ==
  [op : {"register"}, email : Emails, password : {r}]
    \cup [op : {"login"}, email : Emails, password : Requests \cup {"seed"}]
    \cup [op : {"refresh"}, with : {q \in Requests : token[q] # None}]

\* A search: SearchRequest wants a symbol or a text (an image is as a text).
Search ==
  {a \in [op : {"search"}, with : {q \in Requests : token[q] # None}, doc : Docs \cup {None},
          symbol : {Id(s) : s \in rows} \cup {None}, text : Vectors \cup {None}] :
     (a.symbol = None) # (a.text = None)}

New == [phase |-> "new", ask |-> None, vector |-> None]
At(r, op, phase) == call[r].phase = phase /\ call[r].ask.op = op
Advance(r, phase) == call' = [call EXCEPT ![r].phase = phase]

\* get_by_email.
Account(email) == {u \in users : u.email = Lower[email]}

\* The statuses of the 4xx errors.
Refused == {"401", "403", "404", "409", "422", "429"}

\* What a request asked in vain does not matter any more, unless it was told
\* that an account exists.
Vain == (Refused \ {"409"}) \cup {"lost"}
Done(r, status) ==
  IF status \in Vain THEN [New EXCEPT !.phase = "done"] ELSE [call[r] EXCEPT !.phase = "done"]

Answer(r, status) ==
  /\ call' = [call EXCEPT ![r] = Done(r, status)]
  /\ answer' = [answer EXCEPT ![r] = status]

-----------------------------------------------------------------------------
(* Arrival                                                                 *)

Send(r, ask) ==
  /\ call[r] = New
  /\ call' = [call EXCEPT ![r] = [phase |-> "admitted", ask |-> ask, vector |-> None]]
  /\ UNCHANGED <<users, store, answer, token, hits>>

\* A request to a path of "/auth/" has a token of its bucket taken.
Admit(r, k) == Serve(k) /\ \E ask \in Auth(r) : Send(r, ask)

\* Or is answered before it gets to a router.
Limit(r, k) ==
  /\ call[r] = New
  /\ Refuse(k)
  /\ Answer(r, "429")
  /\ UNCHANGED <<users, store, token, hits>>

\* A search has the default bucket, which is left out.
AdmitSearch(r) == UNCHANGED limiter /\ \E ask \in Search : Send(r, ask)

-----------------------------------------------------------------------------
(* Accounts                                                                *)

\* register: the email is looked up, and the password hashed.
Lookup(r) ==
  /\ At(r, "register", "admitted")
  /\ IF Account(call[r].ask.email) # {} THEN Answer(r, "409")
     ELSE Advance(r, "absent") /\ UNCHANGED answer
  /\ UNCHANGED <<limiter, users, store, token, hits>>

NewUser(email, password, role) ==
  users' = users \cup {[email |-> Lower[email], password |-> password, role |-> role]}

\* Mutation of Insert: the email is not unique.
InsertAgain(r) ==
  /\ At(r, "register", "absent")
  /\ NewUser(call[r].ask.email, r, "engineer")
  /\ Advance(r, "stored")
  /\ UNCHANGED <<limiter, store, answer, token, hits>>

\* Mutation of Insert: the account that is there gets the new password.
InsertOver(r) ==
  /\ At(r, "register", "absent")
  /\ users' = (users \ Account(call[r].ask.email))
                \cup {[email |-> Lower[call[r].ask.email], password |-> r, role |-> "engineer"]}
  /\ Advance(r, "stored")
  /\ UNCHANGED <<limiter, store, answer, token, hits>>

\* The INSERT and the commit; an email that is there by now raises, and nothing
\* turns that into a conflict.
Insert(r) ==
  /\ At(r, "register", "absent")
  /\ IF Account(call[r].ask.email) # {} THEN Answer(r, "500") /\ UNCHANGED users
     ELSE /\ NewUser(call[r].ask.email, r, "engineer")
          /\ Advance(r, "stored")
          /\ UNCHANGED answer
  /\ UNCHANGED <<limiter, store, token, hits>>

Confirm(r) ==
  /\ At(r, "register", "stored")
  /\ Answer(r, "201")
  /\ UNCHANGED <<limiter, users, store, token, hits>>

\* scripts/seed.py.
Seed ==
  /\ Account(Seeded) = {}
  /\ NewUser(Seeded, "seed", "admin")
  /\ UNCHANGED <<limiter, store, call, answer, token, hits>>

Issue(r, sub, role, root) ==
  token' = [token EXCEPT ![r] = [sub |-> sub, role |-> role, issued |-> now, root |-> root]]

\* authenticate.
SignIn(r) ==
  LET ask == call[r].ask
      known == {u \in Account(ask.email) : u.password = ask.password}
  IN  /\ At(r, "login", "admitted")
      /\ \/ known = {} /\ Answer(r, "401") /\ UNCHANGED token
         \/ \E u \in known : Issue(r, u.email, u.role, r) /\ Answer(r, "200")
      /\ UNCHANGED <<limiter, users, store, hits>>

Valid(q, ttl) == now <= token[q].issued + ttl

\* Mutation of Renew: the roles are those of a new account.
RenewAsEngineer(r) ==
  LET old == call[r].ask.with
  IN  /\ At(r, "refresh", "admitted")
      /\ IF Valid(old, RefreshTtl)
         THEN Issue(r, token[old].sub, "engineer", token[old].root) /\ Answer(r, "200")
         ELSE Answer(r, "401") /\ UNCHANGED token
      /\ UNCHANGED <<limiter, users, store, hits>>

\* refresh: the claims are copied.
Renew(r) ==
  LET old == call[r].ask.with
  IN  /\ At(r, "refresh", "admitted")
      /\ IF Valid(old, RefreshTtl)
         THEN Issue(r, token[old].sub, token[old].role, token[old].root) /\ Answer(r, "200")
         ELSE Answer(r, "401") /\ UNCHANGED token
      /\ UNCHANGED <<limiter, users, store, hits>>

-----------------------------------------------------------------------------
(* Search                                                                  *)

Owns(q, d) == token[q].role = "admin" \/ OwnerOf[d] = token[q].sub

\* get_principal, the check of the document, and the symbol with its vector.
Prepare(r) ==
  LET ask == call[r].ask
      found == {s \in rows : Id(s) = ask.symbol}
      refused ==
        IF ~Valid(ask.with, AccessTtl) THEN "401"
        ELSE IF ask.doc # None /\ ~Owns(ask.with, ask.doc) THEN "403"
        ELSE IF ask.symbol # None /\ found = {} THEN "404"
        ELSE IF \E s \in found : ~Owns(ask.with, s.doc) THEN "403"
        ELSE IF \E s \in found : s.vector = None THEN "422"
        ELSE "no"
  IN  /\ At(r, "search", "admitted")
      /\ IF refused # "no" THEN Answer(r, refused)
         ELSE /\ UNCHANGED answer
              /\ \E v \in {s.vector : s \in found} \cup ({ask.text} \ {None}) :
                   call' = [call EXCEPT ![r] = [phase |-> "ready", ask |-> ask, vector |-> v]]
      /\ UNCHANGED <<limiter, users, store, token, hits>>

Scope(q) == IF token[q].role = "admin" THEN None ELSE token[q].sub

Find(r, scope) ==
  LET ask == call[r].ask
  IN  /\ At(r, "search", "ready")
      /\ \E plan \in {"sorted", "scanned"} :
           \E best \in IF plan = "sorted" THEN Sorted(rows, call[r].vector, scope, ask.doc)
                       ELSE Scanned(rows, call[r].vector, scope, ask.doc) :
             hits' = [hits EXCEPT ![r] =
                        [plan |-> plan, best |-> best,
                         self |-> {s \in rows : Id(s) = ask.symbol}]]
      /\ Answer(r, "200")
      /\ UNCHANGED <<limiter, users, store, token>>

\* Mutation of Query: a caller who may see the symbol is not limited further.
QueryUnscoped(r) ==
  Find(r, IF call[r].ask.symbol # None THEN None ELSE Scope(call[r].ask.with))

\* search_similar, by whichever plan.
Query(r) == Find(r, Scope(call[r].ask.with))

\* handle_pdf_extract: the symbols of a document are replaced, without vectors.
Rebuild(d) ==
  /\ runs < MaxRuns
  /\ runs' = runs + 1
  /\ rows' = {s \in rows : s.doc # d} \cup {[doc |-> d, run |-> runs + 1, vector |-> None]}
  /\ UNCHANGED <<limiter, users, call, answer, token, hits>>

\* handle_embed.
Embed(s, v) ==
  /\ s.vector = None
  /\ rows' = (rows \ {s}) \cup {[s EXCEPT !.vector = v]}
  /\ UNCHANGED <<limiter, users, runs, call, answer, token, hits>>

-----------------------------------------------------------------------------
(* The specification                                                       *)

\* The clock of the tokens and of the buckets.
Pass == Tick /\ UNCHANGED <<users, store, call, answer, token, hits>>

\* The process ends, and with it the buckets and the requests it was serving.
Crash ==
  /\ Restart
  /\ LET lost == {r \in Requests : call[r].phase \notin {"new", "done"}}
     IN  /\ answer' = [r \in Requests |-> IF r \in lost THEN "lost" ELSE answer[r]]
         /\ call' = [r \in Requests |-> IF r \in lost THEN Done(r, "lost") ELSE call[r]]
  /\ UNCHANGED <<users, store, token, hits>>

GatewayInit ==
  /\ Init
  /\ users = {} /\ rows = {} /\ runs = 0
  /\ call = [r \in Requests |-> New]
  /\ answer = [r \in Requests |-> "none"]
  /\ token = [r \in Requests |-> None]
  /\ hits = [r \in Requests |-> None]

GatewayNext ==
  \/ \E r \in Requests :
       \/ \E k \in Keys : Admit(r, k) \/ Limit(r, k)
       \/ Lookup(r) \/ Insert(r) \/ Confirm(r) \/ SignIn(r) \/ Renew(r)
       \/ AdmitSearch(r) \/ Prepare(r) \/ Query(r)
  \/ \E d \in Docs : Rebuild(d)
  \/ \E s \in rows, v \in Vectors : Embed(s, v)
  \/ Seed \/ Pass \/ Crash

GatewaySpec == GatewayInit /\ [][GatewayNext]_gateway

-----------------------------------------------------------------------------
(* Properties                                                              *)

\* Every variable has its type; tokens belong to an account and to its role.
GatewayTypeOK ==
  /\ TypeOK
  /\ users \subseteq User /\ rows \subseteq Row /\ runs \in 0 .. MaxRuns
  /\ answer \in [Requests -> {"none", "200", "201", "500", "lost"} \cup Refused]
  /\ \A r \in Requests :
       /\ call[r].phase \in {"new", "admitted", "absent", "stored", "ready", "done"}
       /\ token[r] # None =>
            /\ token[r] \in Token /\ token[r].issued <= now
            /\ \E u \in users : u.email = token[r].sub /\ u.role = token[r].role
       /\ hits[r] # None => hits[r].best \subseteq Row

\* auth_service.py:30 "a user with this email already exists": however requests
\* race, and however they spell it, an email has one account.
OneAccountPerEmail == \A u, v \in users : u.email = v.email => u = v

\* Whoever was told that the account is created signs in with that password,
\* and is told that another one exists only if it does.
RegistrationsAreTrue ==
  \A r \in Requests :
    /\ answer[r] = "201" => \E u \in Account(call[r].ask.email) : u.password = r
    /\ answer[r] \in {"409", "500"} => Account(call[r].ask.email) # {}

\* security-guide.md:63 "ownership checks + owner-scoped search": what a search
\* finds belongs to the account that signed in, through every refresh since, or
\* that account is an administrator's.
HitsAreAllowed ==
  \A r \in Requests : hits[r] # None =>
    LET signedIn == call[token[call[r].ask.with].root].ask.email
    IN  \A s \in hits[r].best :
          \/ OwnerOf[s.doc] = Lower[signedIn]
          \/ \E u \in Account(signedIn) : u.role = "admin"

\* test_symbols_graph_search_api.py:167 "ranks_self_first": a search by a symbol
\* that sorts finds a symbol at no distance, unless the symbol was rebuilt after
\* its vector was read or is outside the document asked for.
SelfIsFound ==
  \A r \in Requests : (hits[r] # None /\ hits[r].plan = "sorted") =>
    \A s \in hits[r].self :
      (s.vector = call[r].vector /\ call[r].ask.doc \in {None, s.doc}) =>
        \E h \in hits[r].best : h.vector = s.vector
=============================================================================
