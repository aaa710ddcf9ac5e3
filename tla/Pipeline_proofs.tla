-------------------------- MODULE Pipeline_proofs ---------------------------
(***************************************************************************)
(* Theorems about Pipeline, for every set of documents, workers and        *)
(* clients and every value of the bounds.                                  *)
(***************************************************************************)
EXTENDS Pipeline, FiniteSetTheorems, TLAPS

-----------------------------------------------------------------------------
(* Lemmas about the operators on rows                                      *)

\* A committed enqueue leaves a well-formed row behind.
LEMMA EnqueuedType ==
  /\ Enqueued \in TaskRow
  /\ Enqueued.status = "pending"
  /\ Enqueued.attempts = 0
BY DEF Enqueued, TaskRow, TaskStatus

\* Giving a lease up changes the row's status and owner, nothing else.
LEMMA ReleasedType ==
  ASSUME NEW row \in TaskRow, NEW st \in TaskStatus
  PROVE  /\ Released(row, st) \in TaskRow
         /\ Released(row, st).status = st
         /\ Released(row, st).attempts = row.attempts
BY DEF Released, TaskRow, TaskStatus

\* A claim makes the row running under its worker and counts an attempt.
LEMMA ClaimedType ==
  ASSUME NEW row \in TaskRow, NEW w \in Workers
  PROVE  /\ Claimed(row, w) \in TaskRow
         /\ Claimed(row, w).status = "running"
         /\ Claimed(row, w).lockedBy = w
         /\ Claimed(row, w).attempts = row.attempts + 1
BY DEF Claimed, TaskRow, TaskStatus

\* A claimed task names a row of the queue.
LEMMA RowOfType ==
  ASSUME NEW c \in ClaimedTask
  PROVE  RowOf(c) \in Tasks /\ c.doc \in Docs /\ c.stage \in ProcessingStage
BY DEF RowOf, ClaimedTask, Tasks

-----------------------------------------------------------------------------
(* Type correctness                                                        *)

\* What Finish does to the worker's variables keeps their types.
LEMMA FinishType ==
  ASSUME TypeOK, NEW w \in Workers, Finish(w)
  PROVE  /\ batch' \in [Workers -> SUBSET ClaimedTask]
         /\ phase' \in [Workers -> {"idle", "handling", "burying"}]
         /\ claim' \in [Workers -> ClaimedTask \cup {None}]
         /\ seen' \in [Workers -> DocStatus]
         /\ \A v \in Workers : phase'[v] # "idle" => claim'[v] \in batch'[v]
BY DEF TypeOK, Finish, DocStatus, Absent

\* ChainTo keeps the types of the job and of the queue.
LEMMA ChainToType ==
  ASSUME TypeOK, NEW w \in Workers, phase[w] # "idle",
         NEW next \in ProcessingStage, ChainTo(w, next)
  PROVE  /\ job' \in [Docs -> JobRow]
         /\ task' \in [Tasks -> TaskRow]
         /\ audit' \in [Docs -> SUBSET AuditAction]
<1> DEFINE c == claim[w]
<1>1. c \in ClaimedTask
  BY DEF TypeOK
<1>2. RowOf(c) \in Tasks /\ c.doc \in Docs /\ c.stage \in ProcessingStage /\ <<c.doc, next>> \in Tasks
  BY <1>1, RowOfType DEF Tasks
<1>3. job' \in [Docs -> JobRow]
  BY <1>2 DEF ChainTo, TypeOK, JobRow
<1>4. task' \in [Tasks -> TaskRow]
  <2> DEFINE once == [task EXCEPT ![RowOf(c)] = Released(@, "succeeded")]
  <2>1. once \in [Tasks -> TaskRow]
    BY <1>2, ReleasedType DEF TypeOK, TaskStatus
  <2>2. task' = [once EXCEPT ![<<c.doc, next>>] = Enqueued]
    BY DEF ChainTo
  <2> HIDE DEF once
  <2>3. Enqueued \in TaskRow
    BY <1>2, EnqueuedType DEF TypeOK
  <2> QED
    BY <1>2, <2>1, <2>2, <2>3
<1>5. audit' \in [Docs -> SUBSET AuditAction]
  BY DEF ChainTo, TypeOK
<1> QED
  BY <1>3, <1>4, <1>5

\* A handler that commits keeps the types: what the seven handlers share.
LEMMA HandlerType ==
  ASSUME TypeOK, NEW w \in Workers, HandlerSucceeds(w)
  PROVE  TypeOK'
<1> DEFINE c == claim[w]
<1>1. phase[w] = "handling" /\ Finish(w) /\ UNCHANGED <<request, budgets>>
  BY DEF HandlerSucceeds, Handling, HandleValidate, HandlePdfExtract, HandleOcr,
         HandleClassify, HandleEmbed, HandleGraph, HandleFinalize
<1>2. c \in ClaimedTask /\ seen[w] \in DocStatus
  BY <1>1 DEF TypeOK
<1>3. RowOf(c) \in Tasks /\ c.doc \in Docs
  BY <1>2, RowOfType
<1>4. ASSUME NEW from, NEW to \in ProcessingStatus, MoveDocument(w, from, to)
      PROVE  status' \in [Docs -> DocStatus]
  BY <1>2, <1>3, <1>4 DEF MoveDocument, TypeOK, DocStatus
<1>5. status' \in [Docs -> DocStatus]
  <2>1. CASE HandleGraph(w)
    BY <2>1 DEF HandleGraph, TypeOK
  <2>2. CASE ~HandleGraph(w)
    BY <2>2, <1>4 DEF HandlerSucceeds, HandleValidate, HandlePdfExtract, HandleOcr,
         HandleClassify, HandleEmbed, HandleFinalize, ProcessingStatus
  <2> QED
    BY <2>1, <2>2
<1>6. /\ job' \in [Docs -> JobRow]
      /\ task' \in [Tasks -> TaskRow]
      /\ audit' \in [Docs -> SUBSET AuditAction]
  <2>1. CASE HandleFinalize(w)
    <3>1. task' = [task EXCEPT ![RowOf(c)] = Released(task[RowOf(c)], "succeeded")]
      BY <2>1 DEF HandleFinalize
    <3>2. task' \in [Tasks -> TaskRow]
      BY <1>3, <3>1, ReleasedType DEF TypeOK, TaskStatus
    <3>3. job' \in [Docs -> JobRow] /\ audit' \in [Docs -> SUBSET AuditAction]
      BY <2>1, <1>3 DEF HandleFinalize, TypeOK, JobRow, AuditAction, ProcessingStage
    <3> QED
      BY <3>2, <3>3
  <2>2. CASE ~HandleFinalize(w)
    <3>1. PICK next \in ProcessingStage : ChainTo(w, next)
      BY <2>2 DEF HandlerSucceeds, HandleValidate, HandlePdfExtract, HandleOcr,
         HandleClassify, HandleEmbed, HandleGraph, ProcessingStage
    <3> QED
      BY <1>1, <3>1, ChainToType
  <2> QED
    BY <2>1, <2>2
<1> QED
  BY <1>1, <1>5, <1>6, FinishType DEF TypeOK, budgets

\* There are finitely many rows, so a Reclaim expires finitely many.
LEMMA OverrunType ==
  ASSUME NEW expired \in SUBSET Running
  PROVE  /\ IsFiniteSet(Overrun(expired))
         /\ Cardinality(Overrun(expired)) \in Nat
         /\ Cardinality(Overrun(expired)) = 0 => Overrun(expired) = {}
<1>1. IsFiniteSet(ProcessingStage)
  <2>1. ProcessingStage = {"validate"} \cup {"pdf_extract"} \cup {"ocr"} \cup {"classify"} \cup {"embed"}
                            \cup {"graph"} \cup {"finalize"}
    BY DEF ProcessingStage
  <2>2. \A x : IsFiniteSet({x})
    BY FS_Singleton
  <2>3. \A S, x : IsFiniteSet(S) => IsFiniteSet(S \cup {x})
    BY FS_AddElement
  <2> QED
    BY <2>1, <2>2, <2>3
<1>2. IsFiniteSet(Tasks)
  BY <1>1, FS_Product, PipelineAssumption DEF Tasks
<1>3. Overrun(expired) \in SUBSET Tasks
  BY DEF Overrun, Running
<1> QED
  BY <1>2, <1>3, FS_Subset, FS_CardinalityType, FS_EmptySet

\* Every step keeps the types.
LEMMA TypeStep == TypeOK /\ [Next]_vars => TypeOK'
<1> SUFFICES ASSUME TypeOK, [Next]_vars
             PROVE  TypeOK'
  OBVIOUS
<1>1. ASSUME NEW w \in Workers, NEW due \in SUBSET Pending, Claim(w, due)
      PROVE  TypeOK'
  <2> DEFINE claims == {[doc |-> t[1], stage |-> t[2], attempts |-> task[t].attempts + 1] : t \in due}
  <2>1. \A t \in due : /\ t \in Tasks /\ t[1] \in Docs /\ t[2] \in ProcessingStage
                       /\ task[t] \in TaskRow
    BY DEF Pending, Tasks, TypeOK
  <2>2. claims \in SUBSET ClaimedTask
    BY <2>1 DEF ClaimedTask, TaskRow
  <2>3. batch' \in [Workers -> SUBSET ClaimedTask]
    BY <1>1, <2>2 DEF Claim, TypeOK
  <2>4. task' \in [Tasks -> TaskRow]
    BY <1>1, ClaimedType DEF Claim, TypeOK
  <2>5. \A v \in Workers : phase'[v] # "idle" => claim'[v] \in batch'[v]
    BY <1>1 DEF Claim, Free, TypeOK
  <2> QED
    BY <1>1, <2>3, <2>4, <2>5 DEF Claim, TypeOK, docVars, budgets
<1>2. ASSUME NEW w \in Workers, NEW c \in batch[w], BeginStage(w, c)
      PROVE  TypeOK'
  <2>1. c \in ClaimedTask /\ c.doc \in Docs
    BY RowOfType DEF TypeOK
  <2>2. /\ phase' \in [Workers -> {"idle", "handling", "burying"}]
        /\ claim' \in [Workers -> ClaimedTask \cup {None}]
        /\ seen' \in [Workers -> DocStatus]
    BY <1>2, <2>1 DEF BeginStage, TypeOK
  <2>3. \A v \in Workers : phase'[v] # "idle" => claim'[v] \in batch'[v]
    BY <1>2, <2>1 DEF BeginStage, TypeOK
  <2> QED
    BY <1>2, <2>2, <2>3 DEF BeginStage, TypeOK, docVars, budgets
<1>3. ASSUME NEW w \in Workers, HandlerStops(w) \/ RetryLater(w)
      PROVE  TypeOK'
  <2>1. claim[w] \in ClaimedTask /\ RowOf(claim[w]) \in Tasks
    BY <1>3, RowOfType DEF HandlerStops, RetryLater, TypeOK
  <2>2. task' \in [Tasks -> TaskRow]
    BY <1>3, <2>1, ReleasedType DEF HandlerStops, RetryLater, TypeOK, TaskStatus
  <2>3. Finish(w) /\ UNCHANGED <<docVars, request, budgets>>
    BY <1>3 DEF HandlerStops, RetryLater
  <2> QED
    BY <2>2, <2>3, FinishType DEF TypeOK, docVars, budgets
<1>4. ASSUME NEW w \in Workers, GiveUp(w)
      PROVE  TypeOK'
  <2>1. claim[w] \in ClaimedTask /\ claim[w].doc \in Docs
    BY <1>4, RowOfType DEF GiveUp, TypeOK
  <2> QED
    BY <1>4, <2>1 DEF GiveUp, TypeOK, docVars, budgets
<1>5. ASSUME NEW w \in Workers, BuryTask(w)
      PROVE  TypeOK'
  <2> DEFINE c == claim[w]
  <2>1. c \in ClaimedTask /\ RowOf(c) \in Tasks /\ c.doc \in Docs
    BY <1>5, RowOfType DEF BuryTask, TypeOK
  <2>2. task' \in [Tasks -> TaskRow]
    BY <1>5, <2>1, ReleasedType DEF BuryTask, TypeOK, TaskStatus
  <2>3. status' \in [Docs -> DocStatus] /\ audit' \in [Docs -> SUBSET AuditAction]
    BY <1>5, <2>1 DEF BuryTask, TypeOK, DocStatus, ProcessingStatus, AuditAction
  <2>4. job' \in [Docs -> JobRow]
    BY <1>5, <2>1 DEF BuryTask, TypeOK, JobRow
  <2>5. Finish(w) /\ UNCHANGED <<request, budgets>>
    BY <1>5 DEF BuryTask
  <2> QED
    BY <2>2, <2>3, <2>4, <2>5, FinishType DEF TypeOK, budgets
<1>6. ASSUME NEW w \in Workers, Crash(w)
      PROVE  TypeOK'
  BY <1>6 DEF Crash, TypeOK, docVars, DocStatus, Absent
<1>7. ASSUME NEW expired \in SUBSET Running, Reclaim(expired)
      PROVE  TypeOK'
  <2>1. task' \in [Tasks -> TaskRow]
    BY <1>7, ReleasedType DEF Reclaim, TypeOK, TaskStatus
  <2>2. overruns' \in Nat
    BY <1>7, OverrunType DEF Reclaim, TypeOK
  <2> QED
    BY <1>7, <2>1, <2>2 DEF Reclaim, TypeOK, docVars, workerVars
<1>8. ASSUME NEW d \in Docs, Upload(d)
      PROVE  TypeOK'
  <2>1. <<d, "validate">> \in Tasks
    BY DEF Tasks, ProcessingStage
  <2>2. task' \in [Tasks -> TaskRow]
    BY <1>8, <2>1, EnqueuedType DEF Upload, TypeOK
  <2>3. status' \in [Docs -> DocStatus] /\ audit' \in [Docs -> SUBSET AuditAction]
    BY <1>8 DEF Upload, TypeOK, DocStatus, ProcessingStatus, AuditAction
  <2> QED
    BY <1>8, <2>2, <2>3 DEF Upload, TypeOK, workerVars, budgets
<1>9. ASSUME NEW c \in Clients, NEW d \in Docs, BeginCancel(c, d) \/ BeginReprocess(c, d)
      PROVE  TypeOK'
  <2>1. request' \in [Clients -> Request \cup {None}]
    BY <1>9 DEF BeginCancel, BeginReprocess, TypeOK, Request
  <2>2. cancels' \in Nat /\ reprocesses' \in Nat
    BY <1>9 DEF BeginCancel, BeginReprocess, TypeOK
  <2> QED
    BY <1>9, <2>1, <2>2 DEF BeginCancel, BeginReprocess, TypeOK, docVars, workerVars
<1>10. ASSUME NEW c \in Clients, CommitCancel(c)
       PROVE  TypeOK'
  <2>1. request[c].doc \in Docs
    BY <1>10 DEF CommitCancel, InFlight, TypeOK, Request
  <2>2. status' \in [Docs -> DocStatus] /\ audit' \in [Docs -> SUBSET AuditAction]
    BY <1>10, <2>1 DEF CommitCancel, TypeOK, DocStatus, ProcessingStatus, AuditAction
  <2>3. request' \in [Clients -> Request \cup {None}]
    BY <1>10 DEF CommitCancel, Answered, TypeOK
  <2> QED
    BY <1>10, <2>2, <2>3 DEF CommitCancel, TypeOK, workerVars, budgets
<1>11. ASSUME NEW c \in Clients, CommitReprocess(c)
       PROVE  TypeOK'
  <2> DEFINE d == request[c].doc
  <2>1. d \in Docs /\ request[c].seen \in DocStatus /\ <<d, "validate">> \in Tasks
    BY <1>11 DEF CommitReprocess, InFlight, TypeOK, Request, Tasks, ProcessingStage
  <2>2. task' = [task EXCEPT ![<<d, "validate">>] = Enqueued]
    BY <1>11 DEF CommitReprocess
  <2>3. task' \in [Tasks -> TaskRow]
    BY <2>1, <2>2, EnqueuedType DEF TypeOK
  <2>4. status' \in [Docs -> DocStatus] /\ audit' \in [Docs -> SUBSET AuditAction]
    BY <1>11, <2>1 DEF CommitReprocess, TypeOK, DocStatus, ProcessingStatus, AuditAction
  <2>5. request' \in [Clients -> Request \cup {None}]
    BY <1>11 DEF CommitReprocess, Answered, TypeOK
  <2> QED
    BY <1>11, <2>3, <2>4, <2>5 DEF CommitReprocess, TypeOK, workerVars, budgets
<1>12. CASE UNCHANGED vars
  BY <1>12 DEF TypeOK, vars, docVars, workerVars, budgets
<1> QED
  BY <1>1, <1>2, <1>3, <1>4, <1>5, <1>6, <1>7, <1>8, <1>9, <1>10, <1>11, <1>12,
     HandlerType
     DEF Next, WorkerStep, ClientStep

\* Type correctness, for every value of the constants.
THEOREM TypeCorrect == Spec => []TypeOK
<1>1. Init => TypeOK
  BY DEF Init, TypeOK, JobRow, ProcessingStage, TaskRow, TaskStatus, NoRow, DocStatus, Absent
<1> QED
  BY <1>1, TypeStep, PTL DEF Spec

\* The audit log only grows.
LEMMA AuditGrows ==
  ASSUME TypeOK, [Next]_vars, NEW CONSTANT d \in Docs
  PROVE  audit[d] \subseteq audit'[d]
<1>1. ASSUME NEW w \in Workers, WorkerStep(w)
      PROVE  audit[d] \subseteq audit'[d]
  BY <1>1 DEF WorkerStep, TypeOK, docVars, Claim, BeginStage, HandlerSucceeds, HandleValidate, HandlePdfExtract,
     HandleOcr, HandleClassify, HandleEmbed, HandleGraph, HandleFinalize, ChainTo, HandlerStops, RetryLater,
     GiveUp, BuryTask, Crash
<1>2. ASSUME NEW c \in Clients, ClientStep(c)
      PROVE  audit[d] \subseteq audit'[d]
  BY <1>2 DEF ClientStep, TypeOK, docVars, BeginCancel, BeginReprocess, CommitCancel, CommitReprocess
<1>3. ASSUME NEW expired \in SUBSET Running, Reclaim(expired)
      PROVE  audit[d] \subseteq audit'[d]
  BY <1>3 DEF Reclaim, docVars
<1>4. ASSUME NEW e \in Docs, Upload(e)
      PROVE  audit[d] \subseteq audit'[d]
  BY <1>4 DEF Upload, TypeOK
<1>5. CASE UNCHANGED vars
  BY <1>5 DEF vars, docVars
<1> QED
  BY <1>1, <1>2, <1>3, <1>4, <1>5 DEF Next

-----------------------------------------------------------------------------
(* A status is backed by what the database keeps for ever.                 *)
(*                                                                         *)
(* TerminalIsAudited and StatusIsEarned are not inductive: a handler or a  *)
(* request writes a status it holds in memory.  What is inductive says the *)
(* same of those copies; and since no step removes an audit entry or a row *)
(* of the queue, a copy stays backed however late it is written.           *)

\* The evidence for document d being, or having been, in status st.
Backed(d, st) ==
  /\ st # Absent
  /\ Exists(<<d, "validate">>)
  /\ Exists(<<d, EarnedBy(st)>>)
  /\ st \in TerminalStates => AuditOf(st) \in audit[d]

StatusBacked == \A d \in Docs : status[d] # Absent => Backed(d, status[d])

AbsentHasNoTask == \A d \in Docs : status[d] = Absent => \A s \in ProcessingStage : ~Exists(<<d, s>>)

BatchHasRows == \A w \in Workers : \A c \in batch[w] : Exists(RowOf(c))

SeenBacked == \A w \in Workers : phase[w] # "idle" => Backed(claim[w].doc, seen[w])

RequestBacked == \A c \in Clients : request[c] # None => Backed(request[c].doc, request[c].seen)

HistoryInv == StatusBacked /\ AbsentHasNoTask /\ BatchHasRows /\ SeenBacked /\ RequestBacked

\* Both invariants are parts of it.
LEMMA HistoryImplies == HistoryInv => TerminalIsAudited /\ StatusIsEarned
BY DEF HistoryInv, StatusBacked, Backed, TerminalIsAudited, StatusIsEarned, TerminalStates, Absent

\* What a handler that commits does to the queue and the audit log: only its
\* own row and the next stage's change, and both exist afterwards.
LEMMA HandlerHistory ==
  ASSUME TypeOK, HistoryInv, NEW w \in Workers, HandlerSucceeds(w),
         NEW c \in ClaimedTask, claim[w] = c
  PROVE  /\ \A t \in Tasks : Exists(t) => Exists(t)'
         /\ \A d \in Docs : audit[d] \subseteq audit'[d]
         /\ \A d \in Docs : d # c.doc =>
              /\ status'[d] = status[d]
              /\ \A s \in ProcessingStage : task'[<<d, s>>] = task[<<d, s>>]
         /\ Backed(c.doc, status[c.doc])
         /\ Backed(c.doc, status[c.doc])'
         /\ Finish(w) /\ request' = request
<1>1. phase[w] = "handling" /\ Finish(w) /\ request' = request
  BY DEF HandlerSucceeds, Handling, HandleValidate, HandlePdfExtract, HandleOcr,
         HandleClassify, HandleEmbed, HandleGraph, HandleFinalize
<1>2. c \in batch[w] /\ RowOf(c) \in Tasks /\ c.doc \in Docs
  BY <1>1, RowOfType DEF TypeOK
<1>3. Backed(c.doc, seen[w]) /\ Exists(RowOf(c))
  BY <1>1, <1>2 DEF HistoryInv, SeenBacked, BatchHasRows
<1>4. status[c.doc] # Absent /\ Backed(c.doc, status[c.doc])
  BY <1>2, <1>3, RowOfType DEF HistoryInv, StatusBacked, AbsentHasNoTask, RowOf
<1>5. ASSUME NEW next \in ProcessingStage, ChainTo(w, next)
      PROVE  /\ \A t \in Tasks : Exists(t) => Exists(t)'
             /\ Exists(<<c.doc, next>>)'
             /\ \A d \in Docs : d # c.doc =>
                  \A s \in ProcessingStage : task'[<<d, s>>] = task[<<d, s>>]
             /\ audit' = audit
  <2>1. task' = [task EXCEPT ![RowOf(c)] = Released(task[RowOf(c)], "succeeded"),
                             ![<<c.doc, next>>] = Enqueued]
    BY <1>5 DEF ChainTo
  <2>2. <<c.doc, next>> \in Tasks /\ task \in [Tasks -> TaskRow]
    BY <1>2 DEF Tasks, TypeOK
  <2>3. /\ Released(task[RowOf(c)], "succeeded").status = "succeeded"
        /\ Enqueued.status = "pending"
    BY <1>2, <2>2, ReleasedType, EnqueuedType DEF TaskStatus
  <2>4. \A t \in Tasks : \/ t = RowOf(c) /\ task'[t].status \in {"succeeded", "pending"}
                         \/ t = <<c.doc, next>> /\ task'[t].status = "pending"
                         \/ task'[t] = task[t]
    BY <1>2, <2>1, <2>2, <2>3
  <2>5. \A t \in Tasks : Exists(t) => Exists(t)'
    BY <2>4 DEF Exists
  <2>6. Exists(<<c.doc, next>>)'
    BY <2>1, <2>2, <2>3 DEF Exists
  <2>7. \A d \in Docs : d # c.doc =>
           \A s \in ProcessingStage : task'[<<d, s>>] = task[<<d, s>>]
    BY <2>1, <2>2 DEF RowOf, Tasks
  <2> QED
    BY <1>5, <2>5, <2>6, <2>7 DEF ChainTo
<1>6. CASE HandleFinalize(w)
  <2>1. task' = [task EXCEPT ![RowOf(c)] = Released(task[RowOf(c)], "succeeded")]
    BY <1>6 DEF HandleFinalize
  <2>2. task \in [Tasks -> TaskRow] /\ Released(task[RowOf(c)], "succeeded").status = "succeeded"
    BY <1>2, ReleasedType DEF TypeOK, TaskStatus
  <2>3. \A t \in Tasks : Exists(t) => Exists(t)'
    BY <1>2, <2>1, <2>2 DEF Exists
  <2>4. \A d \in Docs : d # c.doc => \A s \in ProcessingStage : task'[<<d, s>>] = task[<<d, s>>]
    BY <1>2, <2>1, <2>2 DEF RowOf, Tasks
  <2>5. \A d \in Docs : audit[d] \subseteq audit'[d]
    BY <1>2, <1>6 DEF HandleFinalize, TypeOK
  <2>6. \A d \in Docs : d # c.doc => status'[d] = status[d]
    BY <1>2, <1>6 DEF HandleFinalize, MoveDocument, TypeOK
  <2>7. /\ status'[c.doc] = IF seen[w] = "EMBEDDING" THEN "COMPLETED" ELSE seen[w]
        /\ "completed" \in audit'[c.doc]
        /\ c.stage = "finalize"
    BY <1>2, <1>6 DEF HandleFinalize, Handling, MoveDocument, TypeOK
  <2>8. \A s \in ProcessingStage : Exists(<<c.doc, s>>) => Exists(<<c.doc, s>>)'
    BY <1>2, <2>3 DEF Tasks
  <2>9. ASSUME seen[w] = "EMBEDDING" PROVE Backed(c.doc, status[c.doc])'
    <3>1. Exists(<<c.doc, "finalize">>)' /\ Exists(<<c.doc, "validate">>)'
      BY <1>3, <2>7, <2>8 DEF RowOf, Backed, ProcessingStage
    <3> QED
      BY <2>7, <2>9, <3>1 DEF Backed, EarnedBy, AuditOf, Absent
  <2>10. ASSUME seen[w] # "EMBEDDING" PROVE Backed(c.doc, status[c.doc])'
    <3>1. EarnedBy(seen[w]) \in ProcessingStage
      BY DEF EarnedBy, ProcessingStage
    <3>2. audit[c.doc] \subseteq audit'[c.doc]
      BY <1>2, <2>5
    <3> QED
      BY <1>3, <2>7, <2>8, <2>10, <3>1, <3>2 DEF Backed, ProcessingStage
  <2> QED
    BY <1>1, <1>4, <2>3, <2>4, <2>5, <2>6, <2>9, <2>10
<1>7. ASSUME NEW next \in ProcessingStage, ChainTo(w, next),
             NEW from, NEW to, MoveDocument(w, from, to),
             EarnedBy(to) \in {"validate", next}, to # Absent, to \notin TerminalStates
      PROVE  /\ Backed(c.doc, status[c.doc])'
             /\ \A d \in Docs : d # c.doc => status'[d] = status[d]
  <2>1. /\ status'[c.doc] = IF seen[w] = from THEN to ELSE seen[w]
        /\ \A d \in Docs : d # c.doc => status'[d] = status[d]
    BY <1>2, <1>7 DEF MoveDocument, TypeOK
  <2>2. \A s \in ProcessingStage : Exists(<<c.doc, s>>) => Exists(<<c.doc, s>>)'
    BY <1>2, <1>5, <1>7 DEF Tasks
  <2>3. Exists(<<c.doc, next>>)' /\ Exists(<<c.doc, "validate">>)' /\ audit' = audit
    BY <1>3, <1>5, <1>7, <2>2 DEF Backed, ProcessingStage
  <2>4. EarnedBy(seen[w]) \in ProcessingStage
    BY DEF EarnedBy, ProcessingStage
  <2> QED
    BY <1>3, <1>7, <2>1, <2>2, <2>3, <2>4 DEF Backed
<1>8. CASE HandleGraph(w)
  <2>1. "finalize" \in ProcessingStage /\ ChainTo(w, "finalize") /\ status' = status
    BY <1>8 DEF HandleGraph, ProcessingStage
  <2>2. \A s \in ProcessingStage : Exists(<<c.doc, s>>) => Exists(<<c.doc, s>>)'
    BY <1>2, <1>5, <2>1 DEF Tasks
  <2>3. EarnedBy(status[c.doc]) \in ProcessingStage /\ "validate" \in ProcessingStage
    BY DEF EarnedBy, ProcessingStage
  <2>4. Backed(c.doc, status[c.doc])'
    BY <1>4, <1>5, <2>1, <2>2, <2>3 DEF Backed
  <2> QED
    BY <1>1, <1>4, <1>5, <2>1, <2>4
<1>9. CASE ~HandleFinalize(w) /\ ~HandleGraph(w)
  <2>1. PICK next \in ProcessingStage, to \in ProcessingStatus :
          /\ ChainTo(w, next)
          /\ \E from \in ProcessingStatus : MoveDocument(w, from, to)
          /\ EarnedBy(to) \in {"validate", next}
          /\ to # Absent
          /\ to \notin TerminalStates
    BY <1>9 DEF HandlerSucceeds, HandleValidate, HandlePdfExtract, HandleOcr, HandleClassify,
         HandleEmbed, ProcessingStage, ProcessingStatus, EarnedBy, Absent, TerminalStates
  <2> QED
    BY <1>1, <1>4, <1>5, <1>7, <2>1
<1> QED
  BY <1>6, <1>8, <1>9

\* Evidence is never lost: rows of the queue and audit entries only accrue.
LEMMA BackedStays ==
  ASSUME \A t \in Tasks : Exists(t) => Exists(t)',
         \A d \in Docs : audit[d] \subseteq audit'[d]
  PROVE  \A d \in Docs, st \in DocStatus : Backed(d, st) => Backed(d, st)'
<1> SUFFICES ASSUME NEW CONSTANT d \in Docs, NEW CONSTANT st \in DocStatus, Backed(d, st)
             PROVE  Backed(d, st)'
  OBVIOUS
<1>1. EarnedBy(st) \in ProcessingStage /\ "validate" \in ProcessingStage
  BY DEF EarnedBy, ProcessingStage
<1>2. <<d, EarnedBy(st)>> \in Tasks /\ <<d, "validate">> \in Tasks
  BY <1>1 DEF Tasks
<1> QED
  BY <1>2 DEF Backed

\* A row that some status has been read or written for exists, so its
\* document does.
LEMMA BackedExists ==
  ASSUME TypeOK, HistoryInv, NEW d \in Docs, NEW s \in ProcessingStage, Exists(<<d, s>>)
  PROVE  status[d] \in ProcessingStatus /\ Backed(d, status[d])
BY DEF HistoryInv, StatusBacked, AbsentHasNoTask, TypeOK, DocStatus

\* Where a step neither creates nor removes rows and leaves the statuses and
\* the audit log alone, what concerns the database stays as it is.
LEMMA QuietStep ==
  ASSUME TypeOK, HistoryInv, UNCHANGED <<status, audit>>,
         \A t \in Tasks : Exists(t)' <=> Exists(t)
  PROVE  /\ StatusBacked' /\ AbsentHasNoTask'
         /\ \A d \in Docs, st \in DocStatus : Backed(d, st) => Backed(d, st)'
<1>1. \A d \in Docs, st \in DocStatus : Backed(d, st) => Backed(d, st)'
  BY BackedStays
<1>2. StatusBacked'
  <2> SUFFICES ASSUME NEW CONSTANT d \in Docs, status[d] # Absent
               PROVE  Backed(d, status[d])'
    BY DEF StatusBacked
  <2>1. PICK st \in DocStatus : st = status[d]
    BY DEF TypeOK
  <2>2. Backed(d, st)
    BY <2>1 DEF HistoryInv, StatusBacked
  <2>3. Backed(d, st)'
    BY <1>1, <2>2
  <2> QED
    BY <2>1, <2>3 DEF Backed
<1>3. AbsentHasNoTask'
  BY DEF HistoryInv, AbsentHasNoTask, Tasks
<1> QED
  BY <1>1, <1>2, <1>3

\* A step that moves document d alone: what is left to show is that d's new
\* status is backed.
LEMMA MovesOne ==
  ASSUME TypeOK, TypeOK', HistoryInv, NEW CONSTANT d \in Docs,
         \A t \in Tasks : Exists(t) => Exists(t)',
         \A e \in Docs : audit[e] \subseteq audit'[e],
         \A e \in Docs : e # d =>
           /\ status'[e] = status[e]
           /\ \A s \in ProcessingStage : task'[<<e, s>>] = task[<<e, s>>],
         Backed(d, status[d])'
  PROVE  /\ StatusBacked' /\ AbsentHasNoTask'
         /\ \A e \in Docs, st \in DocStatus : Backed(e, st) => Backed(e, st)'
<1>1. \A e \in Docs, st \in DocStatus : Backed(e, st) => Backed(e, st)'
  BY BackedStays
<1>2. StatusBacked'
  <2> SUFFICES ASSUME NEW CONSTANT e \in Docs, status'[e] # Absent, e # d
               PROVE  Backed(e, status[e])'
    BY DEF StatusBacked
  <2>1. status'[e] = status[e] /\ Backed(e, status[e]) /\ status[e] \in DocStatus
    BY DEF HistoryInv, StatusBacked, TypeOK
  <2> QED
    BY <1>1, <2>1 DEF Backed
<1>3. AbsentHasNoTask'
  BY DEF HistoryInv, AbsentHasNoTask, Exists, Backed
<1> QED
  BY <1>1, <1>2, <1>3

\* A task leaves the hands of a worker: the other claims keep their evidence.
LEMMA FinishHistory ==
  ASSUME TypeOK, HistoryInv, NEW w \in Workers, Finish(w), request' = request,
         \A t \in Tasks : Exists(t) => Exists(t)',
         \A d \in Docs, st \in DocStatus : Backed(d, st) => Backed(d, st)'
  PROVE  BatchHasRows' /\ SeenBacked' /\ RequestBacked'
<1>1. BatchHasRows'
  BY RowOfType DEF HistoryInv, BatchHasRows, Finish, TypeOK, RowOf
<1>2. SeenBacked'
  BY RowOfType DEF HistoryInv, SeenBacked, Finish, TypeOK, Backed
<1>3. RequestBacked'
  BY DEF HistoryInv, RequestBacked, TypeOK, Request, Backed
<1> QED
  BY <1>1, <1>2, <1>3

\* A step that leaves the database's documents, audit log and rows in place
\* and only moves the workers.
LEMMA ClaimHistory ==
  ASSUME TypeOK, HistoryInv, NEW w \in Workers, NEW due \in SUBSET Pending, Claim(w, due)
  PROVE  HistoryInv'
<1> DEFINE claims == {[doc |-> t[1], stage |-> t[2], attempts |-> task[t].attempts + 1] : t \in due}
<1>1. due \subseteq Tasks /\ \A t \in due : Exists(t)
  BY DEF Pending, Exists
<1>2. \A t \in Tasks : Exists(t)' <=> Exists(t)
  BY <1>1, ClaimedType DEF Claim, Exists, TypeOK
<1>3. \A c \in claims : RowOf(c) \in due
  BY <1>1 DEF RowOf, Tasks
<1>4. /\ \A v \in Workers : v # w => batch'[v] = batch[v]
      /\ batch'[w] = claims
  BY DEF Claim, TypeOK
<1>5. \A c : RowOf(c)' = RowOf(c)
  BY DEF RowOf
<1>6. BatchHasRows'
  <2> SUFFICES ASSUME NEW CONSTANT v \in Workers, NEW CONSTANT c \in batch'[v]
               PROVE  Exists(RowOf(c))'
    BY DEF BatchHasRows
  <2>1. RowOf(c) \in Tasks /\ Exists(RowOf(c))
    <3>1. CASE v = w
      BY <1>1, <1>3, <1>4, <3>1
    <3>2. CASE v # w
      BY <1>4, <3>2, RowOfType DEF HistoryInv, BatchHasRows, TypeOK
    <3> QED
      BY <3>1, <3>2
  <2> QED
    BY <1>2, <2>1 DEF Exists, RowOf
<1>7. StatusBacked' /\ AbsentHasNoTask' /\ \A d \in Docs, st \in DocStatus : Backed(d, st) => Backed(d, st)'
  BY <1>2, QuietStep DEF Claim, docVars
<1>8. SeenBacked'
  BY <1>7, RowOfType DEF HistoryInv, SeenBacked, Claim, TypeOK, Backed
<1>9. RequestBacked'
  BY <1>7 DEF HistoryInv, RequestBacked, Claim, TypeOK, Request, Backed
<1> QED
  BY <1>6, <1>7, <1>8, <1>9 DEF HistoryInv

\* A worker that reads a status reads one that is backed.
LEMMA ReadHistory ==
  ASSUME TypeOK, TypeOK', HistoryInv, UNCHANGED <<docVars, task, batch, request>>,
         NEW CONSTANT w \in Workers, NEW CONSTANT c \in batch[w],
         \A v \in Workers : v # w => phase'[v] = phase[v] /\ claim'[v] = claim[v] /\ seen'[v] = seen[v],
         claim'[w] = c, seen'[w] = status[c.doc]
  PROVE  HistoryInv'
<1>1. \A t \in Tasks : Exists(t)' <=> Exists(t)
  BY DEF Exists
<1>2. StatusBacked' /\ AbsentHasNoTask' /\ \A d \in Docs, st \in DocStatus : Backed(d, st) => Backed(d, st)'
  BY <1>1, QuietStep DEF docVars
<1>3. c \in ClaimedTask /\ c.doc \in Docs /\ RowOf(c) = <<c.doc, c.stage>> /\ c.stage \in ProcessingStage
  BY RowOfType DEF TypeOK, RowOf
<1>4. Backed(c.doc, status[c.doc]) /\ status[c.doc] \in DocStatus
  BY <1>3, BackedExists DEF HistoryInv, BatchHasRows, TypeOK
<1>5. SeenBacked'
  <2> SUFFICES ASSUME NEW CONSTANT v \in Workers, phase'[v] # "idle"
               PROVE  Backed(claim[v].doc, seen[v])'
    BY DEF SeenBacked
  <2>1. CASE v = w
    BY <1>2, <1>3, <1>4, <2>1 DEF Backed
  <2>2. CASE v # w
    BY <1>2, <2>2, RowOfType DEF HistoryInv, SeenBacked, TypeOK, Backed
  <2> QED
    BY <2>1, <2>2
<1>6. BatchHasRows'
  BY <1>1, RowOfType DEF HistoryInv, BatchHasRows, TypeOK, RowOf, Exists
<1>7. RequestBacked'
  BY <1>2 DEF HistoryInv, RequestBacked, TypeOK, Request, Backed
<1> QED
  BY <1>2, <1>5, <1>6, <1>7 DEF HistoryInv

\* The failure transaction leaves a FAILED document with its audit entry.
LEMMA BuryHistory ==
  ASSUME TypeOK, TypeOK', HistoryInv, NEW CONSTANT w \in Workers, BuryTask(w)
  PROVE  HistoryInv'
<1>1. PICK c \in ClaimedTask : c = claim[w] /\ c \in batch[w]
  BY DEF BuryTask, TypeOK
<1>2. RowOf(c) = <<c.doc, c.stage>> /\ RowOf(c) \in Tasks /\ c.doc \in Docs /\ c.stage \in ProcessingStage
  BY RowOfType DEF RowOf
<1>3. Exists(RowOf(c)) /\ Backed(c.doc, status[c.doc])
  BY <1>1, <1>2, BackedExists DEF HistoryInv, BatchHasRows
<1>4. /\ task' = [task EXCEPT ![RowOf(c)] = Released(task[RowOf(c)], "dead")]
      /\ Finish(w) /\ request' = request
  BY <1>1 DEF BuryTask
<1>5. Released(task[RowOf(c)], "dead").status = "dead"
  BY <1>2, ReleasedType DEF TypeOK, TaskStatus
<1>6. \A t \in Tasks : Exists(t) => Exists(t)'
  BY <1>4, <1>5 DEF Exists, TypeOK
<1>7. /\ \A d \in Docs : audit[d] \subseteq audit'[d]
      /\ "failed" \in audit'[c.doc]
  BY <1>1, <1>2 DEF BuryTask, TypeOK
<1>8. \A d \in Docs : d # c.doc =>
        /\ status'[d] = status[d]
        /\ \A s \in ProcessingStage : task'[<<d, s>>] = task[<<d, s>>]
  BY <1>1, <1>2, <1>4 DEF BuryTask, TypeOK, Tasks
<1>9. \A d \in Docs, st \in DocStatus : Backed(d, st) => Backed(d, st)'
  BY <1>6, <1>7, BackedStays
<1>10. Backed(c.doc, status[c.doc])'
  <2>1. CASE status' = status
    <3>1. status[c.doc] \in DocStatus
      BY <1>2 DEF TypeOK
    <3> QED
      BY <1>2, <1>3, <1>9, <2>1, <3>1 DEF Backed
  <2>2. ASSUME status' # status
        PROVE  Backed(c.doc, status[c.doc])'
    <3>1. status'[c.doc] = "FAILED"
      BY <1>1, <1>2, <2>2 DEF BuryTask, TypeOK
    <3>2. Exists(<<c.doc, "validate">>)'
      BY <1>2, <1>3, <1>6 DEF Backed, Tasks, ProcessingStage
    <3>3. EarnedBy("FAILED") = "validate" /\ AuditOf("FAILED") = "failed" /\ "FAILED" # Absent
      BY DEF EarnedBy, AuditOf, Absent
    <3> QED
      BY <1>7, <3>1, <3>2, <3>3 DEF Backed
  <2> QED
    BY <2>1, <2>2
<1>11. StatusBacked' /\ AbsentHasNoTask'
  BY <1>2, <1>6, <1>7, <1>8, <1>10, MovesOne
<1>12. BatchHasRows' /\ SeenBacked' /\ RequestBacked'
  BY <1>4, <1>6, <1>9, FinishHistory
<1> QED
  BY <1>11, <1>12 DEF HistoryInv

\* A step of a request or an upload that moves document d to `to`: no worker
\* moves, and the evidence for `to` is at hand when it commits.
LEMMA ApiHistory ==
  ASSUME TypeOK, TypeOK', HistoryInv, UNCHANGED workerVars,
         NEW CONSTANT d \in Docs, NEW CONSTANT to \in ProcessingStatus,
         status' = [status EXCEPT ![d] = to],
         \A t \in Tasks : Exists(t) => Exists(t)',
         \A e \in Docs : audit[e] \subseteq audit'[e],
         \A e \in Docs : e # d => \A s \in ProcessingStage : task'[<<e, s>>] = task[<<e, s>>],
         Backed(d, to)',
         \A c \in Clients : request'[c] = request[c] \/ request'[c] = None
  PROVE  HistoryInv'
<1>1. status'[d] = to /\ \A e \in Docs : e # d => status'[e] = status[e]
  BY DEF TypeOK
<1>2. Backed(d, status[d])'
  BY <1>1 DEF Backed
<1>3. StatusBacked' /\ AbsentHasNoTask' /\ \A e \in Docs, st \in DocStatus : Backed(e, st) => Backed(e, st)'
  BY <1>1, <1>2, MovesOne
<1>4. BatchHasRows'
  BY RowOfType DEF HistoryInv, BatchHasRows, workerVars, TypeOK, RowOf
<1>5. SeenBacked'
  BY <1>3, RowOfType DEF HistoryInv, SeenBacked, workerVars, TypeOK, Backed
<1>6. RequestBacked'
  BY <1>3 DEF HistoryInv, RequestBacked, TypeOK, Request, Backed
<1> QED
  BY <1>3, <1>4, <1>5, <1>6 DEF HistoryInv

\* Every step keeps the statuses, in the database and in memory, backed.
LEMMA HistoryStep == TypeOK /\ TypeOK' /\ HistoryInv /\ [Next]_vars => HistoryInv'
<1> SUFFICES ASSUME TypeOK, TypeOK', HistoryInv, [Next]_vars
             PROVE  HistoryInv'
  OBVIOUS
<1>1. ASSUME NEW w \in Workers, NEW c \in batch[w], BeginStage(w, c)
      PROVE  HistoryInv'
  <2>1. /\ \A v \in Workers : v # w => phase'[v] = phase[v] /\ claim'[v] = claim[v] /\ seen'[v] = seen[v]
        /\ claim'[w] = c /\ seen'[w] = status[c.doc]
    BY <1>1 DEF BeginStage, TypeOK
  <2> QED
    BY <1>1, <2>1, ReadHistory DEF BeginStage
<1>2. ASSUME NEW w \in Workers, GiveUp(w)
      PROVE  HistoryInv'
  <2>1. PICK c \in batch[w] : c = claim[w]
    BY <1>2 DEF GiveUp, TypeOK
  <2>2. /\ \A v \in Workers : v # w => phase'[v] = phase[v] /\ claim'[v] = claim[v] /\ seen'[v] = seen[v]
        /\ claim'[w] = c /\ seen'[w] = status[c.doc]
    BY <1>2, <2>1 DEF GiveUp, TypeOK
  <2> QED
    BY <1>2, <2>2, ReadHistory DEF GiveUp
<1>3. ASSUME NEW w \in Workers, HandlerSucceeds(w)
      PROVE  HistoryInv'
  <2>1. PICK c \in ClaimedTask : claim[w] = c
    BY <1>3 DEF HandlerSucceeds, Handling, HandleValidate, HandlePdfExtract, HandleOcr,
         HandleClassify, HandleEmbed, HandleGraph, HandleFinalize, TypeOK
  <2>2. /\ \A t \in Tasks : Exists(t) => Exists(t)'
        /\ \A d \in Docs : audit[d] \subseteq audit'[d]
        /\ \A d \in Docs : d # c.doc =>
             /\ status'[d] = status[d]
             /\ \A s \in ProcessingStage : task'[<<d, s>>] = task[<<d, s>>]
        /\ Backed(c.doc, status[c.doc])'
        /\ Finish(w) /\ request' = request
    BY <1>3, <2>1, HandlerHistory
  <2>3. StatusBacked' /\ AbsentHasNoTask'
    BY <2>2, RowOfType, MovesOne
  <2>4. BatchHasRows' /\ SeenBacked' /\ RequestBacked'
    BY <2>2, BackedStays, FinishHistory
  <2> QED
    BY <2>3, <2>4 DEF HistoryInv
<1>4. ASSUME NEW w \in Workers, HandlerStops(w) \/ RetryLater(w)
      PROVE  HistoryInv'
  <2>1. PICK c \in ClaimedTask : claim[w] = c /\ c \in batch[w] /\ RowOf(c) \in Tasks
    BY <1>4, RowOfType DEF HandlerStops, RetryLater, TypeOK
  <2>2. PICK st \in {"succeeded", "pending"} :
          task' = [task EXCEPT ![RowOf(c)] = Released(task[RowOf(c)], st)]
    BY <1>4, <2>1 DEF HandlerStops, RetryLater
  <2>3. Released(task[RowOf(c)], st).status = st /\ Exists(RowOf(c))
    BY <2>1, ReleasedType DEF TypeOK, TaskStatus, HistoryInv, BatchHasRows
  <2>4. \A t \in Tasks : Exists(t)' <=> Exists(t)
    BY <2>1, <2>2, <2>3 DEF Exists, TypeOK
  <2>5. Finish(w) /\ UNCHANGED <<status, audit, request>>
    BY <1>4 DEF HandlerStops, RetryLater, docVars
  <2>6. StatusBacked' /\ AbsentHasNoTask' /\ \A d \in Docs, x \in DocStatus : Backed(d, x) => Backed(d, x)'
    BY <2>4, <2>5, QuietStep
  <2>7. BatchHasRows' /\ SeenBacked' /\ RequestBacked'
    BY <2>4, <2>5, <2>6, FinishHistory
  <2> QED
    BY <2>6, <2>7 DEF HistoryInv
<1>5. ASSUME NEW w \in Workers, Crash(w)
      PROVE  HistoryInv'
  <2>1. UNCHANGED <<status, audit, task, request>>
    BY <1>5 DEF Crash, docVars
  <2>2. StatusBacked' /\ AbsentHasNoTask' /\ \A d \in Docs, x \in DocStatus : Backed(d, x) => Backed(d, x)'
    BY <2>1, QuietStep DEF Exists
  <2>3. BatchHasRows'
    BY <1>5, <2>1, RowOfType DEF HistoryInv, BatchHasRows, Crash, TypeOK, RowOf, Exists
  <2>4. SeenBacked'
    BY <1>5, <2>2, RowOfType DEF HistoryInv, SeenBacked, Crash, TypeOK, Backed
  <2>5. RequestBacked'
    BY <2>1, <2>2 DEF HistoryInv, RequestBacked, TypeOK, Request, Backed
  <2> QED
    BY <2>2, <2>3, <2>4, <2>5 DEF HistoryInv
<1>6. ASSUME NEW expired \in SUBSET Running, Reclaim(expired)
      PROVE  HistoryInv'
  <2>1. UNCHANGED <<status, audit, workerVars, request>>
    BY <1>6 DEF Reclaim, docVars
  <2>2. \A t \in Tasks : Exists(t)' <=> Exists(t)
    BY <1>6, ReleasedType DEF Reclaim, Running, Exists, TypeOK, TaskStatus
  <2>3. StatusBacked' /\ AbsentHasNoTask' /\ \A d \in Docs, x \in DocStatus : Backed(d, x) => Backed(d, x)'
    BY <2>1, <2>2, QuietStep
  <2>4. BatchHasRows'
    BY <2>1, <2>2, RowOfType DEF HistoryInv, BatchHasRows, workerVars, TypeOK, RowOf
  <2>5. SeenBacked'
    BY <2>1, <2>3, RowOfType DEF HistoryInv, SeenBacked, workerVars, TypeOK, Backed
  <2>6. RequestBacked'
    BY <2>1, <2>3 DEF HistoryInv, RequestBacked, TypeOK, Request, Backed
  <2> QED
    BY <2>3, <2>4, <2>5, <2>6 DEF HistoryInv
<1>7. ASSUME NEW d \in Docs, Upload(d)
      PROVE  HistoryInv'
  <2>1. <<d, "validate">> \in Tasks
    BY DEF Tasks, ProcessingStage
  <2>2. task' = [task EXCEPT ![<<d, "validate">>] = Enqueued]
    BY <1>7 DEF Upload
  <2>3. Enqueued.status = "pending"
    BY <2>1, EnqueuedType DEF TypeOK
  <2>4. /\ \A t \in Tasks : Exists(t) => Exists(t)'
        /\ Exists(<<d, "validate">>)'
        /\ \A e \in Docs : e # d => \A s \in ProcessingStage : task'[<<e, s>>] = task[<<e, s>>]
    BY <2>1, <2>2, <2>3 DEF Exists, TypeOK, Tasks
  <2>5. \A e \in Docs : audit[e] \subseteq audit'[e]
    BY <1>7 DEF Upload, TypeOK
  <2>6. Backed(d, "UPLOADED")'
    BY <2>4 DEF Backed, EarnedBy, TerminalStates, Absent
  <2>7. status' = [status EXCEPT ![d] = "UPLOADED"] /\ UNCHANGED <<workerVars, request>>
    BY <1>7 DEF Upload
  <2> QED
    BY <2>4, <2>5, <2>6, <2>7, ApiHistory DEF ProcessingStatus
<1>8. ASSUME NEW c \in Clients, NEW d \in Docs, BeginCancel(c, d) \/ BeginReprocess(c, d)
      PROVE  HistoryInv'
  <2>1. UNCHANGED <<status, audit, task, workerVars>> /\ status[d] # Absent
    BY <1>8 DEF BeginCancel, BeginReprocess, docVars, InProgress, Finished, Absent
  <2>2. StatusBacked' /\ AbsentHasNoTask' /\ \A e \in Docs, x \in DocStatus : Backed(e, x) => Backed(e, x)'
    BY <2>1, QuietStep DEF Exists
  <2>3. BatchHasRows'
    BY <2>1, RowOfType DEF HistoryInv, BatchHasRows, workerVars, TypeOK, RowOf, Exists
  <2>4. SeenBacked'
    BY <2>1, <2>2, RowOfType DEF HistoryInv, SeenBacked, workerVars, TypeOK, Backed
  <2>5. Backed(d, status[d]) /\ status[d] \in DocStatus
    BY <2>1 DEF HistoryInv, StatusBacked, TypeOK
  <2>6. /\ request'[c].doc = d /\ request'[c].seen = status[d]
        /\ \A e \in Clients : e # c => request'[e] = request[e]
    BY <1>8 DEF BeginCancel, BeginReprocess, TypeOK
  <2>7. RequestBacked'
    <3> SUFFICES ASSUME NEW CONSTANT e \in Clients, request'[e] # None
                 PROVE  Backed(request[e].doc, request[e].seen)'
      BY DEF RequestBacked
    <3>1. CASE e = c
      BY <2>2, <2>5, <2>6, <3>1 DEF Backed
    <3>2. CASE e # c
      BY <2>2, <2>6, <3>2 DEF HistoryInv, RequestBacked, TypeOK, Request, Backed
    <3> QED
      BY <3>1, <3>2
  <2> QED
    BY <2>2, <2>3, <2>4, <2>7 DEF HistoryInv
<1>9. ASSUME NEW c \in Clients, CommitCancel(c)
      PROVE  HistoryInv'
  <2>1. PICK d \in Docs : d = request[c].doc /\ Backed(d, request[c].seen)
    BY <1>9 DEF CommitCancel, InFlight, TypeOK, Request, HistoryInv, RequestBacked
  <2>2. status' = [status EXCEPT ![d] = "CANCELLED"] /\ UNCHANGED <<task, workerVars>>
    BY <1>9, <2>1 DEF CommitCancel
  <2>3. "cancel" \in audit'[d] /\ \A e \in Docs : audit[e] \subseteq audit'[e]
    BY <1>9, <2>1 DEF CommitCancel, TypeOK
  <2>4. EarnedBy("CANCELLED") = "validate" /\ AuditOf("CANCELLED") = "cancel" /\ "CANCELLED" # Absent
    BY DEF EarnedBy, AuditOf, Absent
  <2>5. Backed(d, "CANCELLED")'
    BY <2>1, <2>2, <2>3, <2>4 DEF Backed, Exists
  <2>6. \A e \in Clients : request'[e] = request[e] \/ request'[e] = None
    BY <1>9 DEF CommitCancel, Answered, TypeOK
  <2> QED
    BY <2>2, <2>3, <2>5, <2>6, ApiHistory DEF ProcessingStatus, Exists
<1>10. ASSUME NEW c \in Clients, CommitReprocess(c)
       PROVE  HistoryInv'
  <2>1. PICK d \in Docs, st \in DocStatus : d = request[c].doc /\ st = request[c].seen /\ Backed(d, st)
    BY <1>10 DEF CommitReprocess, InFlight, TypeOK, Request, HistoryInv, RequestBacked
  <2> DEFINE to == IF st = "FAILED" THEN "QUEUED" ELSE st
  <2>2. /\ status' = [status EXCEPT ![d] = to]
        /\ task' = [task EXCEPT ![<<d, "validate">>] = Enqueued]
        /\ UNCHANGED workerVars
    BY <1>10, <2>1 DEF CommitReprocess
  <2>3. <<d, "validate">> \in Tasks
    BY DEF Tasks, ProcessingStage
  <2>4. Enqueued.status = "pending"
    BY <2>3, EnqueuedType DEF TypeOK
  <2>5. /\ \A t \in Tasks : Exists(t) => Exists(t)'
        /\ \A e \in Docs : e # d => \A s \in ProcessingStage : task'[<<e, s>>] = task[<<e, s>>]
    BY <2>2, <2>3, <2>4 DEF Exists, TypeOK, Tasks
  <2>6. \A e \in Docs : audit[e] \subseteq audit'[e]
    BY <1>10 DEF CommitReprocess, TypeOK
  <2>7. Backed(d, st)' /\ to \in ProcessingStatus
    BY <2>1, <2>5, <2>6, BackedStays DEF Backed, DocStatus, ProcessingStatus
  <2>8. EarnedBy("QUEUED") = "validate" /\ "QUEUED" # Absent /\ "QUEUED" \notin TerminalStates
    BY DEF EarnedBy, Absent, TerminalStates
  <2>9. Backed(d, to)'
    BY <2>7, <2>8 DEF Backed
  <2>10. \A e \in Clients : request'[e] = request[e] \/ request'[e] = None
    BY <1>10 DEF CommitReprocess, Answered, TypeOK
  <2> QED
    BY <2>2, <2>5, <2>6, <2>7, <2>9, <2>10, ApiHistory
<1>11. CASE UNCHANGED vars
  BY <1>11, RowOfType DEF HistoryInv, StatusBacked, AbsentHasNoTask, BatchHasRows, SeenBacked,
     RequestBacked, Backed, Exists, RowOf, vars, docVars, workerVars
<1> QED
  BY <1>1, <1>2, <1>3, <1>4, <1>5, <1>6, <1>7, <1>8, <1>9, <1>10, <1>11, ClaimHistory, BuryHistory
     DEF Next, WorkerStep, ClientStep

\* The evidence is there in every reachable state.
LEMMA HistoryHolds == Spec => []HistoryInv
<1>1. Init => HistoryInv
  <2> SUFFICES ASSUME Init PROVE HistoryInv
    OBVIOUS
  <2>1. StatusBacked
    BY DEF Init, StatusBacked
  <2>2. AbsentHasNoTask
    BY DEF Init, AbsentHasNoTask, Exists, NoRow, Tasks
  <2>3. BatchHasRows /\ SeenBacked /\ RequestBacked
    BY DEF Init, BatchHasRows, SeenBacked, RequestBacked
  <2> QED
    BY <2>1, <2>2, <2>3 DEF HistoryInv
<1>2. TypeOK /\ TypeOK' /\ HistoryInv /\ [Next]_vars => HistoryInv'
  BY HistoryStep
<1> QED
  BY <1>1, <1>2, TypeCorrect, PTL DEF Spec

\* A terminal status is always audited and no status runs ahead of its
\* stages, for any number of documents, workers, crashes, expired leases,
\* cancellations and reprocessings: zombies may write stale statuses, never
\* unearned ones.
THEOREM StatusIsBacked == Spec => [](TerminalIsAudited /\ StatusIsEarned)
BY HistoryHolds, HistoryImplies, PTL

-----------------------------------------------------------------------------
(* Retries are bounded                                                     *)
(*                                                                         *)
(* RetryBudget is not inductive: a zombie, a worker whose lease ran out,   *)
(* can put a row back that somebody else has finished, and a late commit   *)
(* can start a stage afresh.  What is inductive bounds the parties that    *)
(* could do so.  A document has one chance to be worked on, plus one for   *)
(* each lease that ran out: a queued or claimed row is a chance, and so is *)
(* a claim that lost its row.  A task can be claimed again while it is     *)
(* unclaimed, and once more for every claim that still may retry it.       *)
(* The operators take the queue and the batches as parameters, so that a   *)
(* step is followed one statement at a time.                               *)

Claims == Workers \X ClaimedTask

\* The queue says that worker x[1] holds the lease of its claim x[2].
Holds(tk, x) == tk[RowOf(x[2])].status = "running" /\ tk[RowOf(x[2])].lockedBy = x[1]

LiveRows(tk, d) == {t \in Tasks : t[1] = d /\ tk[t].status \in {"pending", "running"}}

Zombies(tk, bt, d) == {x \in Claims : x[2] \in bt[x[1]] /\ x[2].doc = d /\ ~Holds(tk, x)}

\* At most n chances of document d.
Chances(tk, bt, d, n) ==
  /\ IsFiniteSet(LiveRows(tk, d)) /\ IsFiniteSet(Zombies(tk, bt, d))
  /\ Cardinality(LiveRows(tk, d)) + Cardinality(Zombies(tk, bt, d)) <= n

\* The claims of task t that _handle_failure would still retry.
Retriers(bt, t) == {x \in Claims : x[2] \in bt[x[1]] /\ RowOf(x[2]) = t /\ x[2].attempts < MaxAttempts}

\* A row that can be claimed, now or once its lease is reclaimed.
Unclaimed(tk, bt, t) ==
  \/ tk[t].status = "pending"
  \/ tk[t].status = "running" /\ \A c \in bt[tk[t].lockedBy] : RowOf(c) # t

Claimable(tk, bt, t) == IF Unclaimed(tk, bt, t) THEN 1 ELSE 0

\* Task t's attempts, made and to come, exceed the limit by at most n.
Paid(tk, bt, t, n) ==
  /\ IsFiniteSet(Retriers(bt, t))
  /\ Claimable(tk, bt, t) + Cardinality(Retriers(bt, t)) <= 1 + n
  /\ tk[t].attempts + Claimable(tk, bt, t) + Cardinality(Retriers(bt, t)) <= MaxAttempts + n

\* A worker has at most one claim of a task.
ClaimsDiffer(bt) == \A w \in Workers : \A b, c \in bt[w] : RowOf(b) = RowOf(c) => b = c

\* A row is running under a worker, never under nobody.
Leaseholders(tk) == \A t \in Tasks : tk[t].status = "running" => tk[t].lockedBy \in Workers

RetryInv ==
  /\ ClaimsDiffer(batch) /\ Leaseholders(task)
  /\ \A d \in Docs : NeverReprocessed(d) => Chances(task, batch, d, 1 + overruns)
  /\ \A t \in Tasks : NeverReprocessed(t[1]) => Paid(task, batch, t, crashes + overruns)

\* Counting: what a subset, one element more and one element less amount to.
LEMMA CardSub ==
  ASSUME NEW S, IsFiniteSet(S), NEW T, T \subseteq S
  PROVE  IsFiniteSet(T) /\ Cardinality(T) \in Nat /\ Cardinality(S) \in Nat /\ Cardinality(T) <= Cardinality(S)
BY FS_Subset, FS_CardinalityType

LEMMA CardMore ==
  ASSUME NEW S, IsFiniteSet(S), NEW T, NEW y, T \subseteq S \cup {y}
  PROVE  IsFiniteSet(T) /\ Cardinality(T) \in Nat /\ Cardinality(S) \in Nat /\ Cardinality(T) <= Cardinality(S) + 1
<1>1. IsFiniteSet(S \cup {y}) /\ Cardinality(S \cup {y}) \in {Cardinality(S), Cardinality(S) + 1}
  BY FS_AddElement
<1>2. Cardinality(S) \in Nat
  BY FS_CardinalityType
<1> QED
  BY <1>1, <1>2, CardSub

LEMMA CardLess ==
  ASSUME NEW S, IsFiniteSet(S), NEW T, NEW x \in S, T \subseteq S \ {x}
  PROVE  IsFiniteSet(T) /\ Cardinality(T) \in Nat /\ Cardinality(S) \in Nat /\ Cardinality(T) <= Cardinality(S) - 1
<1>1. IsFiniteSet(S \ {x}) /\ Cardinality(S \ {x}) = Cardinality(S) - 1
  BY FS_RemoveElement
<1>2. Cardinality(S) \in Nat
  BY FS_CardinalityType
<1> QED
  BY <1>1, <1>2, CardSub

\* Only the holder of a row's lease can become a zombie when the row changes.
LEMMA OneHolder ==
  ASSUME NEW tk \in [Tasks -> TaskRow], NEW bt \in [Workers -> SUBSET ClaimedTask], ClaimsDiffer(bt),
         NEW r \in Tasks, NEW x \in Claims, NEW y \in Claims,
         x[2] \in bt[x[1]], y[2] \in bt[y[1]], RowOf(x[2]) = r, RowOf(y[2]) = r, Holds(tk, x), Holds(tk, y)
  PROVE  x = y
<1>1. x[1] \in Workers /\ x[1] = y[1]
  BY DEF Holds, Claims
<1>2. x[2] = y[2]
  BY <1>1 DEF ClaimsDiffer
<1> QED
  BY <1>1, <1>2 DEF Claims

\* The parties of one document after one of its rows has been given up: a
\* holder turns zombie, and what it held is a chance no more, unless the row
\* is queued again.
LEMMA RowGivenUp ==
  ASSUME NEW tk \in [Tasks -> TaskRow], NEW bt \in [Workers -> SUBSET ClaimedTask], ClaimsDiffer(bt),
         NEW r \in Tasks, NEW row \in TaskRow, row.status # "running",
         NEW d \in Docs, NEW n \in Int, Chances(tk, bt, d, n),
         NEW tk2, tk2 = [tk EXCEPT ![r] = row]
  PROVE  /\ tk2 \in [Tasks -> TaskRow]
         /\ r[1] # d => Chances(tk2, bt, d, n)
         /\ row.status # "pending" => Chances(tk2, bt, d, n)
         /\ Chances(tk2, bt, d, n + 1)
         /\ r \in LiveRows(tk, d) /\ (\A x \in Claims : x[2] \in bt[x[1]] /\ RowOf(x[2]) = r => ~Holds(tk, x)) =>
              /\ Chances(tk2, bt, d, n)
              /\ row.status # "pending" => Chances(tk2, bt, d, n - 1)
<1> DEFINE L == LiveRows(tk, d)  Z == Zombies(tk, bt, d)  L2 == LiveRows(tk2, d)  Z2 == Zombies(tk2, bt, d)
<1>1. tk2 \in [Tasks -> TaskRow] /\ tk2[r] = row /\ \A t \in Tasks : t # r => tk2[t] = tk[t]
  OBVIOUS
<1>2. \A x \in Claims : x[2] \in ClaimedTask /\ RowOf(x[2]) \in Tasks /\ x[2].doc = RowOf(x[2])[1]
  BY RowOfType DEF Claims, RowOf
<1>3. IsFiniteSet(L) /\ IsFiniteSet(Z) /\ Cardinality(L) + Cardinality(Z) <= n
  BY DEF Chances
<1>4. Cardinality(L) \in Nat /\ Cardinality(Z) \in Nat
  BY <1>3, FS_CardinalityType
<1> DEFINE Within(m) == IsFiniteSet(L2) /\ IsFiniteSet(Z2) /\ Cardinality(L2) + Cardinality(Z2) <= m
<1>5. \A m : Chances(tk2, bt, d, m) <=> Within(m)
  BY DEF Chances
<1>6. \A x \in Z2 : x \in Claims /\ x[2] \in bt[x[1]] /\ x[2].doc = d /\ (x \notin Z => RowOf(x[2]) = r /\ Holds(tk, x))
  BY <1>1, <1>2 DEF Zombies, Holds
<1>7. /\ L2 \subseteq L \cup {r}
      /\ row.status # "pending" => L2 \subseteq L \ {r}
      /\ r[1] # d => L2 \subseteq L
      /\ r \in L => L2 \subseteq L
  BY <1>1 DEF LiveRows, TaskRow
<1> HIDE DEF L, Z, L2, Z2
<1>8. CASE \E y \in Claims : y[2] \in bt[y[1]] /\ RowOf(y[2]) = r /\ Holds(tk, y)
  <2>1. PICK y \in Claims : y[2] \in bt[y[1]] /\ RowOf(y[2]) = r /\ Holds(tk, y)
    BY <1>8
  <2>2. Z2 \subseteq Z \cup {y}
    BY <1>6, <2>1, OneHolder
  <2>3. IsFiniteSet(Z2) /\ Cardinality(Z2) \in Nat /\ Cardinality(Z2) <= Cardinality(Z) + 1
    BY <1>3, <2>2, CardMore
  <2>4. r[1] # d => Z2 \subseteq Z
    BY <1>2, <1>6, <2>1
  <2>5. r[1] = d => r \in L
    BY <2>1 DEF L, LiveRows, Holds
  <2>6. CASE r[1] # d
    <3>1. IsFiniteSet(Z2) /\ IsFiniteSet(L2) /\ Cardinality(Z2) <= Cardinality(Z) /\ Cardinality(L2) <= Cardinality(L)
      BY <1>3, <1>7, <2>4, <2>6, CardSub
    <3>2. Cardinality(Z2) \in Nat /\ Cardinality(L2) \in Nat
      BY <3>1, FS_CardinalityType
    <3>3. Within(n) /\ Within(n + 1)
      BY <1>3, <1>4, <3>1, <3>2
    <3>4. r \notin L
      BY <2>6 DEF L, LiveRows
    <3> QED
      BY <1>1, <1>5, <2>6, <3>3, <3>4 DEF L
  <2>7. CASE r[1] = d
    <3>1. IsFiniteSet(L2) /\ Cardinality(L2) \in Nat /\ Cardinality(L2) <= Cardinality(L)
      BY <1>3, <1>7, <2>5, <2>7, CardSub
    <3>2. ASSUME row.status # "pending" PROVE Cardinality(L2) <= Cardinality(L) - 1
      BY <1>3, <1>7, <2>5, <2>7, <3>2, CardLess
    <3>3. Within(n + 1) /\ (row.status # "pending" => Within(n))
      BY <1>3, <1>4, <2>3, <3>1, <3>2
    <3> QED
      BY <1>1, <1>5, <2>1, <2>7, <3>3
  <2> QED
    BY <2>6, <2>7
<1>9. CASE ~\E y \in Claims : y[2] \in bt[y[1]] /\ RowOf(y[2]) = r /\ Holds(tk, y)
  <2>1. Z2 \subseteq Z
    BY <1>6, <1>9
  <2>2. IsFiniteSet(Z2) /\ Cardinality(Z2) \in Nat /\ Cardinality(Z2) <= Cardinality(Z)
    BY <1>3, <2>1, CardSub
  <2>3. IsFiniteSet(L2) /\ Cardinality(L2) \in Nat /\ Cardinality(L2) <= Cardinality(L) + 1
    BY <1>3, <1>7, CardMore
  <2>4. row.status # "pending" \/ r[1] # d \/ r \in L => Cardinality(L2) <= Cardinality(L)
    <3>1. row.status # "pending" \/ r[1] # d \/ r \in L => L2 \subseteq L
      BY <1>7
    <3> QED
      BY <1>3, <3>1, CardSub
  <2>5. ASSUME row.status # "pending", r \in L PROVE Cardinality(L2) <= Cardinality(L) - 1
    BY <1>3, <1>7, <2>5, CardLess
  <2>6. Within(n + 1) /\ (row.status # "pending" \/ r[1] # d \/ r \in L => Within(n))
    BY <1>3, <1>4, <2>2, <2>3, <2>4
  <2>7. row.status # "pending" /\ r \in L => Within(n - 1)
    BY <1>3, <1>4, <2>2, <2>3, <2>5
  <2> HIDE DEF Within
  <2> QED
    BY <1>1, <1>5, <2>6, <2>7 DEF L
<1> QED
  BY <1>8, <1>9

\* A worker finishes a claim: either it held the row, which is then a chance
\* less, or it was a zombie itself.
LEMMA ClaimFinished ==
  ASSUME NEW tk \in [Tasks -> TaskRow], NEW bt \in [Workers -> SUBSET ClaimedTask], ClaimsDiffer(bt),
         NEW w \in Workers, NEW c \in bt[w], NEW row \in TaskRow, row.status # "running",
         NEW d \in Docs, NEW n \in Int, Chances(tk, bt, d, n),
         NEW tk2, tk2 = [tk EXCEPT ![RowOf(c)] = row],
         NEW bt2, bt2 = [bt EXCEPT ![w] = @ \ {c}]
  PROVE  /\ tk2 \in [Tasks -> TaskRow] /\ bt2 \in [Workers -> SUBSET ClaimedTask] /\ ClaimsDiffer(bt2)
         /\ Chances(tk2, bt2, d, n)
         /\ c.doc = d /\ row.status # "pending" => Chances(tk2, bt2, d, n - 1)
<1> DEFINE r == RowOf(c)  x == <<w, c>>  Z == Zombies(tk, bt, d)  Z2 == Zombies(tk, bt2, d)
<1>1. c \in ClaimedTask /\ r \in Tasks /\ r[1] = c.doc /\ x \in Claims
  BY RowOfType DEF RowOf, Claims
<1>2. /\ bt2 \in [Workers -> SUBSET ClaimedTask] /\ ClaimsDiffer(bt2)
      /\ \A v \in Workers : bt2[v] \subseteq bt[v]
      /\ c \notin bt2[w]
  BY DEF ClaimsDiffer
<1>3. IsFiniteSet(LiveRows(tk, d)) /\ IsFiniteSet(Z) /\ Cardinality(LiveRows(tk, d)) + Cardinality(Z) <= n
  BY DEF Chances
<1>4. Cardinality(LiveRows(tk, d)) \in Nat
  BY <1>3, FS_CardinalityType
<1>5. Z2 \subseteq Z /\ x \notin Z2
  <2>1. Z2 \subseteq Z
    BY <1>2 DEF Zombies, Claims
  <2>2. x \notin Z2
    BY <1>2 DEF Zombies
  <2> QED
    BY <2>1, <2>2
<1>6. IsFiniteSet(Z2) /\ Cardinality(Z2) \in Nat /\ Cardinality(Z2) <= Cardinality(Z) /\ Cardinality(Z) \in Nat
  <2> HIDE DEF Z, Z2
  <2> QED
    BY <1>3, <1>5, CardSub
<1>7. Chances(tk, bt2, d, n)
  BY <1>3, <1>4, <1>6 DEF Chances
<1>8. CASE c.doc # d
  BY <1>1, <1>2, <1>7, <1>8, RowGivenUp
<1>9. CASE c.doc = d /\ ~Holds(tk, x)
  <2>1. x \in Z
    BY <1>1, <1>9 DEF Zombies
  <2>2. Cardinality(Z2) <= Cardinality(Z) - 1
    <3>1. Z2 \subseteq Z \ {x}
      BY <1>5
    <3> HIDE DEF x, Z, Z2
    <3> QED
      BY <1>3, <2>1, <3>1, CardLess
  <2>3. n - 1 \in Int /\ (n - 1) + 1 = n
    OBVIOUS
  <2>4. Chances(tk, bt2, d, n - 1)
    BY <1>3, <1>4, <1>6, <2>2 DEF Chances
  <2>5. Chances(tk2, bt2, d, (n - 1) + 1) /\ (row.status # "pending" => Chances(tk2, bt2, d, n - 1))
                /\ tk2 \in [Tasks -> TaskRow]
    BY <1>1, <1>2, <2>3, <2>4, RowGivenUp
  <2> QED
    BY <1>2, <2>3, <2>5
<1>10. CASE c.doc = d /\ Holds(tk, x)
  <2>1. r \in LiveRows(tk, d)
    BY <1>1, <1>10 DEF Holds, LiveRows
  <2>2. ASSUME NEW y \in Claims, y[2] \in bt2[y[1]], RowOf(y[2]) = r, Holds(tk, y)
        PROVE  FALSE
    <3>1. y[1] \in Workers /\ y[1] = w
      BY <1>10, <2>2 DEF Holds, Claims
    <3>2. y[2] = c
      BY <1>2, <2>2, <3>1 DEF ClaimsDiffer
    <3> QED
      BY <1>2, <2>2, <3>1, <3>2
  <2> HIDE DEF r
  <2>3. /\ Chances(tk2, bt2, d, n) /\ tk2 \in [Tasks -> TaskRow]
        /\ row.status # "pending" => Chances(tk2, bt2, d, n - 1)
    BY <1>1, <1>2, <1>7, <2>1, <2>2, RowGivenUp DEF r
  <2> QED
    BY <1>2, <2>3
<1> QED
  BY <1>8, <1>9, <1>10

LEMMA ClaimEnds ==
  ASSUME NEW tk \in [Tasks -> TaskRow], NEW bt \in [Workers -> SUBSET ClaimedTask], ClaimsDiffer(bt),
         NEW w \in Workers, NEW c \in bt[w], NEW row \in TaskRow, row.status \notin {"running", "pending"},
         NEW n \in Int, Chances(tk, bt, c.doc, n + 1),
         NEW tk2, tk2 = [tk EXCEPT ![RowOf(c)] = row],
         NEW bt2, bt2 = [bt EXCEPT ![w] = @ \ {c}]
  PROVE  Chances(tk2, bt2, c.doc, n)
<1> DEFINE m == n + 1  d == c.doc
<1>1. m \in Int /\ m - 1 = n /\ d \in Docs /\ Chances(tk, bt, d, m)
  BY RowOfType
<1>2. c.doc = d
  OBVIOUS
<1> HIDE DEF m, d
<1>3. tk \in [Tasks -> TaskRow] /\ row.status # "running" /\ row.status # "pending"
  OBVIOUS
<1>4. Chances(tk2, bt2, d, m - 1)
  BY <1>1, <1>2, <1>3, ClaimFinished
<1> QED
  BY <1>1, <1>2, <1>4

\* A task's count stands while neither its row nor its claims change.
LEMMA PaidElsewhere ==
  ASSUME NEW tk \in [Tasks -> TaskRow], NEW bt \in [Workers -> SUBSET ClaimedTask], Leaseholders(tk),
         NEW tk2, NEW bt2 \in [Workers -> SUBSET ClaimedTask], NEW t \in Tasks, tk2[t] = tk[t],
         \A v \in Workers : \A b \in ClaimedTask : RowOf(b) = t => (b \in bt2[v] <=> b \in bt[v]),
         NEW n \in Int, NEW m \in Int, n <= m, Paid(tk, bt, t, n)
  PROVE  Paid(tk2, bt2, t, m)
<1>1. Retriers(bt2, t) = Retriers(bt, t)
  BY DEF Retriers, Claims
<1>2. Unclaimed(tk2, bt2, t) <=> Unclaimed(tk, bt, t)
  BY DEF Unclaimed, Leaseholders
<1>3. Claimable(tk2, bt2, t) = Claimable(tk, bt, t) /\ Claimable(tk, bt, t) \in Int
  BY <1>2 DEF Claimable
<1>4. tk[t].attempts \in Nat /\ MaxAttempts \in Int
  BY PipelineAssumption DEF TaskRow
<1>5. IsFiniteSet(Retriers(bt, t)) /\ Cardinality(Retriers(bt, t)) \in Nat
  BY FS_CardinalityType DEF Paid
<1> QED
  BY <1>1, <1>3, <1>4, <1>5 DEF Paid

\* A task whose row is given up by a worker that finishes its claim: it may
\* be claimed again only in place of the claim that could be retried.
LEMMA PaidFinished ==
  ASSUME NEW tk \in [Tasks -> TaskRow], NEW bt \in [Workers -> SUBSET ClaimedTask],
         NEW w \in Workers, NEW c \in bt[w], NEW row \in TaskRow, row.status # "running",
         row.attempts = tk[RowOf(c)].attempts, row.status = "pending" => c.attempts < MaxAttempts,
         NEW n \in Int, Paid(tk, bt, RowOf(c), n),
         NEW tk2, tk2 = [tk EXCEPT ![RowOf(c)] = row],
         NEW bt2, bt2 = [bt EXCEPT ![w] = @ \ {c}]
  PROVE  Paid(tk2, bt2, RowOf(c), n)
<1> DEFINE t == RowOf(c)  x == <<w, c>>  R == Retriers(bt, t)  R2 == Retriers(bt2, t)
<1>1. t \in Tasks /\ x \in Claims /\ tk2[t] = row
  BY RowOfType DEF Claims
<1>2. R2 \subseteq R /\ x \notin R2
  <2>1. R2 \subseteq R
    BY DEF Retriers, Claims
  <2>2. x \notin R2
    BY DEF Retriers
  <2> QED
    BY <2>1, <2>2
<1>3. /\ IsFiniteSet(R) /\ Claimable(tk, bt, t) + Cardinality(R) <= 1 + n
      /\ tk[t].attempts + Claimable(tk, bt, t) + Cardinality(R) <= MaxAttempts + n
  BY DEF Paid
<1>4. IsFiniteSet(R2) /\ Cardinality(R2) \in Nat /\ Cardinality(R2) <= Cardinality(R) /\ Cardinality(R) \in Nat
  <2> HIDE DEF R, R2
  <2> QED
    BY <1>2, <1>3, CardSub
<1>5. row.attempts \in Nat /\ tk[t].attempts \in Nat /\ MaxAttempts \in Int
  BY <1>1, PipelineAssumption DEF TaskRow
<1>6. Claimable(tk, bt, t) \in {0, 1}
  BY DEF Claimable
<1>7. CASE row.status = "pending"
  <2>1. x \in R
    BY <1>1, <1>7 DEF Retriers
  <2>2. Cardinality(R2) <= Cardinality(R) - 1
    <3>1. R2 \subseteq R \ {x}
      BY <1>2
    <3> HIDE DEF x, R, R2
    <3> QED
      BY <1>3, <2>1, <3>1, CardLess
  <2>3. Claimable(tk2, bt2, t) = 1
    BY <1>1, <1>7 DEF Claimable, Unclaimed
  <2> QED
    BY <1>1, <1>3, <1>4, <1>5, <1>6, <2>2, <2>3 DEF Paid
<1>8. CASE row.status # "pending"
  <2>1. Claimable(tk2, bt2, t) = 0
    BY <1>1, <1>8 DEF Claimable, Unclaimed
  <2> QED
    BY <1>1, <1>3, <1>4, <1>5, <1>6, <2>1 DEF Paid
<1> QED
  BY <1>7, <1>8

\* A stage that is started afresh owes nothing: its claims are zombies, and
\* the document's chances bound their number.
LEMMA PaidAfresh ==
  ASSUME NEW tk \in [Tasks -> TaskRow], NEW bt \in [Workers -> SUBSET ClaimedTask],
         NEW t \in Tasks, tk[t] = Enqueued, NEW n \in Nat, NEW m \in Nat, n <= m,
         Chances(tk, bt, t[1], 1 + n)
  PROVE  Paid(tk, bt, t, m)
<1> DEFINE L == LiveRows(tk, t[1])  Z == Zombies(tk, bt, t[1])  R == Retriers(bt, t)
<1>1. tk[t].status = "pending" /\ tk[t].attempts = 0
  BY EnqueuedType
<1>2. IsFiniteSet(L) /\ IsFiniteSet(Z) /\ Cardinality(L) + Cardinality(Z) <= 1 + n
  BY DEF Chances
<1>3. t \in L
  BY <1>1 DEF LiveRows
<1>4. R \subseteq Z
  BY <1>1, RowOfType DEF Retriers, Zombies, Holds, RowOf, Claims
<1>5. Cardinality(L) \in Nat /\ Cardinality(L) # 0
  <2> HIDE DEF L
  <2> QED
    BY <1>2, <1>3, FS_CardinalityType, FS_EmptySet
<1>6. IsFiniteSet(R) /\ Cardinality(R) \in Nat /\ Cardinality(R) <= Cardinality(Z) /\ Cardinality(Z) \in Nat
  <2> HIDE DEF R, Z
  <2> QED
    BY <1>2, <1>4, CardSub
<1>7. Claimable(tk, bt, t) = 1
  BY <1>1 DEF Claimable, Unclaimed
<1>8. MaxAttempts \in Nat /\ MaxAttempts >= 1
  BY PipelineAssumption
<1> QED
  BY <1>1, <1>2, <1>5, <1>6, <1>7, <1>8 DEF Paid

\* What Finish and a released row leave of the invariant's first two parts.
LEMMA FinishClaims ==
  ASSUME TypeOK, NEW w \in Workers, phase[w] # "idle", Finish(w)
  PROVE  /\ claim[w] \in batch[w] /\ claim[w] \in ClaimedTask /\ RowOf(claim[w]) \in Tasks
         /\ batch' = [batch EXCEPT ![w] = @ \ {claim[w]}]
BY RowOfType DEF TypeOK, Finish

\* A worker finishes its claim and gives the row up, for good or for a retry.
LEMMA ReleaseRetries ==
  ASSUME TypeOK, TypeOK', RetryInv, NEW w \in Workers, phase[w] # "idle", Finish(w),
         NEW st \in {"pending", "succeeded", "dead"}, st = "pending" => MayRetry(claim[w]),
         task' = [task EXCEPT ![RowOf(claim[w])] = Released(task[RowOf(claim[w])], st)],
         UNCHANGED <<crashes, overruns>>,
         \A d \in Docs : NeverReprocessed(d)' => NeverReprocessed(d)
  PROVE  RetryInv'
<1> DEFINE c == claim[w]  r == RowOf(c)  row == Released(task[r], st)
           n == 1 + overruns  k == crashes + overruns
<1>1. /\ c \in batch[w] /\ c \in ClaimedTask /\ r \in Tasks /\ c \in batch[w]
      /\ batch' = [batch EXCEPT ![w] = @ \ {c}]
      /\ task' = [task EXCEPT ![r] = row]
  BY FinishClaims
<1>2. row \in TaskRow /\ row.status = st /\ row.attempts = task[r].attempts
  BY <1>1, ReleasedType DEF TypeOK, TaskStatus
<1>3. /\ task \in [Tasks -> TaskRow] /\ batch \in [Workers -> SUBSET ClaimedTask]
      /\ crashes \in Nat /\ overruns \in Nat
      /\ ClaimsDiffer(batch) /\ Leaseholders(task)
      /\ n \in Int /\ overruns \in Int /\ overruns + 1 = n
      /\ k \in Int /\ k \in Nat /\ k <= k /\ overruns <= k
      /\ \A d \in Docs : NeverReprocessed(d) => Chances(task, batch, d, n)
      /\ \A t \in Tasks : NeverReprocessed(t[1]) => Paid(task, batch, t, k)
  BY DEF TypeOK, RetryInv
<1> HIDE DEF c, r, row, n, k
<1>4. /\ ClaimsDiffer(batch') /\ batch' \in [Workers -> SUBSET ClaimedTask]
      /\ \A d \in Docs : NeverReprocessed(d) => Chances(task', batch', d, n)
  <2>1. ClaimsDiffer(batch') /\ batch' \in [Workers -> SUBSET ClaimedTask]
    BY <1>1, <1>3 DEF ClaimsDiffer
  <2>2. ASSUME NEW d \in Docs, NeverReprocessed(d)
        PROVE  Chances(task', batch', d, n)
    <3>1. Chances(task, batch, d, n) /\ row.status # "running"
      BY <1>2, <1>3, <2>2
    <3>2. task' = [task EXCEPT ![RowOf(c)] = row]
      BY <1>1 DEF r
    <3> QED
      <4>1. /\ task \in [Tasks -> TaskRow] /\ batch \in [Workers -> SUBSET ClaimedTask] /\ ClaimsDiffer(batch)
            /\ c \in batch[w] /\ row \in TaskRow /\ row.status # "running" /\ n \in Int /\ Chances(task, batch, d, n)
            /\ task' = [task EXCEPT ![RowOf(c)] = row] /\ batch' = [batch EXCEPT ![w] = batch[w] \ {c}]
        BY <1>1, <1>2, <1>3, <3>1, <3>2
      <4> QED
        BY ONLY <4>1, ClaimFinished, w \in Workers, d \in Docs
  <2> QED
    BY <2>1, <2>2
<1>5. ASSUME NEW t \in Tasks, NeverReprocessed(t[1])
      PROVE  Paid(task', batch', t, k)
  <2>1. Paid(task, batch, t, k)
    BY <1>3, <1>5
  <2>2. CASE t = r
    <3>1. row.status # "running" /\ (row.status = "pending" => c.attempts < MaxAttempts)
      BY <1>2 DEF MayRetry, c
    <3> QED
      BY <1>1, <1>2, <1>3, <2>1, <2>2, <3>1, PaidFinished DEF r
  <2>3. CASE t # r
    <3>1. task'[t] = task[t]
      BY <1>1, <1>3, <2>3
    <3>2. \A v \in Workers : \A b \in ClaimedTask : RowOf(b) = t => (b \in batch'[v] <=> b \in batch[v])
      BY <1>1, <1>3, <2>3 DEF r
    <3> QED
      BY <1>3, <1>4, <2>1, <3>1, <3>2, PaidElsewhere
  <2> QED
    BY <2>2, <2>3
<1>6. Leaseholders(task')
  BY <1>1, <1>2, <1>3 DEF Leaseholders
<1> QED
  BY <1>4, <1>5, <1>6 DEF RetryInv, Tasks, n, k

\* A worker finishes its claim and starts the next stage afresh.
LEMMA ChainRetries ==
  ASSUME TypeOK, TypeOK', RetryInv, NEW w \in Workers, phase[w] # "idle", Finish(w),
         NEW next \in ProcessingStage, next # claim[w].stage, ChainTo(w, next),
         UNCHANGED <<crashes, overruns>>
  PROVE  RetryInv'
<1> DEFINE c == claim[w]  r == RowOf(c)  row == Released(task[r], "succeeded")  q == <<c.doc, next>>
           tk == [task EXCEPT ![r] = row]
           n == 1 + overruns  k == crashes + overruns
<1>1. /\ c \in batch[w] /\ c \in ClaimedTask /\ r \in Tasks /\ c \in batch[w]
      /\ batch' = [batch EXCEPT ![w] = @ \ {c}]
  BY FinishClaims
<1>2. row \in TaskRow /\ row.status = "succeeded" /\ row.attempts = task[r].attempts
  BY <1>1, ReleasedType DEF TypeOK, TaskStatus
<1>3. /\ task \in [Tasks -> TaskRow] /\ batch \in [Workers -> SUBSET ClaimedTask]
      /\ batch' \in [Workers -> SUBSET ClaimedTask]
      /\ crashes \in Nat /\ overruns \in Nat
      /\ ClaimsDiffer(batch) /\ Leaseholders(task)
      /\ n \in Int /\ overruns \in Int /\ overruns + 1 = n
      /\ k \in Int /\ k \in Nat /\ k <= k /\ overruns <= k
      /\ \A d \in Docs : NeverReprocessed(d) => Chances(task, batch, d, n)
      /\ \A t \in Tasks : NeverReprocessed(t[1]) => Paid(task, batch, t, k)
  BY DEF TypeOK, RetryInv
<1>4. q \in Tasks /\ q # r /\ q[1] = c.doc /\ r[1] = c.doc /\ c.doc \in Docs
  BY <1>1, RowOfType DEF Tasks, RowOf
<1>5. task' = [tk EXCEPT ![q] = Enqueued] /\ audit' = audit
  BY DEF ChainTo
<1>6. Enqueued \in TaskRow /\ Enqueued.status = "pending"
  BY <1>4, EnqueuedType
<1>7. tk \in [Tasks -> TaskRow] /\ tk[r] = row /\ \A t \in Tasks : t # r => tk[t] = task[t]
  BY <1>1, <1>2, <1>3
<1>8. Leaseholders(tk)
  BY <1>2, <1>3, <1>7 DEF Leaseholders
<1>9. tk = [task EXCEPT ![r] = row]
  OBVIOUS
<1> HIDE DEF c, r, row, q, tk, n, k
<1>10. task'[q] = Enqueued /\ \A t \in Tasks : t # q => task'[t] = tk[t]
  BY <1>4, <1>5, <1>7
<1>11. ClaimsDiffer(batch')
  BY <1>1, <1>3 DEF ClaimsDiffer
<1>12. ASSUME NEW d \in Docs, NeverReprocessed(d)
       PROVE  Chances(task', batch', d, n)
  <2>1. Chances(task, batch, d, n) /\ row.status # "running" /\ row.status # "pending"
    BY <1>2, <1>3, <1>12
  <2>2. /\ Chances(tk, batch', d, n)
        /\ c.doc = d => Chances(tk, batch', d, overruns)
    <3>1. tk = [task EXCEPT ![RowOf(c)] = row]
      BY <1>9 DEF r
    <3>2. /\ task \in [Tasks -> TaskRow] /\ batch \in [Workers -> SUBSET ClaimedTask] /\ ClaimsDiffer(batch)
          /\ c \in batch[w] /\ row \in TaskRow /\ row.status # "running" /\ n \in Int /\ Chances(task, batch, d, n)
          /\ tk = [task EXCEPT ![RowOf(c)] = row] /\ batch' = [batch EXCEPT ![w] = batch[w] \ {c}]
      BY <1>1, <1>2, <1>3, <2>1, <3>1
    <3>3. Chances(tk, batch', d, n)
      BY ONLY <3>2, ClaimFinished, w \in Workers, d \in Docs
    <3>4. ASSUME c.doc = d
          PROVE  Chances(tk, batch', d, overruns)
      <4>1. overruns \in Int /\ overruns + 1 = n
        BY <1>3
      <4> QED
        BY ONLY <2>1, <3>2, <3>4, <4>1, ClaimEnds, w \in Workers, d \in Docs
    <3> QED
      BY <3>3, <3>4
  <2>3. CASE c.doc # d
    BY <1>3, <1>4, <1>5, <1>6, <1>7, <1>11, <2>1, <2>2, <2>3, RowGivenUp
  <2>4. CASE c.doc = d
    <3>1. Chances(tk, batch', d, overruns)
      BY <2>2, <2>4
    <3>2. Chances(task', batch', d, overruns + 1)
      BY <1>3, <1>4, <1>5, <1>6, <1>7, <1>11, <2>1, <3>1, RowGivenUp
    <3> QED
      BY <1>3, <3>2
  <2> QED
    BY <2>3, <2>4
<1>13. ASSUME NEW t \in Tasks, NeverReprocessed(t[1])
       PROVE  Paid(task', batch', t, k)
  <2>1. Paid(task, batch, t, k)
    BY <1>3, <1>13
  <2>2. CASE t = q
    <3>1. Chances(task', batch', t[1], 1 + overruns)
      BY <1>4, <1>12, <1>13, <2>2 DEF n
    <3>2. task' \in [Tasks -> TaskRow] /\ task'[t] = Enqueued
      BY <1>10, <2>2 DEF TypeOK
    <3> QED
      BY <1>3, <2>1, <3>1, <3>2, PaidAfresh
  <2>3. CASE t = r
    <3>1. row.status # "running" /\ row.status # "pending"
      BY <1>2
    <3>2. Paid(tk, batch', t, k)
      BY <1>1, <1>2, <1>3, <1>9, <2>1, <2>3, <3>1, PaidFinished DEF r
    <3>3. task'[t] = tk[t]
      BY <1>4, <1>10, <2>3
    <3> QED
      BY <1>3, <1>7, <1>8, <2>1, <3>2, <3>3, PaidElsewhere
  <2>4. CASE t # r /\ t # q
    <3>1. task'[t] = task[t]
      BY <1>7, <1>10, <2>4
    <3>2. \A v \in Workers : \A b \in ClaimedTask : RowOf(b) = t => (b \in batch'[v] <=> b \in batch[v])
      BY <1>1, <1>3, <2>4 DEF r
    <3> QED
      BY <1>3, <2>1, <3>1, <3>2, PaidElsewhere
  <2> QED
    BY <2>2, <2>3, <2>4
<1>14. Leaseholders(task')
  BY <1>6, <1>8, <1>10 DEF Leaseholders
<1> QED
  BY <1>5, <1>11, <1>12, <1>13, <1>14 DEF RetryInv, Tasks, NeverReprocessed, n, k

LEMMA ChancesKept ==
  ASSUME NEW tk, NEW bt, NEW d, NEW n \in Int, Chances(tk, bt, d, n),
         NEW tk2, NEW bt2, LiveRows(tk2, d) \subseteq LiveRows(tk, d), Zombies(tk2, bt2, d) \subseteq Zombies(tk, bt, d),
         NEW m \in Int, n <= m
  PROVE  Chances(tk2, bt2, d, m)
<1>1. /\ IsFiniteSet(LiveRows(tk, d)) /\ IsFiniteSet(Zombies(tk, bt, d))
      /\ Cardinality(LiveRows(tk, d)) + Cardinality(Zombies(tk, bt, d)) <= n
  BY DEF Chances
<1>2. /\ IsFiniteSet(LiveRows(tk2, d)) /\ Cardinality(LiveRows(tk2, d)) <= Cardinality(LiveRows(tk, d))
      /\ Cardinality(LiveRows(tk2, d)) \in Nat /\ Cardinality(LiveRows(tk, d)) \in Nat
  BY <1>1, CardSub
<1>3. /\ IsFiniteSet(Zombies(tk2, bt2, d)) /\ Cardinality(Zombies(tk2, bt2, d)) <= Cardinality(Zombies(tk, bt, d))
      /\ Cardinality(Zombies(tk2, bt2, d)) \in Nat /\ Cardinality(Zombies(tk, bt, d)) \in Nat
  BY <1>1, CardSub
<1> QED
  BY <1>1, <1>2, <1>3 DEF Chances

\* A claim takes up queued rows.  It may be the last retry of a task, never
\* one more.
LEMMA ClaimRetries ==
  ASSUME TypeOK, TypeOK', RetryInv, NEW w \in Workers, NEW due \in SUBSET Tasks, due \subseteq Pending, Claim(w, due)
  PROVE  RetryInv'
<1> DEFINE n == 1 + overruns  k == crashes + overruns
<1>1. /\ task \in [Tasks -> TaskRow] /\ batch \in [Workers -> SUBSET ClaimedTask]
      /\ task' \in [Tasks -> TaskRow] /\ batch' \in [Workers -> SUBSET ClaimedTask]
      /\ n \in Int /\ n <= n /\ k \in Int /\ k <= k
      /\ ClaimsDiffer(batch) /\ Leaseholders(task)
      /\ \A d \in Docs : NeverReprocessed(d) => Chances(task, batch, d, n)
      /\ \A t \in Tasks : NeverReprocessed(t[1]) => Paid(task, batch, t, k)
  BY DEF TypeOK, RetryInv
<1>2. UNCHANGED <<audit, crashes, overruns>> /\ batch[w] = {}
  BY DEF Claim, Free, docVars, budgets
<1>3. /\ batch'[w] = {[doc |-> t[1], stage |-> t[2], attempts |-> task[t].attempts + 1] : t \in due}
      /\ \A v \in Workers : v # w => batch'[v] = batch[v]
  BY DEF Claim, TypeOK
<1>4. \A t \in due : task[t].status = "pending" /\ task[t] \in TaskRow
  BY DEF Pending, TypeOK
<1>5. /\ \A t \in Tasks \ due : task'[t] = task[t]
      /\ \A t \in due : /\ task'[t].status = "running" /\ task'[t].lockedBy = w
                        /\ task'[t].attempts = task[t].attempts + 1
  BY <1>4, ClaimedType DEF Claim
<1> HIDE DEF n, k
<1>6. \A b \in batch'[w] : \E t \in due : /\ b = [doc |-> t[1], stage |-> t[2], attempts |-> task[t].attempts + 1]
                                          /\ RowOf(b) = t /\ b.attempts = task[t].attempts + 1
  <2> SUFFICES ASSUME NEW b \in batch'[w]
               PROVE  \E t \in due : /\ b = [doc |-> t[1], stage |-> t[2], attempts |-> task[t].attempts + 1]
                                     /\ RowOf(b) = t /\ b.attempts = task[t].attempts + 1
    OBVIOUS
  <2>1. PICK t \in due : b = [doc |-> t[1], stage |-> t[2], attempts |-> task[t].attempts + 1]
    BY <1>3
  <2>2. RowOf(b) = t /\ b.attempts = task[t].attempts + 1
    BY <2>1 DEF RowOf, Tasks
  <2> QED
    BY <2>1, <2>2
<1>7. ClaimsDiffer(batch')
  <2> SUFFICES ASSUME NEW v \in Workers, NEW b \in batch'[v], NEW c \in batch'[v], RowOf(b) = RowOf(c)
               PROVE  b = c
    BY DEF ClaimsDiffer
  <2>1. CASE v = w
    BY <1>6, <2>1
  <2>2. CASE v # w
    BY <1>1, <1>3, <2>2 DEF ClaimsDiffer
  <2> QED
    BY <2>1, <2>2
<1>8. Leaseholders(task')
  BY <1>1, <1>5 DEF Leaseholders
<1>9. ASSUME NEW d \in Docs, NeverReprocessed(d)
      PROVE  Chances(task', batch', d, n)
  <2>1. LiveRows(task', d) \subseteq LiveRows(task, d)
    BY <1>4, <1>5 DEF LiveRows
  <2>2. ASSUME NEW x \in Zombies(task', batch', d)
        PROVE  x \in Zombies(task, batch, d)
    <3>1. x \in Claims /\ x[1] \in Workers /\ x[2] \in batch'[x[1]] /\ x[2].doc = d /\ ~Holds(task', x)
      BY <2>2 DEF Zombies, Claims
    <3>2. RowOf(x[2]) \in Tasks
      BY <3>1, RowOfType DEF Claims
    <3>3. x[1] # w
      BY <1>5, <1>6, <3>1 DEF Holds
    <3>4. x[2] \in batch[x[1]]
      BY <1>3, <3>1, <3>3
    <3>5. ~Holds(task, x)
      BY <1>4, <1>5, <3>1, <3>2 DEF Holds
    <3> QED
      BY <3>1, <3>4, <3>5 DEF Zombies
  <2>3. Zombies(task', batch', d) \subseteq Zombies(task, batch, d)
    BY <2>2
  <2> QED
    BY <1>1, <1>9, <2>1, <2>3, ChancesKept
<1>10. ASSUME NEW t \in Tasks, NeverReprocessed(t[1])
       PROVE  Paid(task', batch', t, k)
  <2>1. Paid(task, batch, t, k)
    BY <1>1, <1>10
  <2>2. CASE t \notin due
    <3>1. \A v \in Workers : \A b \in ClaimedTask : RowOf(b) = t => (b \in batch'[v] <=> b \in batch[v])
      BY <1>2, <1>3, <1>6, <2>2
    <3>2. task'[t] = task[t]
      BY <1>5, <2>2
    <3> QED
      BY <1>1, <2>1, <3>1, <3>2, PaidElsewhere
  <2>3. CASE t \in due
    <3> DEFINE c == [doc |-> t[1], stage |-> t[2], attempts |-> task[t].attempts + 1]
               R == Retriers(batch, t)  R2 == Retriers(batch', t)  y == <<w, c>>
    <3>1. c \in batch'[w] /\ RowOf(c) = t /\ c.attempts = task[t].attempts + 1
      BY <1>3, <2>3 DEF RowOf, Tasks
    <3>2. Claimable(task, batch, t) = 1
      BY <1>4, <2>3 DEF Claimable, Unclaimed
    <3>3. Claimable(task', batch', t) = 0
      BY <1>5, <2>3, <3>1 DEF Claimable, Unclaimed
    <3>4. ASSUME NEW x \in R2
          PROVE  x \in R \/ (x = y /\ c.attempts < MaxAttempts)
      <4>1. x \in Claims /\ x[1] \in Workers /\ x[2] \in batch'[x[1]] /\ RowOf(x[2]) = t /\ x[2].attempts < MaxAttempts
        BY <3>4 DEF Retriers, Claims
      <4>2. CASE x[1] = w
        <5>1. x[2] = c
          BY <1>6, <4>1, <4>2
        <5> QED
          BY <4>1, <4>2, <5>1 DEF Claims
      <4>3. CASE x[1] # w
        BY <1>3, <4>1, <4>3 DEF Retriers
      <4> QED
        BY <4>2, <4>3
    <3>5. /\ IsFiniteSet(R) /\ 1 + Cardinality(R) <= 1 + k
          /\ task[t].attempts + 1 + Cardinality(R) <= MaxAttempts + k
      BY <2>1, <3>2 DEF Paid
    <3>6. /\ task[t].attempts \in Nat /\ MaxAttempts \in Nat /\ Cardinality(R) \in Nat
          /\ task'[t].attempts = task[t].attempts + 1 /\ c.attempts = task[t].attempts + 1
      BY <1>4, <1>5, <2>3, <3>5, FS_CardinalityType, PipelineAssumption DEF TaskRow
    <3> HIDE DEF c, R, R2, y
    <3>7. CASE c.attempts < MaxAttempts
      <4>1. R2 \subseteq R \cup {y}
        BY <3>4
      <4>2. IsFiniteSet(R2) /\ Cardinality(R2) \in Nat /\ Cardinality(R2) <= Cardinality(R) + 1
        BY <3>5, <4>1, CardMore
      <4>3. /\ 0 + Cardinality(R2) <= 1 + k
            /\ task'[t].attempts + 0 + Cardinality(R2) <= MaxAttempts + k
        BY <1>1, <3>5, <3>6, <3>7, <4>2
      <4> QED
        BY <3>3, <4>2, <4>3 DEF Paid, R2
    <3>8. CASE ~(c.attempts < MaxAttempts)
      <4>1. R2 \subseteq R
        BY <3>4, <3>8
      <4>2. IsFiniteSet(R2) /\ Cardinality(R2) \in Nat /\ Cardinality(R2) <= Cardinality(R)
        BY <3>5, <4>1, CardSub
      <4>3. /\ 0 + Cardinality(R2) <= 1 + k
            /\ task'[t].attempts + 0 + Cardinality(R2) <= MaxAttempts + k
        BY <1>1, <3>5, <3>6, <4>2
      <4> QED
        BY <3>3, <4>2, <4>3 DEF Paid, R2
    <3> QED
      BY <3>7, <3>8
  <2> QED
    BY <2>2, <2>3
<1> QED
  BY <1>2, <1>7, <1>8, <1>9, <1>10 DEF RetryInv, Tasks, NeverReprocessed, n, k

\* A crash takes claims away and pays for every row it leaves behind.
LEMMA CrashRetries ==
  ASSUME TypeOK, TypeOK', RetryInv, NEW w \in Workers, Crash(w)
  PROVE  RetryInv'
<1>1. /\ UNCHANGED <<audit, task, overruns>> /\ crashes' = crashes + 1
      /\ batch' = [batch EXCEPT ![w] = {}]
  BY DEF Crash, docVars
<1>2. /\ task \in [Tasks -> TaskRow] /\ batch \in [Workers -> SUBSET ClaimedTask]
      /\ crashes \in Nat /\ overruns \in Nat /\ ClaimsDiffer(batch) /\ Leaseholders(task)
  BY DEF TypeOK, RetryInv
<1>3. \A v \in Workers : batch'[v] \subseteq batch[v]
  BY <1>1, <1>2
<1>4. ClaimsDiffer(batch')
  BY <1>2, <1>3 DEF ClaimsDiffer
<1>5. ASSUME NEW d \in Docs, NeverReprocessed(d)
      PROVE  Chances(task, batch', d, 1 + overruns)
  <2> DEFINE n == 1 + overruns
  <2>1. n \in Int /\ n <= n /\ Chances(task, batch, d, n)
    BY <1>2, <1>5 DEF RetryInv
  <2>2. Zombies(task, batch', d) \subseteq Zombies(task, batch, d)
    BY <1>3 DEF Zombies, Claims
  <2> HIDE DEF n
  <2>3. Chances(task, batch', d, n)
    BY <2>1, <2>2, ChancesKept
  <2> QED
    BY <2>3 DEF n
<1>6. ASSUME NEW t \in Tasks, NeverReprocessed(t[1])
      PROVE  Paid(task, batch', t, (crashes + 1) + overruns)
  <2> DEFINE R == Retriers(batch, t)  R2 == Retriers(batch', t)
  <2>1. Paid(task, batch, t, crashes + overruns)
    BY <1>6 DEF RetryInv
  <2>2. /\ IsFiniteSet(R) /\ Claimable(task, batch, t) + Cardinality(R) <= 1 + (crashes + overruns)
        /\ task[t].attempts + Claimable(task, batch, t) + Cardinality(R) <= MaxAttempts + (crashes + overruns)
    BY <2>1 DEF Paid
  <2>3. R2 \subseteq R
    BY <1>3 DEF Retriers, Claims
  <2>4. IsFiniteSet(R2) /\ Cardinality(R2) \in Nat /\ Cardinality(R2) <= Cardinality(R) /\ Cardinality(R) \in Nat
    <3> HIDE DEF R, R2
    <3> QED
      BY <2>2, <2>3, CardSub
  <2>5. Claimable(task, batch, t) \in {0, 1} /\ Claimable(task, batch', t) \in {0, 1}
    BY DEF Claimable
  <2>6. task[t].attempts \in Nat /\ MaxAttempts \in Nat
    BY <1>2, PipelineAssumption DEF TaskRow
  <2> QED
    BY <1>2, <2>2, <2>4, <2>5, <2>6 DEF Paid
<1> QED
  BY <1>1, <1>2, <1>4, <1>5, <1>6 DEF RetryInv, Tasks, NeverReprocessed

\* A row that is taken from under a worker makes one zombie and one task that
\* can be claimed again; a row nobody works on makes neither.
LEMMA ReclaimRetries ==
  ASSUME TypeOK, TypeOK', RetryInv, NEW expired \in SUBSET Running, Reclaim(expired)
  PROVE  RetryInv'
<1> DEFINE O == Overrun(expired)
<1>1. /\ UNCHANGED <<audit, batch, crashes>>
      /\ overruns' = overruns + Cardinality(O)
  BY DEF Reclaim, docVars, workerVars
<1>2. /\ task \in [Tasks -> TaskRow] /\ batch \in [Workers -> SUBSET ClaimedTask]
      /\ crashes \in Nat /\ overruns \in Nat /\ ClaimsDiffer(batch) /\ Leaseholders(task)
  BY DEF TypeOK, RetryInv
<1>3. IsFiniteSet(O) /\ Cardinality(O) \in Nat
  BY OverrunType
<1>4. \A t \in expired : t \in Tasks /\ task[t].status = "running" /\ task[t] \in TaskRow
  BY <1>2 DEF Running
<1>5. /\ \A t \in Tasks \ expired : task'[t] = task[t]
      /\ \A t \in expired : task'[t].status = "pending" /\ task'[t].attempts = task[t].attempts
  BY <1>4, ReleasedType DEF Reclaim, TaskStatus
<1>6. \A t \in expired, w \in Workers, c \in ClaimedTask :
        c \in batch[w] /\ RowOf(c) = t /\ task[t].lockedBy = w => t \in O
  BY DEF Overrun, Held
<1> HIDE DEF O
<1>7. ASSUME NEW d \in Docs, NeverReprocessed(d)
      PROVE  Chances(task', batch, d, 1 + (overruns + Cardinality(O)))
  <2> DEFINE L == LiveRows(task, d)  L2 == LiveRows(task', d)
             Z == Zombies(task, batch, d)  Z2 == Zombies(task', batch, d)
             N == {x \in Claims : x[2] \in batch[x[1]] /\ RowOf(x[2]) \in expired /\ Holds(task, x)}
             f == [x \in N |-> RowOf(x[2])]
  <2>1. IsFiniteSet(L) /\ IsFiniteSet(Z) /\ Cardinality(L) + Cardinality(Z) <= 1 + overruns
    BY <1>7 DEF RetryInv, Chances
  <2>2. L2 \subseteq L
    BY <1>4, <1>5 DEF LiveRows
  <2>3. Z2 \subseteq Z \cup N
    <3> SUFFICES ASSUME NEW x \in Z2, x \notin Z
                 PROVE  x \in N
      OBVIOUS
    <3>1. x \in Claims /\ x[2] \in batch[x[1]] /\ Holds(task, x) /\ ~Holds(task', x)
      BY DEF Zombies
    <3>2. RowOf(x[2]) \in Tasks
      BY <3>1, RowOfType DEF Claims
    <3>3. RowOf(x[2]) \in expired
      BY <1>5, <3>1, <3>2 DEF Holds
    <3> QED
      BY <3>1, <3>3
  <2>4. f \in Injection(N, O)
    <3>1. \A x \in N : f[x] \in O
      BY <1>6 DEF Holds, Claims
    <3>2. ASSUME NEW x \in N, NEW y \in N, f[x] = f[y]
          PROVE  x = y
      <4>1. RowOf(x[2]) = RowOf(y[2]) /\ RowOf(x[2]) \in Tasks
        BY <1>4, <3>2
      <4> QED
        BY <1>2, <4>1, OneHolder
    <3> QED
      BY <3>1, <3>2 DEF Injection, IsInjective
  <2> HIDE DEF L, L2, Z, Z2, N, f
  <2>5. IsFiniteSet(N) /\ Cardinality(N) <= Cardinality(O)
    BY <1>3, <2>4, FS_Injection
  <2>6. /\ IsFiniteSet(Z \cup N) /\ Cardinality(Z \cup N) <= Cardinality(Z) + Cardinality(N)
        /\ Cardinality(Z) \in Nat /\ Cardinality(N) \in Nat
    <3>1. /\ IsFiniteSet(Z \cup N) /\ Cardinality(Z \cup N) = Cardinality(Z) + Cardinality(N) - Cardinality(Z \cap N)
          /\ IsFiniteSet(Z \cap N)
      BY <2>1, <2>5, FS_Union, FS_Intersection
    <3>2. Cardinality(Z) \in Nat /\ Cardinality(N) \in Nat /\ Cardinality(Z \cap N) \in Nat
      BY <2>1, <2>5, <3>1, FS_CardinalityType
    <3> QED
      BY <3>1, <3>2
  <2>7. IsFiniteSet(Z2) /\ Cardinality(Z2) \in Nat /\ Cardinality(Z2) <= Cardinality(Z \cup N) /\ Cardinality(Z \cup N) \in Nat
    BY <2>3, <2>6, CardSub
  <2>8. IsFiniteSet(L2) /\ Cardinality(L2) \in Nat /\ Cardinality(L2) <= Cardinality(L) /\ Cardinality(L) \in Nat
    BY <2>1, <2>2, CardSub
  <2>9. Cardinality(L2) + Cardinality(Z2) <= 1 + (overruns + Cardinality(O))
    BY <1>2, <1>3, <2>1, <2>5, <2>6, <2>7, <2>8
  <2> QED
    BY <2>7, <2>8, <2>9 DEF Chances, L2, Z2
<1>8. ASSUME NEW t \in Tasks, NeverReprocessed(t[1])
      PROVE  Paid(task', batch, t, crashes + (overruns + Cardinality(O)))
  <2> DEFINE R == Retriers(batch, t)
  <2>1. /\ IsFiniteSet(R) /\ Claimable(task, batch, t) + Cardinality(R) <= 1 + (crashes + overruns)
        /\ task[t].attempts + Claimable(task, batch, t) + Cardinality(R) <= MaxAttempts + (crashes + overruns)
    BY <1>8 DEF RetryInv, Paid
  <2>2. /\ Cardinality(R) \in Nat /\ task[t].attempts \in Nat /\ MaxAttempts \in Nat
        /\ task'[t].attempts = task[t].attempts
    BY <1>2, <1>5, <2>1, FS_CardinalityType, PipelineAssumption DEF TaskRow
  <2>3. Claimable(task', batch, t) <= Claimable(task, batch, t) + Cardinality(O)
    <3>1. Claimable(task, batch, t) \in {0, 1} /\ Claimable(task', batch, t) \in {0, 1}
      BY DEF Claimable
    <3>2. CASE Unclaimed(task', batch, t) => Unclaimed(task, batch, t)
      BY <1>3, <3>1, <3>2 DEF Claimable
    <3>3. CASE Unclaimed(task', batch, t) /\ ~Unclaimed(task, batch, t)
      <4>1. t \in expired
        BY <1>5, <3>3 DEF Unclaimed
      <4>2. task[t].lockedBy \in Workers /\ \E c \in batch[task[t].lockedBy] : RowOf(c) = t
        BY <1>2, <1>4, <3>3, <4>1 DEF Unclaimed, Leaseholders
      <4>3. t \in O
        BY <1>2, <1>6, <4>1, <4>2
      <4>4. Cardinality(O) # 0
        BY <1>3, <4>3, FS_EmptySet
      <4> QED
        BY <1>3, <3>1, <4>4
    <3> QED
      BY <3>2, <3>3
  <2>4. Claimable(task', batch, t) \in {0, 1} /\ Claimable(task, batch, t) \in {0, 1}
    BY DEF Claimable
  <2>5. /\ Claimable(task', batch, t) + Cardinality(R) <= 1 + (crashes + (overruns + Cardinality(O)))
        /\ task'[t].attempts + Claimable(task', batch, t) + Cardinality(R)
             <= MaxAttempts + (crashes + (overruns + Cardinality(O)))
    BY <1>2, <1>3, <2>1, <2>2, <2>3, <2>4
  <2> QED
    BY <2>1, <2>5 DEF Paid
<1>9. Leaseholders(task')
  BY <1>2, <1>5 DEF Leaseholders
<1> QED
  BY <1>1, <1>2, <1>7, <1>8, <1>9 DEF RetryInv, Tasks, NeverReprocessed

\* A request starts a document's first task afresh: a new document has one
\* chance, the others keep theirs.
LEMMA StartRetries ==
  ASSUME TypeOK, TypeOK', RetryInv, NEW e \in Docs,
         task' = [task EXCEPT ![<<e, "validate">>] = Enqueued],
         UNCHANGED <<workerVars, crashes, overruns>>,
         \A d \in Docs : NeverReprocessed(d)' => NeverReprocessed(d),
         \/ ~NeverReprocessed(e)'
         \/ /\ \A s \in ProcessingStage : ~Exists(<<e, s>>)
            /\ \A w \in Workers : \A c \in batch[w] : c.doc # e
  PROVE  RetryInv'
<1> DEFINE n == 1 + overruns  k == crashes + overruns  q == <<e, "validate">>
<1>1. /\ task \in [Tasks -> TaskRow] /\ batch \in [Workers -> SUBSET ClaimedTask]
      /\ task' \in [Tasks -> TaskRow] /\ batch' = batch
      /\ overruns \in Nat /\ crashes \in Nat /\ overruns <= k /\ k \in Nat
      /\ n \in Int /\ n <= n /\ k \in Int /\ k <= k
      /\ ClaimsDiffer(batch) /\ Leaseholders(task)
      /\ \A d \in Docs : NeverReprocessed(d) => Chances(task, batch, d, n)
      /\ \A t \in Tasks : NeverReprocessed(t[1]) => Paid(task, batch, t, k)
  BY DEF TypeOK, RetryInv, workerVars
<1>2. q \in Tasks /\ q[1] = e /\ task' = [task EXCEPT ![q] = Enqueued]
  BY DEF Tasks, ProcessingStage
<1>3. Enqueued \in TaskRow /\ Enqueued.status = "pending"
  BY <1>2, EnqueuedType
<1>4. task'[q] = Enqueued /\ \A t \in Tasks : t # q => task'[t] = task[t]
  BY <1>1, <1>2
<1> HIDE DEF n, k, q
<1>5. ASSUME NEW d \in Docs, NeverReprocessed(d)'
      PROVE  Chances(task', batch, d, n)
  <2>1. Chances(task, batch, d, n)
    BY <1>1, <1>5
  <2>2. CASE d # e
    <3>1. /\ task \in [Tasks -> TaskRow] /\ batch \in [Workers -> SUBSET ClaimedTask] /\ ClaimsDiffer(batch)
          /\ q \in Tasks /\ q[1] # d /\ Enqueued \in TaskRow /\ Enqueued.status # "running"
          /\ n \in Int /\ Chances(task, batch, d, n) /\ task' = [task EXCEPT ![q] = Enqueued]
      BY <1>1, <1>2, <1>3, <2>1, <2>2
    <3> QED
      BY ONLY <3>1, RowGivenUp, d \in Docs
  <2>3. CASE d = e
    <3>1. /\ \A s \in ProcessingStage : ~Exists(<<e, s>>)
          /\ \A w \in Workers : \A c \in batch[w] : c.doc # e
      BY <1>5, <2>3
    <3>2. LiveRows(task', d) \subseteq {q}
      BY <1>4, <2>3, <3>1 DEF LiveRows, Exists, Tasks
    <3>3. Zombies(task', batch, d) = {}
      BY <2>3, <3>1 DEF Zombies, Claims
    <3>4. IsFiniteSet({q}) /\ Cardinality({q}) = 1
      BY FS_Singleton
    <3>5. IsFiniteSet(LiveRows(task', d)) /\ Cardinality(LiveRows(task', d)) \in Nat /\ Cardinality(LiveRows(task', d)) <= 1
      BY <3>2, <3>4, CardSub
    <3>6. IsFiniteSet(Zombies(task', batch, d)) /\ Cardinality(Zombies(task', batch, d)) = 0
      BY <3>3, FS_EmptySet
    <3> QED
      BY <1>1, <3>5, <3>6 DEF Chances, n
  <2> QED
    BY <2>2, <2>3
<1>6. ASSUME NEW t \in Tasks, NeverReprocessed(t[1])'
      PROVE  Paid(task', batch, t, k)
  <2>1. t[1] \in Docs
    BY DEF Tasks
  <2>2. CASE t = q
    <3>1. Chances(task', batch, t[1], 1 + overruns)
      BY <1>5, <1>6, <2>1 DEF n
    <3> QED
      BY <1>1, <1>4, <2>2, <3>1, PaidAfresh
  <2>3. CASE t # q
    BY <1>1, <1>4, <1>6, <2>1, <2>3, PaidElsewhere
  <2> QED
    BY <2>2, <2>3
<1>7. Leaseholders(task')
  BY <1>1, <1>3, <1>4 DEF Leaseholders
<1> QED
  BY <1>1, <1>5, <1>6, <1>7 DEF RetryInv, Tasks, workerVars, n, k

\* Steps that touch neither the queue nor the batches.
LEMMA IdleRetries ==
  ASSUME TypeOK, RetryInv, UNCHANGED <<task, batch, crashes, overruns>>,
         \A d \in Docs : NeverReprocessed(d)' => NeverReprocessed(d)
  PROVE  RetryInv'
<1>1. \A t \in Tasks : t[1] \in Docs
  BY DEF Tasks
<1> QED
  BY <1>1 DEF RetryInv

\* A handler commits.
LEMMA HandlerRetries ==
  ASSUME TypeOK, TypeOK', RetryInv, NEW w \in Workers, HandlerSucceeds(w),
         \A d \in Docs : NeverReprocessed(d)' => NeverReprocessed(d)
  PROVE  RetryInv'
<1>1. phase[w] # "idle" /\ Finish(w) /\ UNCHANGED <<crashes, overruns>>
  BY DEF HandlerSucceeds, Handling, budgets, HandleValidate, HandlePdfExtract, HandleOcr,
         HandleClassify, HandleEmbed, HandleGraph, HandleFinalize
<1>2. CASE HandleFinalize(w)
  <2>1. task' = [task EXCEPT ![RowOf(claim[w])] = Released(task[RowOf(claim[w])], "succeeded")]
    BY <1>2 DEF HandleFinalize
  <2> QED
    BY <1>1, <2>1, ReleaseRetries
<1>3. CASE ~HandleFinalize(w)
  <2>1. PICK next \in ProcessingStage : ChainTo(w, next) /\ next # claim[w].stage
    BY <1>3 DEF HandlerSucceeds, Handling, HandleValidate, HandlePdfExtract, HandleOcr,
         HandleClassify, HandleEmbed, HandleGraph, ProcessingStage
  <2> QED
    BY <1>1, <2>1, ChainRetries
<1> QED
  BY <1>2, <1>3

\* Every step keeps the chances and the accounts.
LEMMA RetryStep == TypeOK /\ TypeOK' /\ HistoryInv /\ RetryInv /\ [Next]_vars => RetryInv'
<1> SUFFICES ASSUME TypeOK, TypeOK', HistoryInv, RetryInv, [Next]_vars
             PROVE  RetryInv'
  OBVIOUS
<1>1. \A d \in Docs : NeverReprocessed(d)' => NeverReprocessed(d)
  BY AuditGrows DEF NeverReprocessed
<1>2. ASSUME NEW w \in Workers, WorkerStep(w)
      PROVE  RetryInv'
  <2>1. ASSUME NEW due \in SUBSET Pending, Claim(w, due)
        PROVE  RetryInv'
    <3>1. due \in SUBSET Tasks /\ due \subseteq Pending
      BY DEF Pending
    <3> QED
      BY <2>1, <3>1, ClaimRetries
  <2>2. ASSUME NEW c \in batch[w], BeginStage(w, c)
        PROVE  RetryInv'
    BY <1>1, <2>2, IdleRetries DEF BeginStage, budgets
  <2>3. CASE HandlerSucceeds(w)
    BY <1>1, <2>3, HandlerRetries
  <2>4. CASE HandlerStops(w) \/ RetryLater(w) \/ BuryTask(w)
    <3>1. phase[w] # "idle" /\ Finish(w) /\ UNCHANGED <<crashes, overruns>>
      BY <2>4 DEF HandlerStops, RetryLater, BuryTask, budgets
    <3>2. PICK st \in {"pending", "succeeded", "dead"} :
            /\ st = "pending" => MayRetry(claim[w])
            /\ task' = [task EXCEPT ![RowOf(claim[w])] = Released(task[RowOf(claim[w])], st)]
      BY <2>4 DEF HandlerStops, RetryLater, BuryTask
    <3> QED
      BY <1>1, <3>1, <3>2, ReleaseRetries
  <2>5. CASE GiveUp(w)
    BY <1>1, <2>5, IdleRetries DEF GiveUp, budgets
  <2>6. CASE Crash(w)
    BY <2>6, CrashRetries
  <2> QED
    BY <1>2, <2>1, <2>2, <2>3, <2>4, <2>5, <2>6 DEF WorkerStep
<1>3. ASSUME NEW expired \in SUBSET Running, Reclaim(expired)
      PROVE  RetryInv'
  BY <1>3, ReclaimRetries
<1>4. ASSUME NEW d \in Docs, Upload(d)
      PROVE  RetryInv'
  <2>1. \A s \in ProcessingStage : ~Exists(<<d, s>>)
    BY <1>4 DEF HistoryInv, AbsentHasNoTask, Upload
  <2>2. \A w \in Workers : \A c \in batch[w] : c.doc # d
    BY <2>1, RowOfType DEF HistoryInv, BatchHasRows, TypeOK, RowOf
  <2>3. task' = [task EXCEPT ![<<d, "validate">>] = Enqueued] /\ UNCHANGED <<workerVars, crashes, overruns>>
    BY <1>4 DEF Upload, budgets
  <2> QED
    BY <1>1, <2>1, <2>2, <2>3, StartRetries
<1>5. ASSUME NEW c \in Clients, ClientStep(c)
      PROVE  RetryInv'
  <2>1. ASSUME NEW d \in Docs, BeginCancel(c, d) \/ BeginReprocess(c, d)
        PROVE  RetryInv'
    BY <1>1, <2>1, IdleRetries DEF BeginCancel, BeginReprocess, workerVars
  <2>2. CASE CommitCancel(c)
    BY <1>1, <2>2, IdleRetries DEF CommitCancel, workerVars, budgets
  <2>3. CASE CommitReprocess(c)
    <3>1. PICK d \in Docs : d = request[c].doc
      BY <2>3 DEF CommitReprocess, InFlight, TypeOK, Request
    <3>2. ~NeverReprocessed(d)'
      BY <2>3, <3>1 DEF CommitReprocess, TypeOK, NeverReprocessed
    <3>3. task' = [task EXCEPT ![<<d, "validate">>] = Enqueued] /\ UNCHANGED <<workerVars, crashes, overruns>>
      BY <2>3, <3>1 DEF CommitReprocess, budgets
    <3> QED
      BY <1>1, <3>1, <3>2, <3>3, StartRetries
  <2> QED
    BY <1>5, <2>1, <2>2, <2>3 DEF ClientStep
<1>6. CASE UNCHANGED vars
  BY <1>1, <1>6, IdleRetries DEF vars, workerVars, budgets
<1> QED
  BY <1>2, <1>3, <1>4, <1>5, <1>6 DEF Next

\* However many workers, crashes, expired leases, cancellations and
\* reprocess requests there are: a document that was not reprocessed has a
\* task claimed beyond the limit only once for every crash and every row
\* whose lease ran out under its worker.
THEOREM RetriesAreBounded == Spec => []RetryBudget
<1>1. Init => RetryInv
  <2> SUFFICES ASSUME Init PROVE RetryInv
    OBVIOUS
  <2>1. /\ \A w \in Workers : batch[w] = {}
        /\ \A t \in Tasks : task[t].status = "absent" /\ task[t].attempts = 0
        /\ crashes = 0 /\ overruns = 0
    BY DEF Init, NoRow
  <2>2. ASSUME NEW d \in Docs
        PROVE  Chances(task, batch, d, 1 + overruns)
    <3>1. LiveRows(task, d) = {} /\ Zombies(task, batch, d) = {}
      BY <2>1 DEF LiveRows, Zombies, Claims
    <3> QED
      BY <2>1, <3>1, FS_EmptySet DEF Chances
  <2>3. ASSUME NEW t \in Tasks
        PROVE  Paid(task, batch, t, crashes + overruns)
    <3>1. Retriers(batch, t) = {} /\ Claimable(task, batch, t) = 0
      BY <2>1 DEF Retriers, Claims, Claimable, Unclaimed
    <3> QED
      BY <2>1, <3>1, FS_EmptySet, PipelineAssumption DEF Paid
  <2> QED
    BY <2>1, <2>2, <2>3 DEF RetryInv, ClaimsDiffer, Leaseholders
<1>2. TypeOK /\ TypeOK' /\ HistoryInv /\ RetryInv /\ [Next]_vars => RetryInv'
  BY RetryStep
<1>3. TypeOK /\ RetryInv => RetryBudget
  <2> SUFFICES ASSUME TypeOK, RetryInv, NEW t \in Tasks, NeverReprocessed(t[1])
               PROVE  task[t].attempts <= MaxAttempts + crashes + overruns
    BY DEF RetryBudget
  <2>1. /\ IsFiniteSet(Retriers(batch, t))
        /\ task[t].attempts + Claimable(task, batch, t) + Cardinality(Retriers(batch, t)) <= MaxAttempts + (crashes + overruns)
    BY DEF RetryInv, Paid
  <2>2. Cardinality(Retriers(batch, t)) \in Nat /\ Claimable(task, batch, t) \in {0, 1}
    BY <2>1, FS_CardinalityType DEF Claimable
  <2>3. task[t].attempts \in Nat /\ MaxAttempts \in Nat /\ crashes \in Nat /\ overruns \in Nat
    BY PipelineAssumption DEF TypeOK, TaskRow
  <2> QED
    BY <2>1, <2>2, <2>3
<1> QED
  BY <1>1, <1>2, <1>3, TypeCorrect, HistoryHolds, PTL DEF Spec

-----------------------------------------------------------------------------
(* When leases outlive the work they cover (MaxOverruns = 0): the regime   *)
(* the queue is designed for.  Crashes, retries and cancellations are not  *)
(* restricted.  The invariant says what is true of one document d that has *)
(* not been reprocessed.                                                   *)

\* The status in which the handler of stage s expects the document.
Entry(s) ==
  CASE s = "validate"    -> "UPLOADED"
    [] s = "pdf_extract" -> "QUEUED"
    [] s = "ocr"         -> "PROCESSING"
    [] s = "classify"    -> "OCR_RUNNING"
    [] s = "embed"       -> "CLASSIFYING"
    [] OTHER             -> "EMBEDDING"

OneLive(d) == \A s1, s2 \in ProcessingStage : Live(<<d, s1>>) /\ Live(<<d, s2>>) => s1 = s2

\* A claim of d is the lease of its row, attempt for attempt.
Leased(d) ==
  \A w \in Workers : \A c \in batch[w] : c.doc = d =>
    task[RowOf(c)].status = "running" /\ task[RowOf(c)].lockedBy = w /\ task[RowOf(c)].attempts = c.attempts

\* The document waits for its live stage, unless it was cancelled.
InStep(d) ==
  \A s \in ProcessingStage : Live(<<d, s>>) => status[d] \in {Entry(s), "CANCELLED"}

\* Nothing but a cancellation has happened to d since a worker read it.
Aware(d) ==
  \A w \in Workers : phase[w] # "idle" /\ claim[w].doc = d =>
    seen[w] \in {Entry(claim[w].stage), "CANCELLED"} /\ status[d] \in {seen[w], "CANCELLED"}

Attended(d) == InProgress(d) => \E s \in ProcessingStage : Live(<<d, s>>)

\* A dead letter is the end of the chain.
DeadIsLast(d) ==
  (\E s \in ProcessingStage : task[<<d, s>>].status = "dead") => \A s \in ProcessingStage : ~Live(<<d, s>>)

JobAgrees(d) ==
  /\ job[d].status = "succeeded" => task[<<d, job[d].stage>>].status = "succeeded"
  /\ job[d].status = "failed" <=> \E s \in ProcessingStage : task[<<d, s>>].status = "dead"

SerialDoc(d) ==
  /\ OneLive(d) /\ Leased(d) /\ InStep(d) /\ Aware(d)
  /\ Attended(d) /\ DeadIsLast(d) /\ JobAgrees(d)

SerialInv == overruns = 0 /\ \A d \in Docs : NeverReprocessed(d) => SerialDoc(d)

\* The four properties are parts of it.
LEMMA SerialImplies ==
  TypeOK /\ SerialInv =>
    OneStageAtATime /\ ClaimsAreExclusive /\ JobTracksQueue /\ NoStrandedDocument
<1> SUFFICES ASSUME TypeOK, SerialInv
             PROVE  OneStageAtATime /\ ClaimsAreExclusive /\ JobTracksQueue /\ NoStrandedDocument
  OBVIOUS
<1>1. OneStageAtATime /\ JobTracksQueue /\ NoStrandedDocument
  BY DEF SerialInv, SerialDoc, OneLive, JobAgrees, Attended, OneStageAtATime, JobTracksQueue, NoStrandedDocument
<1>2. ClaimsAreExclusive
  BY RowOfType DEF SerialInv, SerialDoc, Leased, ClaimsAreExclusive, TypeOK
<1> QED
  BY <1>1, <1>2

-----------------------------------------------------------------------------
(* Steps that do not concern a document                                    *)

\* What a step leaves alone when it is about other documents.
Untouched(d) ==
  /\ status'[d] = status[d] /\ job'[d] = job[d]
  /\ \A s \in ProcessingStage : task'[<<d, s>>] = task[<<d, s>>]
  /\ \A w \in Workers : \A c \in ClaimedTask :
       c.doc = d => (c \in batch'[w] <=> c \in batch[w])
  /\ \A w \in Workers : phase'[w] # "idle" /\ claim'[w].doc = d =>
       phase[w] # "idle" /\ claim'[w] = claim[w] /\ seen'[w] = seen[w]

LEMMA Frame ==
  ASSUME TypeOK, TypeOK', NEW CONSTANT d \in Docs, SerialDoc(d), Untouched(d)
  PROVE  SerialDoc(d)'
<1>1. OneLive(d)'
  BY DEF Untouched, SerialDoc, OneLive, Live
<1>2. Leased(d)'
  <2> SUFFICES ASSUME NEW CONSTANT w \in Workers, NEW CONSTANT c \in batch'[w], c.doc = d
               PROVE  task'[RowOf(c)].status = "running" /\ task'[RowOf(c)].lockedBy = w
                      /\ task'[RowOf(c)].attempts = c.attempts
    BY DEF Leased, RowOf
  <2>1. c \in ClaimedTask
    BY DEF TypeOK
  <2>2. c \in batch[w] /\ task'[RowOf(c)] = task[RowOf(c)]
    BY <2>1, RowOfType DEF Untouched, RowOf
  <2> QED
    BY <2>2 DEF SerialDoc, Leased
<1>3. InStep(d)' /\ Attended(d)' /\ DeadIsLast(d)'
  BY DEF Untouched, SerialDoc, InStep, Attended, DeadIsLast, Live, InProgress
<1>4. Aware(d)'
  BY DEF Untouched, SerialDoc, Aware
<1>5. JobAgrees(d)'
  BY DEF Untouched, SerialDoc, JobAgrees, TypeOK, JobRow
<1> QED
  BY <1>1, <1>2, <1>3, <1>4, <1>5 DEF SerialDoc

-----------------------------------------------------------------------------
(* Steps of the worker that has a document's task at hand                  *)

\* A document with a claim has no other claim, one live row and no dead one.
LEMMA Alone ==
  ASSUME TypeOK, NEW CONSTANT d \in Docs, SerialDoc(d),
         NEW CONSTANT w \in Workers, NEW CONSTANT c \in batch[w], c.doc = d
  PROVE  /\ c \in ClaimedTask /\ c.stage \in ProcessingStage /\ RowOf(c) = <<d, c.stage>> /\ RowOf(c) \in Tasks
         /\ task[RowOf(c)].status = "running" /\ task[RowOf(c)].attempts = c.attempts
         /\ \A s \in ProcessingStage : Live(<<d, s>>) <=> s = c.stage
         /\ \A s \in ProcessingStage : task[<<d, s>>].status # "dead"
         /\ \A v \in Workers : \A b \in batch[v] : b.doc = d => v = w /\ b = c
<1>1. c \in ClaimedTask /\ c.stage \in ProcessingStage /\ RowOf(c) = <<d, c.stage>> /\ RowOf(c) \in Tasks
  BY RowOfType DEF TypeOK, RowOf
<1>2. task[RowOf(c)].status = "running" /\ task[RowOf(c)].attempts = c.attempts /\ task[RowOf(c)].lockedBy = w
  BY DEF SerialDoc, Leased
<1>3. \A s \in ProcessingStage : Live(<<d, s>>) <=> s = c.stage
  BY <1>1, <1>2 DEF SerialDoc, OneLive, Live
<1>4. \A s \in ProcessingStage : task[<<d, s>>].status # "dead"
  BY <1>1, <1>3 DEF SerialDoc, DeadIsLast
<1>5. ASSUME NEW v \in Workers, NEW b \in batch[v], b.doc = d
      PROVE  v = w /\ b = c
  <2>1. b \in ClaimedTask /\ b.stage \in ProcessingStage /\ RowOf(b) = <<d, b.stage>>
    BY <1>5, RowOfType DEF TypeOK, RowOf
  <2>2. task[RowOf(b)].status = "running" /\ task[RowOf(b)].attempts = b.attempts /\ task[RowOf(b)].lockedBy = v
    BY <1>5 DEF SerialDoc, Leased
  <2>3. b.stage = c.stage
    BY <1>3, <2>1, <2>2 DEF Live
  <2> QED
    BY <1>1, <1>2, <1>5, <2>1, <2>2, <2>3 DEF ClaimedTask
<1> QED
  BY <1>1, <1>2, <1>3, <1>4, <1>5

\* Once its worker has finished, nobody has the document's task at hand.
LEMMA NobodyLeft ==
  ASSUME TypeOK, NEW CONSTANT d \in Docs, SerialDoc(d),
         NEW CONSTANT w \in Workers, NEW CONSTANT c \in batch[w], c.doc = d, claim[w] = c, Finish(w)
  PROVE  /\ Leased(d)' /\ Aware(d)'
         /\ \A v \in Workers : \A b \in batch'[v] : b.doc # d
<1>1. \A v \in Workers : \A b \in batch[v] : b.doc = d => v = w /\ b = c
  BY Alone
<1>2. \A v \in Workers : \A b \in batch'[v] : b.doc # d
  BY <1>1 DEF Finish, TypeOK
<1>3. Leased(d)'
  BY <1>2 DEF Leased
<1>4. \A v \in Workers : phase'[v] # "idle" => claim'[v].doc # d
  BY <1>1 DEF Finish, TypeOK
<1>5. Aware(d)'
  BY <1>4 DEF Aware
<1> QED
  BY <1>2, <1>3, <1>5

\* The worker leaves the document's chain at its end: the row is succeeded
\* or dead, the status terminal.
LEMMA EndsSerial ==
  ASSUME TypeOK, TypeOK', NEW CONSTANT d \in Docs, SerialDoc(d),
         NEW CONSTANT w \in Workers, NEW CONSTANT c \in batch[w], c.doc = d, claim[w] = c, Finish(w),
         NEW CONSTANT st \in {"succeeded", "dead"},
         task' = [task EXCEPT ![RowOf(c)] = Released(task[RowOf(c)], st)],
         status'[d] \in TerminalStates,
         \/ st = "dead" /\ job'[d].status = "failed"
         \/ st = "succeeded" /\ job'[d] = job[d]
         \/ st = "succeeded" /\ job'[d].stage = c.stage /\ job'[d].status = "succeeded"
  PROVE  SerialDoc(d)'
<1>1. /\ c.stage \in ProcessingStage /\ RowOf(c) = <<d, c.stage>> /\ RowOf(c) \in Tasks
      /\ task[RowOf(c)].status = "running"
      /\ \A s \in ProcessingStage : Live(<<d, s>>) <=> s = c.stage
      /\ \A s \in ProcessingStage : task[<<d, s>>].status # "dead"
  BY Alone
<1>2. /\ Released(task[RowOf(c)], st).status = st
      /\ Released(task[RowOf(c)], st).attempts = task[RowOf(c)].attempts
  BY <1>1, ReleasedType DEF TypeOK, TaskStatus
<1>3. /\ task'[<<d, c.stage>>].status = st
      /\ task'[<<d, c.stage>>].attempts = task[<<d, c.stage>>].attempts
      /\ \A s \in ProcessingStage : s # c.stage => task'[<<d, s>>] = task[<<d, s>>]
  BY <1>1, <1>2 DEF TypeOK, Tasks
<1>4. \A s \in ProcessingStage : ~Live(<<d, s>>)'
  BY <1>1, <1>3 DEF Live
<1>5. OneLive(d)' /\ InStep(d)' /\ DeadIsLast(d)'
  BY <1>4 DEF OneLive, InStep, DeadIsLast
<1>6. Attended(d)'
  BY DEF Attended, InProgress, Finished
<1>7. JobAgrees(d)'
  <2>1. CASE st = "dead"
    BY <1>1, <1>3, <2>1 DEF JobAgrees
  <2>2. CASE st = "succeeded"
    <3>1. \A s \in ProcessingStage : task'[<<d, s>>].status # "dead"
      BY <1>1, <1>3, <2>2
    <3>2. job'[d].status # "failed"
      BY <1>1, <2>2 DEF SerialDoc, JobAgrees
    <3>3. job'[d].status = "succeeded" => task'[<<d, job'[d].stage>>].status = "succeeded"
      <4>1. CASE job'[d] = job[d]
        <5>1. job[d].stage \in ProcessingStage
          BY DEF TypeOK, JobRow
        <5>2. job[d].status = "succeeded" => task[<<d, job[d].stage>>].status = "succeeded"
          BY DEF SerialDoc, JobAgrees
        <5> QED
          BY <1>3, <2>2, <4>1, <5>1, <5>2
      <4>2. CASE job'[d].stage = c.stage
        BY <1>3, <2>2, <4>2
      <4> QED
        BY <2>2, <4>1, <4>2
    <3> QED
      BY <3>1, <3>2, <3>3 DEF JobAgrees
  <2> QED
    BY <2>1, <2>2
<1>9. Leased(d)' /\ Aware(d)'
  BY NobodyLeft
<1> QED
  BY <1>5, <1>6, <1>7, <1>9 DEF SerialDoc

\* The worker hands the document on to the next stage.
LEMMA ChainsSerial ==
  ASSUME TypeOK, TypeOK', NEW CONSTANT d \in Docs, SerialDoc(d),
         NEW CONSTANT w \in Workers, NEW CONSTANT c \in batch[w], c.doc = d, claim[w] = c, Finish(w),
         NEW CONSTANT next \in ProcessingStage, next # c.stage, ChainTo(w, next),
         status'[d] \in {Entry(next), "CANCELLED"}
  PROVE  SerialDoc(d)'
<1>1. /\ c.stage \in ProcessingStage /\ RowOf(c) = <<d, c.stage>> /\ RowOf(c) \in Tasks
      /\ task[RowOf(c)].status = "running"
      /\ \A s \in ProcessingStage : Live(<<d, s>>) <=> s = c.stage
      /\ \A s \in ProcessingStage : task[<<d, s>>].status # "dead"
  BY Alone
<1>2. /\ Released(task[RowOf(c)], "succeeded").status = "succeeded"
      /\ Released(task[RowOf(c)], "succeeded").attempts = task[RowOf(c)].attempts
  BY <1>1, ReleasedType DEF TypeOK, TaskStatus
<1>3. task' = [task EXCEPT ![RowOf(c)] = Released(task[RowOf(c)], "succeeded"), ![<<d, next>>] = Enqueued]
  BY DEF ChainTo
<1>4. /\ task'[<<d, c.stage>>].status = "succeeded"
      /\ task'[<<d, c.stage>>].attempts = task[<<d, c.stage>>].attempts
      /\ task'[<<d, next>>].status = "pending" /\ task'[<<d, next>>].attempts = 0
      /\ \A s \in ProcessingStage : s # c.stage /\ s # next => task'[<<d, s>>] = task[<<d, s>>]
  BY <1>1, <1>2, <1>3, EnqueuedType DEF TypeOK, Tasks
<1>5. \A s \in ProcessingStage : Live(<<d, s>>)' <=> s = next
  BY <1>1, <1>4 DEF Live
<1>6. \A s \in ProcessingStage : task'[<<d, s>>].status # "dead"
  BY <1>1, <1>4
<1>7. OneLive(d)' /\ InStep(d)' /\ DeadIsLast(d)' /\ Attended(d)'
  BY <1>5, <1>6 DEF OneLive, InStep, DeadIsLast, Attended
<1>8. job'[d].stage = c.stage /\ job'[d].status = "succeeded"
  BY DEF ChainTo, TypeOK
<1>9. JobAgrees(d)'
  BY <1>1, <1>4, <1>6, <1>8 DEF JobAgrees
<1>11. Leased(d)' /\ Aware(d)'
  BY NobodyLeft
<1> QED
  BY <1>7, <1>9, <1>11 DEF SerialDoc

\* A worker that finishes another document's task does not touch d.
LEMMA Elsewhere ==
  ASSUME TypeOK, NEW CONSTANT d \in Docs, NEW CONSTANT w \in Workers,
         phase[w] # "idle", claim[w].doc # d, Finish(w),
         status'[d] = status[d], job'[d] = job[d],
         \A s \in ProcessingStage : task'[<<d, s>>] = task[<<d, s>>]
  PROVE  Untouched(d)
<1>1. \A v \in Workers : \A c \in ClaimedTask : c.doc = d => (c \in batch'[v] <=> c \in batch[v])
  BY DEF Finish, TypeOK
<1>2. \A v \in Workers : phase'[v] # "idle" /\ claim'[v].doc = d =>
        phase[v] # "idle" /\ claim'[v] = claim[v] /\ seen'[v] = seen[v]
  BY DEF Finish, TypeOK
<1> QED
  BY <1>1, <1>2 DEF Untouched

\* A handler commits.
LEMMA HandlerSerial ==
  ASSUME TypeOK, TypeOK', NEW CONSTANT d \in Docs, SerialDoc(d),
         NEW CONSTANT w \in Workers, HandlerSucceeds(w)
  PROVE  SerialDoc(d)'
<1>1. phase[w] = "handling" /\ seen[w] # "CANCELLED" /\ Finish(w)
  BY DEF HandlerSucceeds, Handling, budgets, HandleValidate, HandlePdfExtract, HandleOcr,
         HandleClassify, HandleEmbed, HandleGraph, HandleFinalize
<1>2. PICK c \in batch[w] : c = claim[w]
  BY <1>1 DEF TypeOK
<1>3. c \in ClaimedTask /\ c.doc \in Docs /\ c.stage \in ProcessingStage /\ RowOf(c) = <<c.doc, c.stage>>
  BY RowOfType DEF TypeOK, RowOf
<1>4. ASSUME NEW from, NEW to, MoveDocument(w, from, to)
      PROVE  /\ status'[c.doc] = IF seen[w] = from THEN to ELSE seen[w]
             /\ \A e \in Docs : e # c.doc => status'[e] = status[e]
  BY <1>2, <1>3, <1>4 DEF MoveDocument, TypeOK
<1>5. CASE c.doc # d
  <2>1. status'[d] = status[d]
    <3>1. CASE HandleGraph(w)
      BY <3>1 DEF HandleGraph
    <3>2. CASE ~HandleGraph(w)
      <4>1. PICK from, to : MoveDocument(w, from, to)
        BY <3>2 DEF HandlerSucceeds, HandleValidate, HandlePdfExtract, HandleOcr, HandleClassify,
           HandleEmbed, HandleFinalize
      <4> QED
        BY <1>4, <1>5, <4>1
    <3> QED
      BY <3>1, <3>2
  <2>2. job'[d] = job[d] /\ \A s \in ProcessingStage : task'[<<d, s>>] = task[<<d, s>>]
    <3>1. CASE HandleFinalize(w)
      BY <1>2, <1>3, <1>5, <3>1 DEF HandleFinalize, TypeOK, Tasks
    <3>2. CASE ~HandleFinalize(w)
      <4>1. PICK next \in ProcessingStage : ChainTo(w, next)
        BY <3>2 DEF HandlerSucceeds, HandleValidate, HandlePdfExtract, HandleOcr, HandleClassify,
           HandleEmbed, HandleGraph, ProcessingStage
      <4>2. task' = [task EXCEPT ![RowOf(c)] = Released(task[RowOf(c)], "succeeded"),
                                 ![<<c.doc, next>>] = Enqueued]
        BY <1>2, <4>1 DEF ChainTo
      <4> QED
        BY <1>2, <1>3, <1>5, <4>1, <4>2 DEF ChainTo, TypeOK, Tasks
    <3> QED
      BY <3>1, <3>2
  <2>3. Untouched(d)
    BY <1>1, <1>2, <1>5, <2>1, <2>2, Elsewhere
  <2> QED
    BY <2>3, Frame
<1>6. CASE c.doc = d
  <2>1. seen[w] = Entry(c.stage) /\ status[d] \in {seen[w], "CANCELLED"}
    BY <1>1, <1>2, <1>6 DEF SerialDoc, Aware
  <2>2. CASE HandleFinalize(w)
    <3>1. c.stage = "finalize" /\ seen[w] = "EMBEDDING"
      BY <1>2, <2>1, <2>2 DEF HandleFinalize, Handling, Entry
    <3>2. status'[d] \in TerminalStates
      BY <1>4, <1>6, <2>2, <3>1 DEF HandleFinalize, TerminalStates
    <3>3. task' = [task EXCEPT ![RowOf(c)] = Released(task[RowOf(c)], "succeeded")]
      BY <1>2, <2>2 DEF HandleFinalize
    <3>4. job'[d].stage = c.stage /\ job'[d].status = "succeeded"
      BY <1>2, <1>6, <2>2, <3>1 DEF HandleFinalize, TypeOK
    <3> QED
      BY <1>1, <1>2, <1>6, <3>2, <3>3, <3>4, EndsSerial
  <2>3. CASE HandleGraph(w)
    <3>1. c.stage = "graph" /\ ChainTo(w, "finalize") /\ status' = status
      BY <1>2, <2>3 DEF HandleGraph, Handling
    <3>2. status'[d] \in {Entry("finalize"), "CANCELLED"} /\ "finalize" \in ProcessingStage
      BY <2>1, <3>1 DEF Entry, ProcessingStage
    <3> QED
      BY <1>1, <1>2, <1>6, <3>1, <3>2, ChainsSerial
  <2>4. CASE ~HandleFinalize(w) /\ ~HandleGraph(w)
    <3>1. PICK next \in ProcessingStage :
            /\ ChainTo(w, next) /\ next # c.stage
            /\ MoveDocument(w, Entry(c.stage), Entry(next))
      BY <1>2, <2>4 DEF HandlerSucceeds, Handling, HandleValidate, HandlePdfExtract, HandleOcr,
         HandleClassify, HandleEmbed, ProcessingStage, Entry
    <3>2. status'[d] \in {Entry(next), "CANCELLED"}
      BY <1>4, <1>6, <2>1, <3>1
    <3> QED
      BY <1>1, <1>2, <1>6, <3>1, <3>2, ChainsSerial
  <2> QED
    BY <2>2, <2>3, <2>4
<1> QED
  BY <1>5, <1>6

\* A task is put back for a retry.
LEMMA RetrySerial ==
  ASSUME TypeOK, TypeOK', NEW CONSTANT d \in Docs, SerialDoc(d),
         NEW CONSTANT w \in Workers, RetryLater(w)
  PROVE  SerialDoc(d)'
<1>1. /\ phase[w] = "handling" /\ Finish(w)
      /\ UNCHANGED <<status, job>>
      /\ MayRetry(claim[w])
  BY DEF RetryLater, docVars, budgets
<1>2. PICK c \in batch[w] : c = claim[w]
  BY <1>1 DEF TypeOK
<1>3. c \in ClaimedTask /\ c.doc \in Docs /\ c.stage \in ProcessingStage /\ RowOf(c) = <<c.doc, c.stage>> /\ RowOf(c) \in Tasks
  BY RowOfType DEF TypeOK, RowOf
<1>4. task' = [task EXCEPT ![RowOf(c)] = Released(task[RowOf(c)], "pending")]
  BY <1>2 DEF RetryLater
<1>5. CASE c.doc # d
  <2>1. \A s \in ProcessingStage : task'[<<d, s>>] = task[<<d, s>>]
    BY <1>3, <1>4, <1>5 DEF TypeOK, Tasks
  <2> QED
    BY <1>1, <1>2, <1>5, <2>1, Elsewhere, Frame
<1>6. CASE c.doc = d
  <2>1. /\ task[RowOf(c)].status = "running" /\ task[RowOf(c)].attempts = c.attempts
        /\ \A s \in ProcessingStage : Live(<<d, s>>) <=> s = c.stage
        /\ \A s \in ProcessingStage : task[<<d, s>>].status # "dead"
    BY <1>6, Alone
  <2>2. /\ Released(task[RowOf(c)], "pending").status = "pending"
        /\ Released(task[RowOf(c)], "pending").attempts = task[RowOf(c)].attempts
    BY <1>3, ReleasedType DEF TypeOK, TaskStatus
  <2>3. /\ task'[<<d, c.stage>>].status = "pending"
        /\ task'[<<d, c.stage>>].attempts = c.attempts
        /\ \A s \in ProcessingStage : s # c.stage => task'[<<d, s>>] = task[<<d, s>>]
    BY <1>3, <1>4, <1>6, <2>1, <2>2 DEF TypeOK, Tasks
  <2>4. \A s \in ProcessingStage : Live(<<d, s>>)' <=> s = c.stage
    BY <2>1, <2>3 DEF Live
  <2>5. \A s \in ProcessingStage : task'[<<d, s>>].status # "dead"
    BY <2>1, <2>3
  <2>6. OneLive(d)' /\ DeadIsLast(d)' /\ Attended(d)'
    BY <1>3, <2>4, <2>5 DEF OneLive, DeadIsLast, Attended
  <2>7. InStep(d)'
    BY <1>1, <2>1, <2>4 DEF SerialDoc, InStep
  <2>8. JobAgrees(d)'
    <3>1. job[d].stage \in ProcessingStage
      BY DEF TypeOK, JobRow
    <3>2. job[d].status = "succeeded" => job[d].stage # c.stage
      BY <1>3, <1>6, <2>1 DEF SerialDoc, JobAgrees
    <3>3. job[d].status # "failed"
      BY <2>1 DEF SerialDoc, JobAgrees
    <3>4. job[d].status = "succeeded" => task[<<d, job[d].stage>>].status = "succeeded"
      BY DEF SerialDoc, JobAgrees
    <3> QED
      BY <1>1, <2>3, <2>5, <3>1, <3>2, <3>3, <3>4 DEF JobAgrees
  <2>10. Leased(d)' /\ Aware(d)'
    BY <1>1, <1>2, <1>6, NobodyLeft
  <2> QED
    BY <2>6, <2>7, <2>8, <2>10 DEF SerialDoc
<1> QED
  BY <1>5, <1>6

\* A cancelled document's task is closed, or a task is dead-lettered.
LEMMA StopSerial ==
  ASSUME TypeOK, TypeOK', NEW CONSTANT d \in Docs, SerialDoc(d),
         NEW CONSTANT w \in Workers, HandlerStops(w) \/ BuryTask(w)
  PROVE  SerialDoc(d)'
<1>1. phase[w] # "idle" /\ Finish(w)
  BY DEF HandlerStops, BuryTask, budgets
<1>2. PICK c \in batch[w] : c = claim[w]
  BY <1>1 DEF TypeOK
<1>3. c \in ClaimedTask /\ c.doc \in Docs /\ c.stage \in ProcessingStage /\ RowOf(c) = <<c.doc, c.stage>> /\ RowOf(c) \in Tasks
  BY RowOfType DEF TypeOK, RowOf
<1>4. CASE c.doc # d
  <2>1. \A s \in ProcessingStage : task'[<<d, s>>] = task[<<d, s>>]
    BY <1>2, <1>3, <1>4 DEF HandlerStops, BuryTask, TypeOK, Tasks
  <2>2. status'[d] = status[d] /\ job'[d] = job[d]
    <3>1. CASE HandlerStops(w)
      BY <3>1 DEF HandlerStops, docVars
    <3>2. CASE BuryTask(w)
      BY <1>2, <1>4, <3>2 DEF BuryTask, TypeOK
    <3> QED
      BY <3>1, <3>2
  <2> QED
    BY <1>1, <1>2, <1>4, <2>1, <2>2, Elsewhere, Frame
<1>5. CASE c.doc = d
  <2>1. seen[w] \in {Entry(c.stage), "CANCELLED"} /\ status[d] \in {seen[w], "CANCELLED"}
    BY <1>1, <1>2, <1>5 DEF SerialDoc, Aware
  <2>2. CASE HandlerStops(w)
    <3>1. task' = [task EXCEPT ![RowOf(c)] = Released(task[RowOf(c)], "succeeded")] /\ job' = job
      BY <1>2, <2>2 DEF HandlerStops, docVars
    <3>2. status'[d] \in TerminalStates
      BY <2>1, <2>2 DEF HandlerStops, docVars, TerminalStates
    <3> QED
      BY <1>1, <1>2, <1>5, <3>1, <3>2, EndsSerial
  <2>3. CASE BuryTask(w)
    <3>1. task' = [task EXCEPT ![RowOf(c)] = Released(task[RowOf(c)], "dead")]
      BY <1>2, <2>3 DEF BuryTask
    <3>2. job'[d].status = "failed"
      BY <1>2, <1>5, <2>3 DEF BuryTask, TypeOK, JobRow
    <3>3. Entry(c.stage) \notin TerminalStates
      BY DEF Entry, TerminalStates
    <3>4. status'[d] \in TerminalStates
      BY <1>2, <1>5, <2>1, <2>3, <3>3 DEF BuryTask, TypeOK, TerminalStates
    <3> QED
      BY <1>1, <1>2, <1>5, <3>1, <3>2, <3>4, EndsSerial
  <2> QED
    BY <2>2, <2>3
<1> QED
  BY <1>4, <1>5

-----------------------------------------------------------------------------
(* Steps that take a task up                                               *)

\* A worker claims a batch of due rows.
LEMMA ClaimSerial ==
  ASSUME TypeOK, TypeOK', NEW CONSTANT d \in Docs, SerialDoc(d),
         NEW CONSTANT w \in Workers, NEW CONSTANT due \in SUBSET Tasks, due \subseteq Pending, Claim(w, due)
  PROVE  SerialDoc(d)'
<1>1. /\ UNCHANGED <<status, job, phase, claim, seen>>
      /\ batch[w] = {}
  BY DEF Claim, Free, docVars
<1>2. \A t \in due : task[t].status = "pending" /\ task[t] \in TaskRow
  BY DEF Pending, TypeOK
<1>3. /\ \A t \in Tasks \ due : task'[t] = task[t]
      /\ \A t \in due : /\ task'[t].status = "running" /\ task'[t].lockedBy = w
                        /\ task'[t].attempts = task[t].attempts + 1
  BY <1>2, ClaimedType DEF Claim
<1>4. \A s \in ProcessingStage : <<d, s>> \in Tasks
  BY DEF Tasks
<1>5. /\ \A s \in ProcessingStage : Live(<<d, s>>)' <=> Live(<<d, s>>)
      /\ \A s \in ProcessingStage : task'[<<d, s>>].status = "dead" <=> task[<<d, s>>].status = "dead"
      /\ \A s \in ProcessingStage : task'[<<d, s>>].status = "succeeded" <=> task[<<d, s>>].status = "succeeded"
  BY <1>2, <1>3, <1>4 DEF Live
<1>6. OneLive(d)' /\ InStep(d)' /\ Attended(d)' /\ DeadIsLast(d)'
  BY <1>1, <1>5 DEF SerialDoc, OneLive, InStep, Attended, DeadIsLast, InProgress
<1>7. Aware(d)'
  BY <1>1 DEF SerialDoc, Aware
<1>8. JobAgrees(d)'
  <2>1. job[d].stage \in ProcessingStage
    BY DEF TypeOK, JobRow
  <2> QED
    BY <1>1, <1>5, <2>1 DEF SerialDoc, JobAgrees
<1>9. batch'[w] = {[doc |-> t[1], stage |-> t[2], attempts |-> task[t].attempts + 1] : t \in due}
      /\ \A v \in Workers : v # w => batch'[v] = batch[v]
  BY DEF Claim, TypeOK
<1>10. \A v \in Workers : \A c \in batch[v] : c.doc = d =>
         RowOf(c) \in Tasks \ due /\ RowOf(c) = <<d, c.stage>> /\ c.stage \in ProcessingStage
  <2> SUFFICES ASSUME NEW v \in Workers, NEW c \in batch[v], c.doc = d
               PROVE  RowOf(c) \in Tasks \ due /\ RowOf(c) = <<d, c.stage>> /\ c.stage \in ProcessingStage
    OBVIOUS
  <2>1. c \in ClaimedTask
    BY DEF TypeOK
  <2>2. task[RowOf(c)].status = "running"
    BY DEF SerialDoc, Leased
  <2> QED
    BY <1>2, <2>1, <2>2, RowOfType DEF RowOf
<1>11. Leased(d)'
  <2> SUFFICES ASSUME NEW CONSTANT v \in Workers, NEW CONSTANT c \in batch'[v], c.doc = d
               PROVE  task'[RowOf(c)].status = "running" /\ task'[RowOf(c)].lockedBy = v
                      /\ task'[RowOf(c)].attempts = c.attempts
    BY DEF Leased, RowOf
  <2>1. CASE v = w
    <3>1. PICK t \in due : c = [doc |-> t[1], stage |-> t[2], attempts |-> task[t].attempts + 1]
      BY <1>9, <2>1
    <3>2. RowOf(c) = t /\ c.attempts = task[t].attempts + 1
      BY <3>1 DEF RowOf, Tasks
    <3> QED
      BY <1>3, <2>1, <3>2
  <2>2. CASE v # w
    <3>1. c \in batch[v]
      BY <1>9, <2>2
    <3>2. task'[RowOf(c)] = task[RowOf(c)]
      BY <1>3, <1>10, <3>1
    <3> QED
      BY <3>1, <3>2 DEF SerialDoc, Leased
  <2> QED
    BY <2>1, <2>2
<1> QED
  BY <1>6, <1>7, <1>8, <1>11 DEF SerialDoc

\* A worker reads the document of its task, as the handler or as the failure
\* path.
LEMMA ReadSerial ==
  ASSUME TypeOK, TypeOK', NEW CONSTANT d \in Docs, SerialDoc(d),
         NEW CONSTANT w \in Workers, NEW CONSTANT c \in batch[w], claim'[w] = c, phase'[w] # "idle",
         seen'[w] = status[c.doc],
         \A v \in Workers : v # w => phase'[v] = phase[v] /\ claim'[v] = claim[v] /\ seen'[v] = seen[v],
         UNCHANGED <<status, job, task, batch>>
  PROVE  SerialDoc(d)'
<1>1. CASE c.doc # d
  <2>1. \A v \in Workers : phase'[v] # "idle" /\ claim'[v].doc = d =>
          phase[v] # "idle" /\ claim'[v] = claim[v] /\ seen'[v] = seen[v]
    BY <1>1
  <2>2. Untouched(d)
    BY <2>1 DEF Untouched
  <2> QED
    BY <2>2, Frame
<1>2. CASE c.doc = d
  <2>1. /\ c.stage \in ProcessingStage /\ Live(<<d, c.stage>>)
        /\ \A v \in Workers : \A b \in batch[v] : b.doc = d => v = w /\ b = c
    BY <1>2, Alone
  <2>2. status[d] \in {Entry(c.stage), "CANCELLED"}
    BY <2>1 DEF SerialDoc, InStep
  <2>3. \A v \in Workers : phase'[v] # "idle" /\ claim'[v].doc = d => v = w
    BY <2>1 DEF TypeOK
  <2>4. Aware(d)'
    BY <1>2, <2>2, <2>3 DEF Aware
  <2>5. OneLive(d)' /\ InStep(d)' /\ Attended(d)' /\ DeadIsLast(d)' /\ JobAgrees(d)'
    BY DEF SerialDoc, OneLive, InStep, Attended, DeadIsLast, JobAgrees, Live, InProgress
  <2>6. Leased(d)'
    BY DEF SerialDoc, Leased, RowOf
  <2> QED
    BY <2>4, <2>5, <2>6 DEF SerialDoc
<1> QED
  BY <1>1, <1>2

-----------------------------------------------------------------------------
(* Crashes and leases                                                      *)

\* A worker loses its batch: its rows stay running.
LEMMA CrashSerial ==
  ASSUME TypeOK, TypeOK', NEW CONSTANT d \in Docs, SerialDoc(d),
         NEW CONSTANT w \in Workers, Crash(w)
  PROVE  SerialDoc(d)'
<1>1. UNCHANGED <<status, job, task>>
  BY DEF Crash, docVars
<1>2. \A v \in Workers : batch'[v] \subseteq batch[v]
  BY DEF Crash, TypeOK
<1>3. \A v \in Workers : phase'[v] # "idle" => phase[v] # "idle" /\ claim'[v] = claim[v] /\ seen'[v] = seen[v]
  BY DEF Crash, TypeOK
<1>4. OneLive(d)' /\ InStep(d)' /\ Attended(d)' /\ DeadIsLast(d)' /\ JobAgrees(d)'
  BY <1>1 DEF SerialDoc, OneLive, InStep, Attended, DeadIsLast, JobAgrees, Live, InProgress
<1>5. Leased(d)'
  BY <1>1, <1>2 DEF SerialDoc, Leased, RowOf
<1>6. Aware(d)'
  BY <1>1, <1>3 DEF SerialDoc, Aware
<1> QED
  BY <1>4, <1>5, <1>6 DEF SerialDoc

\* Expired rows are put back.  Leases outlive the work, so that none of them
\* is in a worker's batch.
LEMMA ReclaimSerial ==
  ASSUME TypeOK, TypeOK', NEW CONSTANT d \in Docs, SerialDoc(d),
         NEW CONSTANT expired \in SUBSET Tasks, expired \subseteq Running, Reclaim(expired),
         \A w \in Workers : Held(w) \cap expired = {}
  PROVE  SerialDoc(d)'
<1>1. UNCHANGED <<status, job, batch, phase, claim, seen>>
  BY DEF Reclaim, docVars, workerVars
<1>2. \A t \in expired : task[t].status = "running" /\ task[t] \in TaskRow
  BY DEF Running, TypeOK
<1>3. /\ \A t \in Tasks \ expired : task'[t] = task[t]
      /\ \A t \in expired : task'[t].status = "pending" /\ task'[t].attempts = task[t].attempts
  BY <1>2, ReleasedType DEF Reclaim, TaskStatus
<1>4. \A s \in ProcessingStage : <<d, s>> \in Tasks
  BY DEF Tasks
<1>5. /\ \A s \in ProcessingStage : Live(<<d, s>>)' <=> Live(<<d, s>>)
      /\ \A s \in ProcessingStage : task'[<<d, s>>].status = "dead" <=> task[<<d, s>>].status = "dead"
      /\ \A s \in ProcessingStage : task'[<<d, s>>].status = "succeeded" <=> task[<<d, s>>].status = "succeeded"
  BY <1>2, <1>3, <1>4 DEF Live
<1>6. OneLive(d)' /\ InStep(d)' /\ Attended(d)' /\ DeadIsLast(d)'
  BY <1>1, <1>5 DEF SerialDoc, OneLive, InStep, Attended, DeadIsLast, InProgress
<1>7. Aware(d)'
  BY <1>1 DEF SerialDoc, Aware
<1>8. JobAgrees(d)'
  <2>1. job[d].stage \in ProcessingStage
    BY DEF TypeOK, JobRow
  <2> QED
    BY <1>1, <1>5, <2>1 DEF SerialDoc, JobAgrees
<1>9. \A t \in expired, w \in Workers : task[t].lockedBy = w => \A c \in batch[w] : RowOf(c) # t
  <2> SUFFICES ASSUME NEW t \in expired, NEW w \in Workers, task[t].lockedBy = w,
                      NEW c \in batch[w], RowOf(c) = t
               PROVE  FALSE
    OBVIOUS
  <2>1. t \in Held(w)
    BY DEF Held
  <2> QED
    BY <2>1
<1>10. Leased(d)'
  <2> SUFFICES ASSUME NEW CONSTANT w \in Workers, NEW CONSTANT c \in batch[w], c.doc = d
               PROVE  task'[RowOf(c)].status = "running" /\ task'[RowOf(c)].lockedBy = w
                      /\ task'[RowOf(c)].attempts = c.attempts
    BY <1>1 DEF Leased, RowOf
  <2>1. /\ task[RowOf(c)].status = "running" /\ task[RowOf(c)].lockedBy = w
        /\ task[RowOf(c)].attempts = c.attempts
    BY DEF SerialDoc, Leased
  <2>2. RowOf(c) \in Tasks \ expired
    BY <1>9, <2>1, RowOfType DEF TypeOK
  <2> QED
    BY <1>3, <2>1, <2>2
<1> QED
  BY <1>6, <1>7, <1>8, <1>10 DEF SerialDoc

-----------------------------------------------------------------------------
(* Requests                                                                *)

\* A document is uploaded.
LEMMA UploadSerial ==
  ASSUME TypeOK, TypeOK', HistoryInv, NEW CONSTANT d \in Docs, SerialDoc(d),
         NEW CONSTANT e \in Docs, Upload(e)
  PROVE  SerialDoc(d)'
<1>1. UNCHANGED <<job, batch, phase, claim, seen>>
  BY DEF Upload, workerVars, budgets
<1>2. task' = [task EXCEPT ![<<e, "validate">>] = Enqueued] /\ status' = [status EXCEPT ![e] = "UPLOADED"]
  BY DEF Upload
<1>3. CASE e # d
  <2>1. status'[d] = status[d] /\ \A s \in ProcessingStage : task'[<<d, s>>] = task[<<d, s>>]
    BY <1>2, <1>3 DEF TypeOK, Tasks
  <2>2. Untouched(d)
    BY <1>1, <2>1 DEF Untouched
  <2> QED
    BY <2>2, Frame
<1>4. CASE e = d
  <2>1. \A s \in ProcessingStage : task[<<d, s>>].status = "absent"
    BY <1>4 DEF HistoryInv, AbsentHasNoTask, Upload, Exists
  <2>2. \A w \in Workers : \A c \in batch[w] : c.doc # d
    <3> SUFFICES ASSUME NEW w \in Workers, NEW c \in batch[w], c.doc = d
                 PROVE  FALSE
      OBVIOUS
    <3>1. c \in ClaimedTask
      BY DEF TypeOK
    <3>2. RowOf(c) = <<d, c.stage>> /\ c.stage \in ProcessingStage /\ Exists(RowOf(c))
      BY <3>1, RowOfType DEF RowOf, HistoryInv, BatchHasRows
    <3> QED
      BY <2>1, <3>2 DEF Exists
  <2>3. "validate" \in ProcessingStage /\ \A s \in ProcessingStage : <<d, s>> \in Tasks
    BY DEF ProcessingStage, Tasks
  <2>4. /\ status'[d] = "UPLOADED"
        /\ task'[<<d, "validate">>].status = "pending" /\ task'[<<d, "validate">>].attempts = 0
        /\ \A s \in ProcessingStage : s # "validate" => task'[<<d, s>>] = task[<<d, s>>]
    BY <1>2, <1>4, <2>3, EnqueuedType DEF TypeOK
  <2>5. \A s \in ProcessingStage : Live(<<d, s>>)' <=> s = "validate"
    BY <2>1, <2>3, <2>4 DEF Live
  <2>6. \A s \in ProcessingStage : task'[<<d, s>>].status # "dead" /\ task[<<d, s>>].status # "dead"
    BY <2>1, <2>4
  <2>7. OneLive(d)' /\ Attended(d)' /\ DeadIsLast(d)'
    BY <2>3, <2>5, <2>6 DEF OneLive, Attended, DeadIsLast
  <2>8. Entry("validate") = "UPLOADED"
    BY DEF Entry
  <2>9. InStep(d)'
    BY <2>4, <2>5, <2>8 DEF InStep
  <2>10. JobAgrees(d)'
    <3>1. job[d].status # "succeeded" /\ job[d].status # "failed"
      BY <2>1, <2>6 DEF SerialDoc, JobAgrees, TypeOK, JobRow
    <3> QED
      BY <1>1, <2>6, <3>1 DEF JobAgrees
  <2>11. Leased(d)' /\ Aware(d)'
    <3>1. \A w \in Workers : phase'[w] # "idle" => claim'[w].doc # d
      BY <1>1, <2>2 DEF TypeOK
    <3> QED
      BY <1>1, <2>2, <3>1 DEF Leased, Aware
  <2> QED
    BY <2>7, <2>9, <2>10, <2>11 DEF SerialDoc
<1> QED
  BY <1>3, <1>4

\* A cancellation is committed.
LEMMA CancelSerial ==
  ASSUME TypeOK, TypeOK', NEW CONSTANT d \in Docs, SerialDoc(d),
         NEW CONSTANT c \in Clients, CommitCancel(c)
  PROVE  SerialDoc(d)'
<1>1. UNCHANGED <<job, task, batch, phase, claim, seen>>
  BY DEF CommitCancel, workerVars, budgets
<1>2. CASE status'[d] = status[d]
  BY <1>1, <1>2, Frame DEF Untouched
<1>3. CASE status'[d] # status[d]
  <2>1. status'[d] = "CANCELLED"
    BY <1>3 DEF CommitCancel, TypeOK
  <2>2. OneLive(d)' /\ InStep(d)' /\ DeadIsLast(d)' /\ JobAgrees(d)'
    BY <1>1, <2>1 DEF SerialDoc, OneLive, InStep, DeadIsLast, JobAgrees, Live
  <2>3. Attended(d)'
    BY <2>1 DEF Attended, InProgress, Finished, TerminalStates
  <2>4. Leased(d)'
    BY <1>1 DEF SerialDoc, Leased, RowOf
  <2>5. Aware(d)'
    BY <1>1, <2>1 DEF SerialDoc, Aware
  <2> QED
    BY <2>2, <2>3, <2>4, <2>5 DEF SerialDoc
<1> QED
  BY <1>2, <1>3

\* Steps that change neither rows nor statuses: a client reads a document for
\* a request, or nothing happens.
LEMMA IdleSerial ==
  ASSUME TypeOK, TypeOK', NEW CONSTANT d \in Docs, SerialDoc(d),
         UNCHANGED <<docVars, task, workerVars>>
  PROVE  SerialDoc(d)'
<1>1. Untouched(d)
  BY DEF Untouched, docVars, workerVars
<1> QED
  BY <1>1, Frame

\* A reprocess request does not touch the other documents.
LEMMA ReprocessSerial ==
  ASSUME TypeOK, TypeOK', NEW CONSTANT d \in Docs, SerialDoc(d),
         NEW CONSTANT c \in Clients, CommitReprocess(c), NeverReprocessed(d)'
  PROVE  SerialDoc(d)'
<1> DEFINE e == request[c].doc
<1>1. e \in Docs
  BY DEF CommitReprocess, InFlight, TypeOK, Request
<1>2. e # d
  <2> SUFFICES ASSUME e = d PROVE FALSE
    OBVIOUS
  <2>1. "reprocess" \in audit'[d]
    BY DEF CommitReprocess, TypeOK
  <2> QED
    BY <2>1 DEF NeverReprocessed
<1>3. task' = [task EXCEPT ![<<e, "validate">>] = Enqueued]
  BY DEF CommitReprocess
<1>4. status'[d] = status[d] /\ \A s \in ProcessingStage : task'[<<d, s>>] = task[<<d, s>>]
  BY <1>1, <1>2, <1>3 DEF CommitReprocess, TypeOK, Tasks
<1>5. Untouched(d)
  BY <1>4 DEF CommitReprocess, Untouched, workerVars, budgets
<1> QED
  BY <1>5, Frame

-----------------------------------------------------------------------------
(* The theorem                                                             *)

\* Every step keeps SerialInv, if no lease may run out under its worker.
LEMMA SerialStep ==
  ASSUME MaxOverruns = 0, TypeOK, TypeOK', HistoryInv, SerialInv, [Next]_vars
  PROVE  SerialInv'
<1>1. ASSUME NEW expired \in SUBSET Running, Reclaim(expired)
      PROVE  overruns' = 0 /\ \A w \in Workers : Held(w) \cap expired = {}
  <2>1. Cardinality(Overrun(expired)) = 0
    BY <1>1, OverrunType DEF Reclaim, SerialInv
  <2>2. Overrun(expired) = {}
    BY <2>1, OverrunType
  <2>3. overruns' = 0
    BY <1>1, <2>1 DEF Reclaim, SerialInv
  <2> QED
    BY <2>2, <2>3 DEF Overrun
<1>2. overruns' = 0
  <2>1. ASSUME NEW w \in Workers, WorkerStep(w)
        PROVE  overruns' = overruns
    BY <2>1 DEF WorkerStep, budgets, Claim, BeginStage, HandlerSucceeds, Handling, HandleValidate, HandlePdfExtract,
       HandleOcr, HandleClassify, HandleEmbed, HandleGraph, HandleFinalize, HandlerStops, RetryLater,
       GiveUp, BuryTask, Crash
  <2>2. ASSUME NEW c \in Clients, ClientStep(c)
        PROVE  overruns' = overruns
    BY <2>2 DEF ClientStep, budgets, BeginCancel, BeginReprocess, CommitCancel, CommitReprocess
  <2>3. ASSUME NEW e \in Docs, Upload(e)
        PROVE  overruns' = overruns
    BY <2>3 DEF Upload, budgets
  <2>4. CASE UNCHANGED vars
    BY <2>4 DEF vars, budgets, SerialInv
  <2>5. overruns = 0
    BY DEF SerialInv
  <2> QED
    BY <1>1, <2>1, <2>2, <2>3, <2>4, <2>5 DEF Next
<1>3. ASSUME NEW CONSTANT d \in Docs, NeverReprocessed(d)'
      PROVE  SerialDoc(d)'
  <2>1. SerialDoc(d)
    BY <1>3, AuditGrows DEF SerialInv, NeverReprocessed
  <2>2. ASSUME NEW CONSTANT w \in Workers, WorkerStep(w)
        PROVE  SerialDoc(d)'
    <3>1. ASSUME NEW CONSTANT due \in SUBSET Pending, Claim(w, due)
          PROVE  SerialDoc(d)'
      <4>1. due \in SUBSET Tasks /\ due \subseteq Pending
        BY DEF Pending
      <4> QED
        BY <2>1, <3>1, <4>1, ClaimSerial
    <3>2. ASSUME NEW CONSTANT c \in batch[w], BeginStage(w, c)
          PROVE  SerialDoc(d)'
      <4>1. /\ claim'[w] = c /\ phase'[w] # "idle" /\ seen'[w] = status[c.doc]
            /\ \A v \in Workers : v # w => phase'[v] = phase[v] /\ claim'[v] = claim[v] /\ seen'[v] = seen[v]
            /\ UNCHANGED <<status, job, task, batch>>
        BY <3>2 DEF BeginStage, TypeOK, docVars, budgets
      <4> QED
        BY <2>1, <4>1, ReadSerial
    <3>3. CASE GiveUp(w)
      <4>1. PICK c \in batch[w] : c = claim[w]
        BY <3>3 DEF GiveUp, TypeOK
      <4>2. /\ claim'[w] = c /\ phase'[w] # "idle" /\ seen'[w] = status[c.doc]
            /\ \A v \in Workers : v # w => phase'[v] = phase[v] /\ claim'[v] = claim[v] /\ seen'[v] = seen[v]
            /\ UNCHANGED <<status, job, task, batch>>
        BY <3>3, <4>1 DEF GiveUp, TypeOK, docVars, budgets
      <4> QED
        BY <2>1, <4>2, ReadSerial
    <3>4. CASE HandlerSucceeds(w)
      BY <2>1, <3>4, HandlerSerial
    <3>5. CASE HandlerStops(w) \/ BuryTask(w)
      BY <2>1, <3>5, StopSerial
    <3>6. CASE RetryLater(w)
      BY <2>1, <3>6, RetrySerial
    <3>7. CASE Crash(w)
      BY <2>1, <3>7, CrashSerial
    <3> QED
      BY <2>2, <3>1, <3>2, <3>3, <3>4, <3>5, <3>6, <3>7 DEF WorkerStep
  <2>3. ASSUME NEW CONSTANT expired \in SUBSET Running, Reclaim(expired)
        PROVE  SerialDoc(d)'
    <3>1. expired \in SUBSET Tasks /\ expired \subseteq Running
      BY DEF Running
    <3>2. \A w \in Workers : Held(w) \cap expired = {}
      BY <1>1, <2>3
    <3> QED
      BY <2>1, <2>3, <3>1, <3>2, ReclaimSerial
  <2>4. ASSUME NEW CONSTANT e \in Docs, Upload(e)
        PROVE  SerialDoc(d)'
    BY <2>1, <2>4, UploadSerial
  <2>5. ASSUME NEW CONSTANT c \in Clients, ClientStep(c)
        PROVE  SerialDoc(d)'
    <3>1. CASE CommitCancel(c)
      BY <2>1, <3>1, CancelSerial
    <3>2. CASE CommitReprocess(c)
      BY <1>3, <2>1, <3>2, ReprocessSerial
    <3>3. ASSUME NEW e \in Docs, BeginCancel(c, e) \/ BeginReprocess(c, e)
          PROVE  UNCHANGED <<docVars, task, workerVars>>
      BY <3>3 DEF BeginCancel, BeginReprocess
    <3> QED
      BY <2>1, <2>5, <3>1, <3>2, <3>3, IdleSerial DEF ClientStep
  <2>6. CASE UNCHANGED vars
    BY <2>1, <2>6, IdleSerial DEF vars, budgets
  <2> QED
    BY <2>2, <2>3, <2>4, <2>5, <2>6 DEF Next
<1> QED
  BY <1>2, <1>3 DEF SerialInv

\* With leases that outlive the work, through any crashes, retries and
\* cancellations: the chain of a document that was not reprocessed never
\* forks, a claimed task is leased to its worker alone, the job row agrees
\* with the queue, and a document that is not terminal has a row in the queue.
THEOREM SerialPipelineIsSafe ==
  ASSUME MaxOverruns = 0
  PROVE  Spec => [](OneStageAtATime /\ ClaimsAreExclusive /\ JobTracksQueue
                    /\ NoStrandedDocument)
<1>1. Init => SerialInv
  <2> SUFFICES ASSUME Init, NEW CONSTANT d \in Docs
               PROVE  SerialDoc(d)
    BY DEF SerialInv, Init
  <2>1. /\ \A s \in ProcessingStage : task[<<d, s>>].status = "absent" /\ task[<<d, s>>].attempts = 0
        /\ \A w \in Workers : batch[w] = {} /\ phase[w] = "idle"
        /\ status[d] = Absent /\ job[d].status = "none" /\ overruns = 0
    BY DEF Init, NoRow, Tasks
  <2>2. OneLive(d) /\ Leased(d) /\ InStep(d) /\ Aware(d) /\ Attended(d) /\ DeadIsLast(d) /\ JobAgrees(d)
    <3>1. OneLive(d) /\ InStep(d) /\ DeadIsLast(d) /\ JobAgrees(d)
      BY <2>1 DEF OneLive, InStep, DeadIsLast, JobAgrees, Live
    <3>2. Leased(d) /\ Aware(d)
      BY <2>1 DEF Leased, Aware
    <3>3. Attended(d)
      BY <2>1 DEF Attended, InProgress, Finished
    <3> QED
      BY <3>1, <3>2, <3>3
  <2> QED
    BY <2>1, <2>2 DEF SerialDoc
<1>2. TypeOK /\ TypeOK' /\ HistoryInv /\ SerialInv /\ [Next]_vars => SerialInv'
  BY SerialStep
<1>3. Spec => []SerialInv
  BY <1>1, <1>2, TypeCorrect, HistoryHolds, PTL DEF Spec
<1> QED
  BY <1>3, TypeCorrect, SerialImplies, PTL

-----------------------------------------------------------------------------
(* The pipeline implements DocumentLifecycle when leases outlive the work, *)
(* nothing is cancelled and no two requests for a document overlap.  Any   *)
(* number of reprocess requests is allowed.  The invariant is about every  *)
(* document: until it is COMPLETED it has one chain, kept as in SerialDoc; *)
(* from then on nothing is said of its rows (reprocessing may fork its     *)
(* chain), since whoever has read it writes COMPLETED back.                *)

\* No two requests for the same document are in flight.
RequestsApart ==
  \A b, c \in Clients :
    request[b] # None /\ request[c] # None /\ request[b].doc = request[c].doc => b = c

\* A reopened document is validated again in status QUEUED.
Expected(d, s) == status[d] = Entry(s) \/ (s = "validate" /\ status[d] = "QUEUED")

\* What a worker holds in memory of d is d's status.
WorkersKnow(d) == \A w \in Workers : phase[w] # "idle" /\ claim[w].doc = d => seen[w] = status[d]

\* So is what a request holds, and only settled documents have one.
RequestsKnow(d) ==
  \A c \in Clients : request[c] # None /\ request[c].doc = d =>
    request[c].op = "reprocess" /\ request[c].seen = status[d] /\ status[d] \in {"FAILED", "COMPLETED"}

OneChain(d) == OneLive(d) /\ Leased(d) /\ \A s \in ProcessingStage : Live(<<d, s>>) => Expected(d, s)

LifeDoc(d) == WorkersKnow(d) /\ RequestsKnow(d) /\ (status[d] # "COMPLETED" => OneChain(d))

LifeInv == overruns = 0 /\ cancels = 0 /\ \A d \in Docs : LifeDoc(d)

\* The stages' statuses are none of the settled ones.
LEMMA ExpectedRuns ==
  ASSUME TypeOK, NEW d \in Docs, NEW s \in ProcessingStage, Expected(d, s)
  PROVE  status[d] \in ProcessingStatus \ TerminalStates /\ status[d] \notin {Absent, "FAILED", "COMPLETED", "CANCELLED"}
BY DEF Expected, Entry, ProcessingStatus, TerminalStates, Absent

\* A document that is not COMPLETED and whose task is at hand: the claim is
\* the only one, its row the only live one, and nobody has requested anything.
LEMMA OnlyClaim ==
  ASSUME TypeOK, NEW CONSTANT d \in Docs, LifeDoc(d), status[d] # "COMPLETED",
         NEW CONSTANT w \in Workers, NEW CONSTANT c \in batch[w], c.doc = d
  PROVE  /\ c \in ClaimedTask /\ c.stage \in ProcessingStage /\ RowOf(c) = <<d, c.stage>> /\ RowOf(c) \in Tasks
         /\ task[RowOf(c)].status = "running"
         /\ \A s \in ProcessingStage : Live(<<d, s>>) <=> s = c.stage
         /\ \A v \in Workers : \A b \in batch[v] : b.doc = d => v = w /\ b = c
         /\ Expected(d, c.stage)
         /\ \A b \in Clients : request[b] # None => request[b].doc # d
<1>1. c \in ClaimedTask /\ c.stage \in ProcessingStage /\ RowOf(c) = <<d, c.stage>> /\ RowOf(c) \in Tasks
  BY RowOfType DEF TypeOK, RowOf
<1>2. task[RowOf(c)].status = "running" /\ task[RowOf(c)].attempts = c.attempts /\ task[RowOf(c)].lockedBy = w
  BY DEF LifeDoc, OneChain, Leased
<1>3. \A s \in ProcessingStage : Live(<<d, s>>) <=> s = c.stage
  BY <1>1, <1>2 DEF LifeDoc, OneChain, OneLive, Live
<1>4. Expected(d, c.stage)
  BY <1>1, <1>3 DEF LifeDoc, OneChain
<1>5. ASSUME NEW v \in Workers, NEW b \in batch[v], b.doc = d
      PROVE  v = w /\ b = c
  <2>1. b \in ClaimedTask /\ b.stage \in ProcessingStage /\ RowOf(b) = <<d, b.stage>>
    BY <1>5, RowOfType DEF TypeOK, RowOf
  <2>2. task[RowOf(b)].status = "running" /\ task[RowOf(b)].attempts = b.attempts /\ task[RowOf(b)].lockedBy = v
    BY <1>5 DEF LifeDoc, OneChain, Leased
  <2>3. b.stage = c.stage
    BY <1>3, <2>1, <2>2 DEF Live
  <2> QED
    BY <1>1, <1>2, <1>5, <2>1, <2>2, <2>3 DEF ClaimedTask
<1>6. \A b \in Clients : request[b] # None => request[b].doc # d
  <2>1. status[d] \notin {"FAILED", "COMPLETED"}
    BY <1>1, <1>4, ExpectedRuns
  <2> QED
    BY <2>1 DEF LifeDoc, RequestsKnow
<1> QED
  BY <1>1, <1>2, <1>3, <1>4, <1>5, <1>6

\* What a step leaves alone when it is about other documents; claims and
\* requests of d may go.
Spared(d) ==
  /\ status'[d] = status[d]
  /\ \A s \in ProcessingStage : task'[<<d, s>>] = task[<<d, s>>]
  /\ \A w \in Workers : \A c \in ClaimedTask : c.doc = d /\ c \in batch'[w] => c \in batch[w]
  /\ \A w \in Workers : phase'[w] # "idle" /\ claim'[w].doc = d =>
       phase[w] # "idle" /\ claim'[w] = claim[w] /\ seen'[w] = seen[w]
  /\ \A c \in Clients : request'[c] # None /\ request'[c].doc = d => request'[c] = request[c]

LEMMA LifeFrame ==
  ASSUME TypeOK, TypeOK', NEW CONSTANT d \in Docs, LifeDoc(d), Spared(d)
  PROVE  LifeDoc(d)'
<1>1. WorkersKnow(d)' /\ RequestsKnow(d)'
  BY DEF LifeDoc, Spared, WorkersKnow, RequestsKnow
<1>2. ASSUME status'[d] # "COMPLETED"
      PROVE  OneChain(d)'
  <2>1. OneLive(d)' /\ \A s \in ProcessingStage : Live(<<d, s>>)' => Expected(d, s)'
    BY <1>2 DEF LifeDoc, Spared, OneChain, OneLive, Live, Expected
  <2>2. Leased(d)'
    <3> SUFFICES ASSUME NEW CONSTANT w \in Workers, NEW CONSTANT c \in batch'[w], c.doc = d
                 PROVE  task'[RowOf(c)].status = "running" /\ task'[RowOf(c)].lockedBy = w
                        /\ task'[RowOf(c)].attempts = c.attempts
      BY DEF Leased, RowOf
    <3>1. c \in ClaimedTask
      BY DEF TypeOK
    <3>2. c \in batch[w] /\ task'[RowOf(c)] = task[RowOf(c)]
      BY <3>1, RowOfType DEF Spared, RowOf
    <3> QED
      BY <1>2, <3>2 DEF LifeDoc, Spared, OneChain, Leased
  <2> QED
    BY <2>1, <2>2 DEF OneChain
<1> QED
  BY <1>1, <1>2 DEF LifeDoc

\* A document that is, and stays, COMPLETED.
LEMMA LifeCompleted ==
  ASSUME NEW CONSTANT d \in Docs, LifeDoc(d), status[d] = "COMPLETED", status'[d] = "COMPLETED",
         \A w \in Workers : phase'[w] # "idle" /\ claim'[w].doc = d =>
           \/ seen'[w] = "COMPLETED"
           \/ phase[w] # "idle" /\ claim'[w] = claim[w] /\ seen'[w] = seen[w],
         \A c \in Clients : request'[c] # None /\ request'[c].doc = d =>
           \/ request'[c] = request[c]
           \/ request'[c].op = "reprocess" /\ request'[c].seen = "COMPLETED"
  PROVE  LifeDoc(d)'
BY DEF LifeDoc, WorkersKnow, RequestsKnow

\* The worker of d's only claim finishes it: the document's live rows are
\* from now on the row `next`, if it is started, or none.
LEMMA LifeFinish ==
  ASSUME TypeOK, TypeOK', NEW CONSTANT d \in Docs, LifeDoc(d), status[d] # "COMPLETED",
         NEW CONSTANT w \in Workers, NEW CONSTANT c \in batch[w], c.doc = d, claim[w] = c, Finish(w),
         request' = request,
         \E next \in ProcessingStage :
           \A s \in ProcessingStage : Live(<<d, s>>)' => s = next /\ Expected(d, s)'
  PROVE  LifeDoc(d)'
<1>1. /\ \A v \in Workers : \A b \in batch[v] : b.doc = d => v = w /\ b = c
      /\ \A b \in Clients : request[b] # None => request[b].doc # d
  BY OnlyClaim
<1>2. \A v \in Workers : \A b \in batch'[v] : b.doc # d
  BY <1>1 DEF Finish, TypeOK
<1>3. Leased(d)'
  BY <1>2 DEF Leased
<1>4. WorkersKnow(d)'
  <2>1. \A v \in Workers : phase'[v] # "idle" => claim'[v].doc # d
    BY <1>1 DEF Finish, TypeOK
  <2> QED
    BY <2>1 DEF WorkersKnow
<1>5. RequestsKnow(d)'
  BY <1>1 DEF RequestsKnow
<1>6. OneLive(d)' /\ \A s \in ProcessingStage : Live(<<d, s>>)' => Expected(d, s)'
  BY DEF OneLive
<1> QED
  BY <1>3, <1>4, <1>5, <1>6 DEF LifeDoc, OneChain

\* A worker that finishes another document's task does not touch d.
LEMMA LifeElsewhere ==
  ASSUME TypeOK, TypeOK', NEW CONSTANT d \in Docs, LifeDoc(d), NEW CONSTANT w \in Workers,
         phase[w] # "idle", claim[w].doc # d, Finish(w), request' = request,
         status'[d] = status[d], \A s \in ProcessingStage : task'[<<d, s>>] = task[<<d, s>>]
  PROVE  LifeDoc(d)'
<1>1. \A v \in Workers : \A c \in ClaimedTask : c.doc = d /\ c \in batch'[v] => c \in batch[v]
  BY DEF Finish, TypeOK
<1>2. \A v \in Workers : phase'[v] # "idle" /\ claim'[v].doc = d =>
        phase[v] # "idle" /\ claim'[v] = claim[v] /\ seen'[v] = seen[v]
  BY DEF Finish, TypeOK
<1> QED
  BY <1>1, <1>2, LifeFrame DEF Spared

\* The stage a handler enqueues.
After(s) ==
  CASE s = "validate"    -> "pdf_extract"
    [] s = "pdf_extract" -> "ocr"
    [] s = "ocr"         -> "classify"
    [] s = "classify"    -> "embed"
    [] s = "embed"       -> "graph"
    [] OTHER             -> "finalize"

\* What a handler does that found in memory what the database holds.
LEMMA HandlerMoves ==
  ASSUME TypeOK, NEW CONSTANT w \in Workers, HandlerSucceeds(w),
         NEW CONSTANT c \in ClaimedTask, c = claim[w], seen[w] = status[c.doc]
  PROVE  /\ phase[w] # "idle" /\ Finish(w) /\ UNCHANGED <<request, overruns, cancels>>
         /\ \/ /\ c.stage \in ProcessingStage \ {"finalize"} /\ ChainTo(w, After(c.stage))
               /\ status' = [status EXCEPT ![c.doc] = IF @ = Entry(c.stage) THEN Entry(After(c.stage)) ELSE @]
            \/ /\ c.stage = "finalize"
               /\ status' = [status EXCEPT ![c.doc] = IF @ = "EMBEDDING" THEN "COMPLETED" ELSE @]
               /\ task' = [task EXCEPT ![RowOf(c)] = Released(task[RowOf(c)], "succeeded")]
               /\ audit' = [audit EXCEPT ![c.doc] = @ \cup {"completed"}]
<1>1. phase[w] # "idle" /\ Finish(w) /\ UNCHANGED <<request, overruns, cancels>>
  BY DEF HandlerSucceeds, Handling, budgets, HandleValidate, HandlePdfExtract, HandleOcr,
         HandleClassify, HandleEmbed, HandleGraph, HandleFinalize
<1>2. c.doc \in Docs /\ status \in [Docs -> DocStatus]
  BY RowOfType DEF TypeOK
<1>3. CASE HandleGraph(w)
  <2>1. c.stage = "graph" /\ ChainTo(w, "finalize") /\ status' = status
    BY <1>3 DEF HandleGraph, Handling
  <2>2. Entry("graph") = "EMBEDDING" /\ Entry("finalize") = "EMBEDDING" /\ After("graph") = "finalize"
    BY DEF Entry, After
  <2>3. [status EXCEPT ![c.doc] = IF @ = Entry(c.stage) THEN Entry(After(c.stage)) ELSE @] = status
    BY <1>2, <2>1, <2>2
  <2> QED
    BY <1>1, <2>1, <2>2, <2>3 DEF ProcessingStage
<1>4. CASE HandleFinalize(w)
  BY <1>1, <1>4 DEF HandleFinalize, Handling, MoveDocument
<1>5. CASE ~HandleGraph(w) /\ ~HandleFinalize(w)
  <2>1. /\ c.stage \in ProcessingStage \ {"finalize"} /\ ChainTo(w, After(c.stage))
        /\ MoveDocument(w, Entry(c.stage), Entry(After(c.stage)))
    BY <1>5 DEF HandlerSucceeds, Handling, HandleValidate, HandlePdfExtract, HandleOcr,
       HandleClassify, HandleEmbed, ProcessingStage, Entry, After
  <2> QED
    BY <1>1, <2>1 DEF MoveDocument
<1> QED
  BY <1>3, <1>4, <1>5

\* A handler commits.
LEMMA HandlerLife ==
  ASSUME TypeOK, TypeOK', NEW CONSTANT w \in Workers, HandlerSucceeds(w),
         \A d \in Docs : LifeDoc(d), NEW CONSTANT d \in Docs
  PROVE  LifeDoc(d)'
<1>1. PICK c \in ClaimedTask : c = claim[w] /\ c \in batch[w] /\ phase[w] # "idle"
  BY DEF TypeOK, HandlerSucceeds, Handling, HandleValidate, HandlePdfExtract, HandleOcr,
         HandleClassify, HandleEmbed, HandleGraph, HandleFinalize
<1>2. /\ c.doc \in Docs /\ c.stage \in ProcessingStage /\ RowOf(c) = <<c.doc, c.stage>> /\ RowOf(c) \in Tasks
      /\ seen[w] = status[c.doc]
  BY <1>1, RowOfType DEF RowOf, LifeDoc, WorkersKnow
<1>3. /\ Finish(w) /\ request' = request
      /\ \/ /\ c.stage \in ProcessingStage \ {"finalize"} /\ ChainTo(w, After(c.stage))
            /\ status' = [status EXCEPT ![c.doc] = IF @ = Entry(c.stage) THEN Entry(After(c.stage)) ELSE @]
         \/ /\ c.stage = "finalize"
            /\ status' = [status EXCEPT ![c.doc] = IF @ = "EMBEDDING" THEN "COMPLETED" ELSE @]
            /\ task' = [task EXCEPT ![RowOf(c)] = Released(task[RowOf(c)], "succeeded")]
  BY <1>1, <1>2, HandlerMoves
<1>4. /\ Released(task[RowOf(c)], "succeeded").status = "succeeded"
  BY <1>2, ReleasedType DEF TypeOK, TaskStatus
<1>5. CASE c.stage = "finalize"
  <2>1. /\ \A s \in ProcessingStage : <<c.doc, s>> # RowOf(c) => task'[<<c.doc, s>>] = task[<<c.doc, s>>]
        /\ \A e \in Docs : e # c.doc => \A s \in ProcessingStage : task'[<<e, s>>] = task[<<e, s>>]
        /\ task'[RowOf(c)].status = "succeeded"
        /\ status'[c.doc] = IF status[c.doc] = "EMBEDDING" THEN "COMPLETED" ELSE status[c.doc]
        /\ \A e \in Docs : e # c.doc => status'[e] = status[e]
    BY <1>2, <1>3, <1>4, <1>5 DEF TypeOK, Tasks
  <2>2. CASE c.doc # d
    BY <1>1, <1>3, <2>1, <2>2, LifeElsewhere
  <2>3. CASE c.doc = d /\ status[d] = "COMPLETED"
    <3>1. status'[d] = "COMPLETED"
      BY <2>1, <2>3
    <3> QED
      BY <1>3, <2>3, <3>1, LifeCompleted DEF Finish, TypeOK
  <2>4. CASE c.doc = d /\ status[d] # "COMPLETED"
    <3>1. \A s \in ProcessingStage : Live(<<d, s>>) <=> s = c.stage
      BY <1>1, <2>4, OnlyClaim
    <3>2. \A s \in ProcessingStage : ~Live(<<d, s>>)'
      BY <1>2, <2>1, <2>4, <3>1 DEF Live
    <3> QED
      BY <1>1, <1>2, <1>3, <2>4, <3>2, LifeFinish
  <2> QED
    BY <2>2, <2>3, <2>4
<1>6. CASE c.stage # "finalize"
  <2> DEFINE next == After(c.stage)
  <2>1. next \in ProcessingStage /\ next # c.stage
    BY <1>2, <1>6 DEF After, ProcessingStage
  <2>2. task' = [task EXCEPT ![RowOf(c)] = Released(task[RowOf(c)], "succeeded"), ![<<c.doc, next>>] = Enqueued]
    BY <1>1, <1>3, <1>6 DEF ChainTo
  <2>3. /\ \A s \in ProcessingStage : s # c.stage /\ s # next => task'[<<c.doc, s>>] = task[<<c.doc, s>>]
        /\ \A e \in Docs : e # c.doc => \A s \in ProcessingStage : task'[<<e, s>>] = task[<<e, s>>]
        /\ task'[RowOf(c)].status = "succeeded"
    <3> HIDE DEF next
    <3> QED
      BY <1>2, <1>4, <2>1, <2>2 DEF TypeOK, Tasks
  <2>4. /\ status'[c.doc] = IF status[c.doc] = Entry(c.stage) THEN Entry(next) ELSE status[c.doc]
        /\ \A e \in Docs : e # c.doc => status'[e] = status[e]
    BY <1>2, <1>3, <1>6 DEF TypeOK
  <2>5. CASE c.doc # d
    BY <1>1, <1>3, <2>3, <2>4, <2>5, LifeElsewhere
  <2>6. CASE c.doc = d /\ status[d] = "COMPLETED"
    <3>1. status'[d] = "COMPLETED"
      BY <2>4, <2>6 DEF Entry
    <3> QED
      BY <1>3, <2>6, <3>1, LifeCompleted DEF Finish, TypeOK
  <2>7. CASE c.doc = d /\ status[d] # "COMPLETED"
    <3>1. (\A s \in ProcessingStage : Live(<<d, s>>) <=> s = c.stage) /\ Expected(d, c.stage)
      BY <1>1, <2>7, OnlyClaim
    <3>2. status'[d] = Entry(next)
      <4>1. CASE status[d] = Entry(c.stage)
        BY <2>4, <2>7, <4>1
      <4>2. CASE c.stage = "validate" /\ status[d] = "QUEUED"
        BY <2>4, <2>7, <4>2 DEF Entry, After
      <4> QED
        BY <3>1, <4>1, <4>2 DEF Expected
    <3> HIDE DEF next
    <3>3. \A s \in ProcessingStage : Live(<<d, s>>)' => s = next /\ Expected(d, s)'
      BY <1>2, <2>3, <2>7, <3>1, <3>2 DEF Live, Expected
    <3> QED
      BY <1>1, <1>3, <2>1, <2>7, <3>3, LifeFinish
  <2> QED
    BY <2>5, <2>6, <2>7
<1> QED
  BY <1>5, <1>6

\* A document's claims are known to be of a document that still moves, or of
\* a completed one: no handler finds it CANCELLED.
LEMMA NobodyStops ==
  ASSUME TypeOK, \A d \in Docs : LifeDoc(d), NEW CONSTANT w \in Workers
  PROVE  ~HandlerStops(w)
<1> SUFFICES ASSUME HandlerStops(w) PROVE FALSE
  OBVIOUS
<1>1. PICK c \in batch[w] : c = claim[w]
  BY DEF HandlerStops, TypeOK
<1>2. c.doc \in Docs
  BY RowOfType DEF TypeOK
<1>3. PICK d \in Docs : d = c.doc
  BY <1>2
<1>4. status[d] = "CANCELLED"
  BY <1>1, <1>3 DEF HandlerStops, LifeDoc, WorkersKnow
<1>5. c \in ClaimedTask /\ c.stage \in ProcessingStage /\ Expected(d, c.stage)
  BY <1>3, <1>4, OnlyClaim
<1> QED
  BY <1>4, <1>5, ExpectedRuns

\* A task is put back for a retry.
LEMMA RetryLife ==
  ASSUME TypeOK, TypeOK', NEW CONSTANT d \in Docs, LifeDoc(d), NEW CONSTANT w \in Workers, RetryLater(w)
  PROVE  LifeDoc(d)'
<1>1. phase[w] # "idle" /\ Finish(w) /\ UNCHANGED <<status, request>>
  BY DEF RetryLater, docVars
<1>2. PICK c \in batch[w] : c = claim[w]
  BY <1>1 DEF TypeOK
<1>3. c \in ClaimedTask /\ c.doc \in Docs /\ c.stage \in ProcessingStage /\ RowOf(c) = <<c.doc, c.stage>> /\ RowOf(c) \in Tasks
  BY RowOfType DEF TypeOK, RowOf
<1>4. task' = [task EXCEPT ![RowOf(c)] = Released(task[RowOf(c)], "pending")]
  BY <1>2 DEF RetryLater
<1>5. \A s \in ProcessingStage : <<d, s>> # RowOf(c) => task'[<<d, s>>] = task[<<d, s>>]
  BY <1>3, <1>4 DEF TypeOK, Tasks
<1>6. CASE c.doc # d
  <2>1. \A s \in ProcessingStage : task'[<<d, s>>] = task[<<d, s>>]
    BY <1>3, <1>5, <1>6
  <2> QED
    BY <1>1, <1>2, <1>6, <2>1, LifeElsewhere
<1>7. CASE c.doc = d /\ status[d] = "COMPLETED"
  BY <1>1, <1>7, LifeCompleted DEF Finish, TypeOK
<1>8. CASE c.doc = d /\ status[d] # "COMPLETED"
  <2>1. (\A s \in ProcessingStage : Live(<<d, s>>) <=> s = c.stage) /\ Expected(d, c.stage)
    BY <1>8, OnlyClaim
  <2>2. \A s \in ProcessingStage : Live(<<d, s>>)' => s = c.stage /\ Expected(d, s)'
    BY <1>1, <1>3, <1>5, <1>8, <2>1 DEF Live, Expected
  <2> QED
    BY <1>1, <1>2, <1>3, <1>8, <2>2, LifeFinish
<1> QED
  BY <1>6, <1>7, <1>8

\* A task is dead-lettered, and its document FAILED unless it had completed.
LEMMA BuryLife ==
  ASSUME TypeOK, TypeOK', NEW CONSTANT d \in Docs, LifeDoc(d), NEW CONSTANT w \in Workers, BuryTask(w)
  PROVE  LifeDoc(d)'
<1>1. phase[w] # "idle" /\ Finish(w) /\ request' = request
  BY DEF BuryTask
<1>2. PICK c \in batch[w] : c = claim[w]
  BY <1>1 DEF TypeOK
<1>3. c \in ClaimedTask /\ c.doc \in Docs /\ c.stage \in ProcessingStage /\ RowOf(c) = <<c.doc, c.stage>> /\ RowOf(c) \in Tasks
  BY RowOfType DEF TypeOK, RowOf
<1>4. task' = [task EXCEPT ![RowOf(c)] = Released(task[RowOf(c)], "dead")]
  BY <1>2 DEF BuryTask
<1>5. /\ \A s \in ProcessingStage : <<d, s>> # RowOf(c) => task'[<<d, s>>] = task[<<d, s>>]
      /\ task'[RowOf(c)].status = "dead"
  BY <1>3, <1>4, ReleasedType DEF TypeOK, Tasks, TaskStatus
<1>6. CASE c.doc # d
  <2>1. \A s \in ProcessingStage : task'[<<d, s>>] = task[<<d, s>>]
    BY <1>3, <1>5, <1>6
  <2>2. status'[d] = status[d]
    BY <1>2, <1>6 DEF BuryTask, TypeOK
  <2> QED
    BY <1>1, <1>2, <1>6, <2>1, <2>2, LifeElsewhere
<1>7. CASE c.doc = d /\ status[d] = "COMPLETED"
  <2>1. seen[w] = "COMPLETED"
    BY <1>1, <1>2, <1>7 DEF LifeDoc, WorkersKnow
  <2>2. status' = status
    BY <2>1 DEF BuryTask, TerminalStates
  <2> QED
    BY <1>1, <1>7, <2>2, LifeCompleted DEF Finish, TypeOK
<1>8. CASE c.doc = d /\ status[d] # "COMPLETED"
  <2>1. \A s \in ProcessingStage : Live(<<d, s>>) <=> s = c.stage
    BY <1>8, OnlyClaim
  <2>2. \A s \in ProcessingStage : ~Live(<<d, s>>)'
    BY <1>3, <1>5, <1>8, <2>1 DEF Live
  <2> QED
    BY <1>1, <1>2, <1>3, <1>8, <2>2, LifeFinish
<1> QED
  BY <1>6, <1>7, <1>8

\* A worker reads the document of its task.
LEMMA ReadLife ==
  ASSUME TypeOK, TypeOK', NEW CONSTANT d \in Docs, LifeDoc(d),
         NEW CONSTANT w \in Workers, NEW CONSTANT c \in batch[w], claim'[w] = c, seen'[w] = status[c.doc],
         \A v \in Workers : v # w => phase'[v] = phase[v] /\ claim'[v] = claim[v] /\ seen'[v] = seen[v],
         UNCHANGED <<status, task, batch, request>>
  PROVE  LifeDoc(d)'
<1>1. WorkersKnow(d)' /\ RequestsKnow(d)'
  BY DEF LifeDoc, WorkersKnow, RequestsKnow
<1>2. OneChain(d) => OneChain(d)'
  BY DEF OneChain, OneLive, Leased, Live, Expected, RowOf
<1> QED
  BY <1>1, <1>2 DEF LifeDoc

\* A worker claims a batch of due rows.
LEMMA ClaimLife ==
  ASSUME TypeOK, TypeOK', NEW CONSTANT d \in Docs, LifeDoc(d),
         NEW CONSTANT w \in Workers, NEW CONSTANT due \in SUBSET Tasks, due \subseteq Pending, Claim(w, due)
  PROVE  LifeDoc(d)'
<1>1. UNCHANGED <<status, phase, claim, seen, request>> /\ batch[w] = {}
  BY DEF Claim, Free, docVars
<1>2. \A t \in due : task[t].status = "pending" /\ task[t] \in TaskRow
  BY DEF Pending, TypeOK
<1>3. /\ \A t \in Tasks \ due : task'[t] = task[t]
      /\ \A t \in due : /\ task'[t].status = "running" /\ task'[t].lockedBy = w
                        /\ task'[t].attempts = task[t].attempts + 1
  BY <1>2, ClaimedType DEF Claim
<1>4. WorkersKnow(d)' /\ RequestsKnow(d)'
  BY <1>1 DEF LifeDoc, WorkersKnow, RequestsKnow
<1>5. ASSUME OneChain(d)
      PROVE  OneChain(d)'
  <2>1. \A s \in ProcessingStage : <<d, s>> \in Tasks /\ (Live(<<d, s>>)' <=> Live(<<d, s>>))
    BY <1>2, <1>3 DEF Live, Tasks
  <2>2. OneLive(d)' /\ \A s \in ProcessingStage : Live(<<d, s>>)' => Expected(d, s)'
    BY <1>1, <1>5, <2>1 DEF OneChain, OneLive, Expected
  <2>3. batch'[w] = {[doc |-> t[1], stage |-> t[2], attempts |-> task[t].attempts + 1] : t \in due}
        /\ \A v \in Workers : v # w => batch'[v] = batch[v]
    BY DEF Claim, TypeOK
  <2>4. Leased(d)'
    <3> SUFFICES ASSUME NEW CONSTANT v \in Workers, NEW CONSTANT c \in batch'[v], c.doc = d
                 PROVE  task'[RowOf(c)].status = "running" /\ task'[RowOf(c)].lockedBy = v
                        /\ task'[RowOf(c)].attempts = c.attempts
      BY DEF Leased, RowOf
    <3>1. CASE v = w
      <4>1. PICK t \in due : c = [doc |-> t[1], stage |-> t[2], attempts |-> task[t].attempts + 1]
        BY <2>3, <3>1
      <4>2. RowOf(c) = t /\ c.attempts = task[t].attempts + 1
        BY <4>1 DEF RowOf, Tasks
      <4> QED
        BY <1>3, <3>1, <4>2
    <3>2. CASE v # w
      <4>1. c \in batch[v] /\ RowOf(c) \in Tasks
        BY <2>3, <3>2, RowOfType DEF TypeOK
      <4>2. task[RowOf(c)].status = "running" /\ task[RowOf(c)].lockedBy = v /\ task[RowOf(c)].attempts = c.attempts
        BY <1>5, <4>1 DEF OneChain, Leased
      <4>3. RowOf(c) \notin due
        BY <1>2, <4>2
      <4> QED
        BY <1>3, <4>1, <4>2, <4>3
    <3> QED
      BY <3>1, <3>2
  <2> QED
    BY <2>2, <2>4 DEF OneChain
<1> QED
  BY <1>1, <1>4, <1>5 DEF LifeDoc

\* Rows nobody works on are put back.
LEMMA ReclaimLife ==
  ASSUME TypeOK, TypeOK', NEW CONSTANT d \in Docs, LifeDoc(d),
         NEW CONSTANT expired \in SUBSET Tasks, expired \subseteq Running, Reclaim(expired),
         \A w \in Workers : Held(w) \cap expired = {}
  PROVE  LifeDoc(d)'
<1>1. UNCHANGED <<status, batch, phase, claim, seen, request>>
  BY DEF Reclaim, docVars, workerVars
<1>2. \A t \in expired : task[t].status = "running" /\ task[t] \in TaskRow
  BY DEF Running, TypeOK
<1>3. /\ \A t \in Tasks \ expired : task'[t] = task[t]
      /\ \A t \in expired : task'[t].status = "pending"
  BY <1>2, ReleasedType DEF Reclaim, TaskStatus
<1>4. WorkersKnow(d)' /\ RequestsKnow(d)'
  BY <1>1 DEF LifeDoc, WorkersKnow, RequestsKnow
<1>5. ASSUME OneChain(d)
      PROVE  OneChain(d)'
  <2>1. \A s \in ProcessingStage : <<d, s>> \in Tasks /\ (Live(<<d, s>>)' <=> Live(<<d, s>>))
    BY <1>2, <1>3 DEF Live, Tasks
  <2>2. OneLive(d)' /\ \A s \in ProcessingStage : Live(<<d, s>>)' => Expected(d, s)'
    BY <1>1, <1>5, <2>1 DEF OneChain, OneLive, Expected
  <2>3. Leased(d)'
    <3> SUFFICES ASSUME NEW CONSTANT w \in Workers, NEW CONSTANT c \in batch[w], c.doc = d
                 PROVE  task'[RowOf(c)].status = "running" /\ task'[RowOf(c)].lockedBy = w
                        /\ task'[RowOf(c)].attempts = c.attempts
      BY <1>1 DEF Leased, RowOf
    <3>1. task[RowOf(c)].status = "running" /\ task[RowOf(c)].lockedBy = w /\ task[RowOf(c)].attempts = c.attempts
      BY <1>5 DEF OneChain, Leased
    <3>2. RowOf(c) \in Tasks /\ RowOf(c) \in Running
      BY <3>1, RowOfType DEF TypeOK, Running
    <3>3. RowOf(c) \in Held(w)
      BY <3>1, <3>2 DEF Held
    <3> QED
      BY <1>3, <3>1, <3>2, <3>3
  <2> QED
    BY <2>2, <2>3 DEF OneChain
<1> QED
  BY <1>1, <1>4, <1>5 DEF LifeDoc

\* A worker loses its batch.
LEMMA CrashLife ==
  ASSUME TypeOK, TypeOK', NEW CONSTANT d \in Docs, LifeDoc(d), NEW CONSTANT w \in Workers, Crash(w)
  PROVE  LifeDoc(d)'
<1>1. Spared(d)
  BY DEF Crash, Spared, TypeOK, docVars
<1> QED
  BY <1>1, LifeFrame

\* A document is uploaded, or a FAILED one reopened: its row for `validate`
\* is the only live one, and nobody else knows of it.
LEMMA StartLife ==
  ASSUME TypeOK, TypeOK', NEW CONSTANT d \in Docs,
         \A w \in Workers : \A c \in batch[w] : c.doc # d,
         \A c \in Clients : request'[c] # None => request'[c].doc # d,
         UNCHANGED workerVars, Expected(d, "validate")',
         \A s \in ProcessingStage : s # "validate" => ~Live(<<d, s>>)'
  PROVE  LifeDoc(d)'
<1>1. \A w \in Workers : phase'[w] # "idle" => claim'[w].doc # d
  BY DEF TypeOK, workerVars
<1>2. WorkersKnow(d)' /\ RequestsKnow(d)'
  BY <1>1 DEF WorkersKnow, RequestsKnow
<1>3. Leased(d)'
  BY DEF Leased, workerVars
<1>4. OneLive(d)' /\ \A s \in ProcessingStage : Live(<<d, s>>)' => Expected(d, s)'
  BY DEF OneLive
<1> QED
  BY <1>2, <1>3, <1>4 DEF LifeDoc, OneChain

\* A document is uploaded.
LEMMA UploadLife ==
  ASSUME TypeOK, TypeOK', HistoryInv, NEW CONSTANT d \in Docs, LifeDoc(d), NEW CONSTANT e \in Docs, Upload(e)
  PROVE  LifeDoc(d)'
<1>1. UNCHANGED <<batch, phase, claim, seen, request>> /\ UNCHANGED workerVars
  BY DEF Upload, workerVars
<1>2. task' = [task EXCEPT ![<<e, "validate">>] = Enqueued] /\ status' = [status EXCEPT ![e] = "UPLOADED"]
  BY DEF Upload
<1>3. CASE e # d
  <2>1. status'[d] = status[d] /\ \A s \in ProcessingStage : task'[<<d, s>>] = task[<<d, s>>]
    BY <1>2, <1>3 DEF TypeOK, Tasks
  <2>2. Spared(d)
    BY <1>1, <2>1 DEF Spared
  <2> QED
    BY <2>2, LifeFrame
<1>4. CASE e = d
  <2>1. status[d] = Absent /\ \A s \in ProcessingStage : task[<<d, s>>].status = "absent"
    BY <1>4 DEF HistoryInv, AbsentHasNoTask, Upload, Exists
  <2>2. \A w \in Workers : \A c \in batch[w] : c.doc # d
    <3> SUFFICES ASSUME NEW w \in Workers, NEW c \in batch[w], c.doc = d
                 PROVE  FALSE
      OBVIOUS
    <3>1. c \in ClaimedTask
      BY DEF TypeOK
    <3>2. RowOf(c) = <<d, c.stage>> /\ c.stage \in ProcessingStage /\ Exists(RowOf(c))
      BY <3>1, RowOfType DEF RowOf, HistoryInv, BatchHasRows
    <3> QED
      BY <2>1, <3>2 DEF Exists
  <2>3. \A c \in Clients : request'[c] # None => request'[c].doc # d
    BY <1>1, <2>1 DEF LifeDoc, RequestsKnow, Absent
  <2>4. \A s \in ProcessingStage : s # "validate" => ~Live(<<d, s>>)'
    BY <1>2, <2>1 DEF Live, TypeOK, Tasks
  <2>5. Expected(d, "validate")'
    BY <1>2, <1>4 DEF Expected, Entry, TypeOK
  <2> QED
    BY <1>1, <2>2, <2>3, <2>4, <2>5, StartLife
<1> QED
  BY <1>3, <1>4

\* A reprocess request is committed.
LEMMA ReprocessLife ==
  ASSUME TypeOK, TypeOK', RequestsApart, NEW CONSTANT d \in Docs, LifeDoc(d),
         NEW CONSTANT c \in Clients, CommitReprocess(c)
  PROVE  LifeDoc(d)'
<1>1. PICK e \in Docs : e = request[c].doc
  BY DEF CommitReprocess, InFlight, TypeOK, Request
<1>2. /\ request[c] # None /\ UNCHANGED <<batch, phase, claim, seen>> /\ UNCHANGED workerVars
      /\ request' = [request EXCEPT ![c] = None]
      /\ task' = [task EXCEPT ![<<e, "validate">>] = Enqueued]
      /\ status' = [status EXCEPT ![e] = IF request[c].seen = "FAILED" THEN "QUEUED" ELSE request[c].seen]
  BY <1>1 DEF CommitReprocess, InFlight, Answered, workerVars
<1>3. \A b \in Clients : request'[b] # None => b # c /\ request'[b] = request[b]
  BY <1>2 DEF TypeOK
<1>4. \A s \in ProcessingStage : <<d, s>> # <<e, "validate">> => task'[<<d, s>>] = task[<<d, s>>]
  BY <1>2 DEF TypeOK, Tasks
<1>5. CASE e # d
  <2>1. status'[d] = status[d] /\ \A s \in ProcessingStage : task'[<<d, s>>] = task[<<d, s>>]
    BY <1>2, <1>4, <1>5 DEF TypeOK
  <2>2. Spared(d)
    BY <1>2, <1>3, <2>1 DEF Spared
  <2> QED
    BY <2>2, LifeFrame
<1>6. CASE e = d
  <2>1. request[c].seen = status[d] /\ status[d] \in {"FAILED", "COMPLETED"}
    BY <1>1, <1>2, <1>6 DEF LifeDoc, RequestsKnow
  <2>2. \A b \in Clients : request'[b] # None => request'[b].doc # d
    BY <1>1, <1>2, <1>3, <1>6 DEF RequestsApart
  <2>3. CASE status[d] = "COMPLETED"
    <3>1. status'[d] = "COMPLETED"
      BY <1>2, <1>6, <2>1, <2>3 DEF TypeOK
    <3> QED
      BY <1>2, <2>2, <2>3, <3>1, LifeCompleted
  <2>4. CASE status[d] = "FAILED"
    <3>1. \A s \in ProcessingStage : ~Live(<<d, s>>)
      BY <2>4, ExpectedRuns DEF LifeDoc, OneChain
    <3>2. \A w \in Workers : \A b \in batch[w] : b.doc # d
      <4> SUFFICES ASSUME NEW CONSTANT w \in Workers, NEW CONSTANT b \in batch[w], b.doc = d
                   PROVE  FALSE
        OBVIOUS
      <4>1. b.stage \in ProcessingStage /\ \A s \in ProcessingStage : Live(<<d, s>>) <=> s = b.stage
        BY <2>4, OnlyClaim
      <4> QED
        BY <3>1, <4>1
    <3>3. Expected(d, "validate")'
      BY <1>2, <1>6, <2>1, <2>4 DEF Expected, TypeOK
    <3>4. \A s \in ProcessingStage : s # "validate" => ~Live(<<d, s>>)'
      BY <1>4, <3>1 DEF Live
    <3> QED
      BY <1>2, <2>2, <3>2, <3>3, <3>4, StartLife
  <2> QED
    BY <2>1, <2>3, <2>4
<1> QED
  BY <1>5, <1>6

\* Every step keeps LifeInv.
LEMMA LifeStep ==
  ASSUME MaxOverruns = 0, MaxCancels = 0, TypeOK, TypeOK', HistoryInv, RequestsApart, LifeInv, [Next]_vars
  PROVE  LifeInv'
<1>0. overruns = 0 /\ cancels = 0 /\ \A d \in Docs : LifeDoc(d)
  BY DEF LifeInv
<1>1. ASSUME NEW expired \in SUBSET Running, Reclaim(expired)
      PROVE  overruns' = 0 /\ cancels' = 0 /\ \A w \in Workers : Held(w) \cap expired = {}
  <2>1. Cardinality(Overrun(expired)) = 0
    BY <1>0, <1>1, OverrunType DEF Reclaim
  <2>2. Overrun(expired) = {}
    BY <2>1, OverrunType
  <2>3. overruns' = 0 /\ cancels' = 0
    BY <1>0, <1>1, <2>1 DEF Reclaim
  <2> QED
    BY <2>2, <2>3 DEF Overrun
<1>2. ASSUME NEW c \in Clients, NEW d \in Docs
      PROVE  ~BeginCancel(c, d) /\ ~CommitCancel(c)
  <2>1. ~BeginCancel(c, d)
    BY <1>0 DEF BeginCancel
  <2>2. ~CommitCancel(c)
    BY <1>0 DEF CommitCancel, InFlight, TypeOK, Request, LifeDoc, RequestsKnow
  <2> QED
    BY <2>1, <2>2
<1>3. overruns' = 0 /\ cancels' = 0
  <2>1. ASSUME NEW w \in Workers, WorkerStep(w)
        PROVE  overruns' = overruns /\ cancels' = cancels
    BY <2>1 DEF WorkerStep, budgets, Claim, BeginStage, HandlerSucceeds, Handling, HandleValidate, HandlePdfExtract,
       HandleOcr, HandleClassify, HandleEmbed, HandleGraph, HandleFinalize, HandlerStops, RetryLater,
       GiveUp, BuryTask, Crash
  <2>2. ASSUME NEW c \in Clients, NEW d \in Docs, BeginReprocess(c, d) \/ CommitReprocess(c)
        PROVE  overruns' = overruns /\ cancels' = cancels
    BY <2>2 DEF budgets, BeginReprocess, CommitReprocess
  <2>3. ASSUME NEW e \in Docs, Upload(e)
        PROVE  overruns' = overruns /\ cancels' = cancels
    BY <2>3 DEF Upload, budgets
  <2>4. CASE UNCHANGED vars
    BY <1>0, <2>4 DEF vars, budgets
  <2>5. ASSUME NEW c \in Clients, ClientStep(c)
        PROVE  overruns' = overruns /\ cancels' = cancels
    <3>1. CASE CommitCancel(c) \/ CommitReprocess(c)
      BY <3>1, <1>0 DEF CommitCancel, CommitReprocess, budgets
    <3> QED
      BY <1>2, <2>2, <2>5, <3>1 DEF ClientStep
  <2> QED
    BY <1>0, <1>1, <2>1, <2>3, <2>4, <2>5 DEF Next
<1>4. ASSUME NEW CONSTANT d \in Docs
      PROVE  LifeDoc(d)'
  <2>1. LifeDoc(d)
    BY <1>0
  <2>2. ASSUME NEW CONSTANT w \in Workers, WorkerStep(w)
        PROVE  LifeDoc(d)'
    <3>1. ASSUME NEW CONSTANT due \in SUBSET Pending, Claim(w, due)
          PROVE  LifeDoc(d)'
      <4>1. due \in SUBSET Tasks /\ due \subseteq Pending
        BY DEF Pending
      <4> QED
        BY <2>1, <3>1, <4>1, ClaimLife
    <3>2. ASSUME NEW CONSTANT c \in batch[w], BeginStage(w, c)
          PROVE  LifeDoc(d)'
      <4>1. /\ claim'[w] = c /\ seen'[w] = status[c.doc]
            /\ \A v \in Workers : v # w => phase'[v] = phase[v] /\ claim'[v] = claim[v] /\ seen'[v] = seen[v]
            /\ UNCHANGED <<status, task, batch, request>>
        BY <3>2 DEF BeginStage, TypeOK, docVars
      <4> QED
        BY <2>1, <4>1, ReadLife
    <3>3. CASE GiveUp(w)
      <4>1. PICK c \in batch[w] : c = claim[w]
        BY <3>3 DEF GiveUp, TypeOK
      <4>2. /\ claim'[w] = c /\ seen'[w] = status[c.doc]
            /\ \A v \in Workers : v # w => phase'[v] = phase[v] /\ claim'[v] = claim[v] /\ seen'[v] = seen[v]
            /\ UNCHANGED <<status, task, batch, request>>
        BY <3>3, <4>1 DEF GiveUp, TypeOK, docVars
      <4> QED
        BY <2>1, <4>2, ReadLife
    <3>4. CASE HandlerSucceeds(w)
      BY <1>0, <3>4, HandlerLife
    <3>5. CASE BuryTask(w)
      BY <2>1, <3>5, BuryLife
    <3>6. CASE RetryLater(w)
      BY <2>1, <3>6, RetryLife
    <3>7. CASE Crash(w)
      BY <2>1, <3>7, CrashLife
    <3>8. ~HandlerStops(w)
      BY <1>0, NobodyStops
    <3> QED
      BY <2>2, <3>1, <3>2, <3>3, <3>4, <3>5, <3>6, <3>7, <3>8 DEF WorkerStep
  <2>3. ASSUME NEW CONSTANT expired \in SUBSET Running, Reclaim(expired)
        PROVE  LifeDoc(d)'
    <3>1. expired \in SUBSET Tasks /\ expired \subseteq Running
      BY DEF Running
    <3>2. \A w \in Workers : Held(w) \cap expired = {}
      BY <1>1, <2>3
    <3> QED
      BY <2>1, <2>3, <3>1, <3>2, ReclaimLife
  <2>4. ASSUME NEW CONSTANT e \in Docs, Upload(e)
        PROVE  LifeDoc(d)'
    BY <2>1, <2>4, UploadLife
  <2>5. ASSUME NEW CONSTANT c \in Clients, ClientStep(c)
        PROVE  LifeDoc(d)'
    <3>1. CASE CommitReprocess(c)
      BY <2>1, <3>1, ReprocessLife
    <3>2. ASSUME NEW CONSTANT e \in Docs, BeginReprocess(c, e)
          PROVE  LifeDoc(d)'
      <4>1. /\ UNCHANGED <<status, task, batch, phase, claim, seen>>
            /\ request' = [request EXCEPT ![c] = [op |-> "reprocess", doc |-> e, seen |-> status[e]]]
            /\ status[e] \in {"FAILED", "COMPLETED"}
        BY <3>2 DEF BeginReprocess, docVars, workerVars
      <4>2. RequestsKnow(d)'
        BY <2>1, <4>1 DEF LifeDoc, RequestsKnow, TypeOK
      <4>3. WorkersKnow(d)' /\ (OneChain(d) => OneChain(d)')
        BY <2>1, <4>1 DEF LifeDoc, WorkersKnow, OneChain, OneLive, Leased, Live, Expected, RowOf
      <4> QED
        BY <2>1, <4>1, <4>2, <4>3 DEF LifeDoc
    <3> QED
      BY <1>2, <2>5, <3>1, <3>2 DEF ClientStep
  <2>6. CASE UNCHANGED vars
    <3>1. Spared(d)
      BY <2>6 DEF Spared, vars, docVars, workerVars
    <3> QED
      BY <2>1, <3>1, LifeFrame
  <2> QED
    BY <2>2, <2>3, <2>4, <2>5, <2>6 DEF Next
<1> QED
  BY <1>3, <1>4 DEF LifeInv

\* What the commit of a handler is to the document.
LEMMA HandlerRefines ==
  ASSUME TypeOK, \A d \in Docs : LifeDoc(d), NEW CONSTANT w \in Workers, HandlerSucceeds(w)
  PROVE  [Lifecycle!Next]_(Lifecycle!vars)
<1>1. PICK c \in ClaimedTask : c = claim[w] /\ c \in batch[w] /\ phase[w] # "idle"
  BY DEF TypeOK, HandlerSucceeds, Handling, HandleValidate, HandlePdfExtract, HandleOcr,
         HandleClassify, HandleEmbed, HandleGraph, HandleFinalize
<1>2. PICK d \in Docs : d = c.doc
  BY RowOfType
<1>3. seen[w] = status[d] /\ c.stage \in ProcessingStage
  BY <1>1, <1>2, RowOfType DEF LifeDoc, WorkersKnow
<1>4. \/ /\ c.stage \in ProcessingStage \ {"finalize"} /\ ChainTo(w, After(c.stage))
         /\ status' = [status EXCEPT ![d] = IF @ = Entry(c.stage) THEN Entry(After(c.stage)) ELSE @]
      \/ /\ c.stage = "finalize"
         /\ status' = [status EXCEPT ![d] = IF @ = "EMBEDDING" THEN "COMPLETED" ELSE @]
         /\ audit' = [audit EXCEPT ![d] = @ \cup {"completed"}]
  BY <1>1, <1>2, <1>3, HandlerMoves
<1>5. status \in [Docs -> DocStatus] /\ audit \in [Docs -> SUBSET AuditAction]
  BY DEF TypeOK
<1>6. CASE c.stage = "finalize" /\ status[d] = "EMBEDDING"
  <2>1. Lifecycle!Complete(d)
    BY <1>4, <1>5, <1>6 DEF Lifecycle!Complete, Lifecycle!Become, Lifecycle!AllowedTransitions
  <2> QED
    BY <2>1 DEF Lifecycle!Next
<1>7. CASE c.stage = "finalize" /\ status[d] # "EMBEDDING"
  <2>1. status[d] = "COMPLETED"
    <3>1. status[d] # "COMPLETED" => Expected(d, "finalize")
      BY <1>1, <1>2, <1>7, OnlyClaim
    <3> QED
      BY <1>7, <3>1 DEF Expected, Entry
  <2>2. Lifecycle!Remark(d)
    BY <1>4, <1>5, <1>7, <2>1 DEF Lifecycle!Remark, Lifecycle!Become, Lifecycle!TerminalStates
  <2> QED
    BY <2>2 DEF Lifecycle!Next
<1>8. CASE c.stage # "finalize"
  <2>1. /\ c.stage \in ProcessingStage \ {"finalize"}
        /\ status' = [status EXCEPT ![d] = IF @ = Entry(c.stage) THEN Entry(After(c.stage)) ELSE @]
        /\ audit' = audit
    BY <1>4, <1>8 DEF ChainTo
  <2>2. CASE status[d] # Entry(c.stage) \/ c.stage = "graph"
    <3>1. Entry("graph") = Entry(After("graph"))
      BY DEF Entry, After
    <3>2. status' = status
      BY <1>5, <2>1, <2>2, <3>1
    <3> QED
      BY <2>1, <3>2 DEF Lifecycle!vars
  <2>3. CASE status[d] = Entry(c.stage) /\ c.stage # "graph"
    <3>1. status' = [status EXCEPT ![d] = Entry(After(c.stage))] /\ audit' = [audit EXCEPT ![d] = @ \cup {}]
      BY <1>5, <2>1, <2>3
    <3>2. \E via \in {status[d]} \cup Lifecycle!AllowedTransitions(status[d]) :
            /\ Entry(After(c.stage)) \in Lifecycle!AllowedTransitions(via) \ Lifecycle!TerminalStates
            /\ via \notin Lifecycle!TerminalStates
      <4>1. CASE c.stage = "validate"
        <5>1. status[d] = "UPLOADED" /\ Entry(After(c.stage)) = "QUEUED"
          BY <2>3, <4>1 DEF Entry, After
        <5>2. /\ "VALIDATING" \in Lifecycle!AllowedTransitions(status[d]) \ Lifecycle!TerminalStates
              /\ "QUEUED" \in Lifecycle!AllowedTransitions("VALIDATING") \ Lifecycle!TerminalStates
          BY <5>1 DEF Lifecycle!AllowedTransitions, Lifecycle!TerminalStates
        <5> QED
          BY <5>1, <5>2
      <4>2. CASE c.stage # "validate"
        <5>1. <<c.stage, status[d], Entry(After(c.stage))>> \in
                {<<"pdf_extract", "QUEUED", "PROCESSING">>, <<"ocr", "PROCESSING", "OCR_RUNNING">>,
                 <<"classify", "OCR_RUNNING", "CLASSIFYING">>, <<"embed", "CLASSIFYING", "EMBEDDING">>}
          BY <2>1, <2>3, <4>2 DEF Entry, After, ProcessingStage
        <5> QED
          BY <5>1 DEF Lifecycle!AllowedTransitions, Lifecycle!TerminalStates, Lifecycle!Interrupts
      <4> QED
        BY <4>1, <4>2
    <3>3. Lifecycle!Progress(d)
      BY <3>1, <3>2 DEF Lifecycle!Progress, Lifecycle!Become
    <3> QED
      BY <3>3 DEF Lifecycle!Next
  <2> QED
    BY <2>2, <2>3
<1> QED
  BY <1>6, <1>7, <1>8

\* What a dead letter is to the document.
LEMMA BuryRefines ==
  ASSUME TypeOK, \A d \in Docs : LifeDoc(d), NEW CONSTANT w \in Workers, BuryTask(w)
  PROVE  [Lifecycle!Next]_(Lifecycle!vars)
<1>1. PICK c \in ClaimedTask : c = claim[w] /\ c \in batch[w] /\ phase[w] # "idle"
  BY DEF TypeOK, BuryTask
<1>2. PICK d \in Docs : d = c.doc
  BY RowOfType
<1>3. seen[w] = status[d]
  BY <1>1, <1>2 DEF LifeDoc, WorkersKnow
<1>4. /\ status' = IF status[d] \in TerminalStates THEN status ELSE [status EXCEPT ![d] = "FAILED"]
      /\ audit' = [audit EXCEPT ![d] = @ \cup {"failed"}]
      /\ status \in [Docs -> DocStatus]
  BY <1>1, <1>2, <1>3 DEF BuryTask, TypeOK
<1>5. CASE status[d] = "COMPLETED"
  <2>1. Lifecycle!Remark(d)
    BY <1>4, <1>5 DEF Lifecycle!Remark, Lifecycle!Become, Lifecycle!TerminalStates, TerminalStates
  <2> QED
    BY <2>1 DEF Lifecycle!Next
<1>6. CASE status[d] # "COMPLETED"
  <2>1. c.stage \in ProcessingStage /\ Expected(d, c.stage)
    BY <1>1, <1>2, <1>6, OnlyClaim
  <2>2. status[d] \in ProcessingStatus \ TerminalStates
    BY <2>1, ExpectedRuns
  <2>3. Lifecycle!Fail(d)
    BY <1>4, <2>2 DEF Lifecycle!Fail, Lifecycle!Become, Lifecycle!TerminalStates, TerminalStates,
       Lifecycle!ProcessingStatus, ProcessingStatus
  <2> QED
    BY <2>3 DEF Lifecycle!Next
<1> QED
  BY <1>5, <1>6

\* Every step is one of DocumentLifecycle's, or changes neither statuses nor
\* audit entries.
LEMMA LifecycleStep ==
  ASSUME MaxCancels = 0, TypeOK, LifeInv, [Next]_vars
  PROVE  [Lifecycle!Next]_(Lifecycle!vars)
<1>0. cancels = 0 /\ \A d \in Docs : LifeDoc(d)
  BY DEF LifeInv
<1>1. ASSUME NEW CONSTANT w \in Workers, WorkerStep(w)
      PROVE  [Lifecycle!Next]_(Lifecycle!vars)
  <2>1. CASE HandlerSucceeds(w)
    BY <1>0, <2>1, HandlerRefines
  <2>2. CASE BuryTask(w)
    BY <1>0, <2>2, BuryRefines
  <2>3. CASE ~HandlerSucceeds(w) /\ ~BuryTask(w)
    <3>1. UNCHANGED <<status, audit>>
      BY <1>1, <2>3 DEF WorkerStep, docVars, Claim, BeginStage, HandlerStops, RetryLater, GiveUp, Crash
    <3> QED
      BY <3>1 DEF Lifecycle!vars
  <2> QED
    BY <2>1, <2>2, <2>3
<1>2. ASSUME NEW expired \in SUBSET Running, Reclaim(expired)
      PROVE  [Lifecycle!Next]_(Lifecycle!vars)
  BY <1>2 DEF Reclaim, docVars, Lifecycle!vars
<1>3. ASSUME NEW d \in Docs, Upload(d)
      PROVE  [Lifecycle!Next]_(Lifecycle!vars)
  <2>1. Lifecycle!Upload(d)
    BY <1>3 DEF Upload, Lifecycle!Upload, Lifecycle!Become, Absent, Lifecycle!Absent
  <2> QED
    BY <2>1 DEF Lifecycle!Next
<1>4. ASSUME NEW c \in Clients, ClientStep(c)
      PROVE  [Lifecycle!Next]_(Lifecycle!vars)
  <2>1. CASE CommitReprocess(c)
    <3>1. PICK d \in Docs : d = request[c].doc
      BY <2>1 DEF CommitReprocess, InFlight, TypeOK, Request
    <3>2. request[c].seen = status[d] /\ status[d] \in {"FAILED", "COMPLETED"}
      BY <1>0, <2>1, <3>1 DEF CommitReprocess, InFlight, LifeDoc, RequestsKnow
    <3>3. /\ status' = [status EXCEPT ![d] = IF status[d] = "FAILED" THEN "QUEUED" ELSE status[d]]
          /\ audit' = [audit EXCEPT ![d] = @ \cup {"reprocess"}]
      BY <2>1, <3>1, <3>2 DEF CommitReprocess
    <3>4. CASE status[d] = "FAILED"
      <4>1. Lifecycle!Reopen(d)
        BY <3>3, <3>4 DEF Lifecycle!Reopen, Lifecycle!Become
      <4> QED
        BY <4>1 DEF Lifecycle!Next
    <3>5. CASE status[d] = "COMPLETED"
      <4>1. Lifecycle!Remark(d)
        BY <3>3, <3>5 DEF Lifecycle!Remark, Lifecycle!Become, Lifecycle!TerminalStates
      <4> QED
        BY <4>1 DEF Lifecycle!Next
    <3> QED
      BY <3>2, <3>4, <3>5
  <2>2. CASE \E d \in Docs : BeginReprocess(c, d)
    BY <2>2 DEF BeginReprocess, docVars, Lifecycle!vars
  <2>3. ~CommitCancel(c) /\ \A d \in Docs : ~BeginCancel(c, d)
    BY <1>0 DEF BeginCancel, CommitCancel, InFlight, TypeOK, Request, LifeDoc, RequestsKnow
  <2> QED
    BY <1>4, <2>1, <2>2, <2>3 DEF ClientStep
<1>5. CASE UNCHANGED vars
  BY <1>5 DEF vars, docVars, Lifecycle!vars
<1> QED
  BY <1>1, <1>2, <1>3, <1>4, <1>5 DEF Next

\* When leases outlive the work, nothing is cancelled and requests for one
\* document do not overlap, the pipeline implements DocumentLifecycle:
\* through crashes, retries, dead letters and any number of reprocess
\* requests, statuses only move along ALLOWED_TRANSITIONS, and with the audit
\* entries that record it.
THEOREM PipelineImplementsLifecycle ==
  ASSUME MaxOverruns = 0, MaxCancels = 0
  PROVE  Spec /\ []RequestsApart => FollowsLifecycle
<1>1. Init => LifeInv
  <2> SUFFICES ASSUME Init, NEW CONSTANT d \in Docs
               PROVE  LifeDoc(d)
    BY DEF LifeInv, Init
  <2>1. /\ \A s \in ProcessingStage : task[<<d, s>>].status = "absent"
        /\ \A w \in Workers : batch[w] = {} /\ phase[w] = "idle"
        /\ \A c \in Clients : request[c] = None
    BY DEF Init, NoRow, Tasks
  <2> QED
    BY <2>1 DEF LifeDoc, WorkersKnow, RequestsKnow, OneChain, OneLive, Leased, Live
<1>2. TypeOK /\ TypeOK' /\ HistoryInv /\ RequestsApart /\ LifeInv /\ [Next]_vars => LifeInv'
  BY LifeStep
<1>3. Spec /\ []RequestsApart => []LifeInv
  BY <1>1, <1>2, TypeCorrect, HistoryHolds, PTL DEF Spec
<1>4. Init => Lifecycle!Init
  BY DEF Init, Lifecycle!Init, Absent, Lifecycle!Absent
<1>5. TypeOK /\ LifeInv /\ [Next]_vars => [Lifecycle!Next]_(Lifecycle!vars)
  BY LifecycleStep
<1> QED
  BY <1>3, <1>4, <1>5, TypeCorrect, PTL DEF Spec, FollowsLifecycle, Lifecycle!Spec

\* One client at a time never has two requests in flight.
THEOREM OneClientImplementsLifecycle ==
  ASSUME MaxOverruns = 0, MaxCancels = 0, \A b, c \in Clients : b = c
  PROVE  Spec => FollowsLifecycle
<1>1. RequestsApart
  BY DEF RequestsApart
<1>2. []RequestsApart
  BY <1>1, PTL
<1> QED
  BY <1>2, PipelineImplementsLifecycle, PTL

-----------------------------------------------------------------------------
(* What CANCELLED needs to stay                                            *)
(*                                                                         *)
(* CancelledIsFinal does not hold, as a run shows.  What breaks it is a    *)
(* transaction that had read the document before the cancellation          *)
(* committed and writes it after.                                          *)

\* Nobody has read document d to write it back, but for other cancellations.
\* The failure path counts: it decides by the status it has read.
NobodyHolds(d) ==
  /\ \A w \in Workers : phase[w] # "idle" => claim[w].doc # d
  /\ \A c \in Clients : InFlight(c, "reprocess") => request[c].doc # d

\* A step that cancels a document finds no transaction at work on it.
QuietCancel ==
  \A d \in Docs : status[d] # "CANCELLED" /\ status'[d] = "CANCELLED" => NobodyHolds(d)

\* Whoever is at work on document d knows that it is cancelled, and no
\* reprocessing of it is in flight.
AllKnowCancelled(d) ==
  /\ \A w \in Workers : phase[w] # "idle" /\ claim[w].doc = d => seen[w] = "CANCELLED"
  /\ \A c \in Clients : InFlight(c, "reprocess") => request[c].doc # d

CancelStands == \A d \in Docs : status[d] = "CANCELLED" => AllKnowCancelled(d)

\* A handler that goes on writes only the document of its task, and has not
\* seen it cancelled.
LEMMA HandlerWrites ==
  ASSUME TypeOK, NEW w \in Workers, HandlerSucceeds(w)
  PROVE  /\ phase[w] # "idle" /\ seen[w] # "CANCELLED" /\ Finish(w) /\ UNCHANGED request
         /\ \A d \in Docs : d # claim[w].doc => status'[d] = status[d]
<1>1. phase[w] # "idle" /\ seen[w] # "CANCELLED" /\ Finish(w) /\ UNCHANGED request
  BY DEF HandlerSucceeds, Handling, HandleValidate, HandlePdfExtract, HandleOcr,
     HandleClassify, HandleEmbed, HandleGraph, HandleFinalize
<1>2. CASE HandleGraph(w)
  BY <1>1, <1>2 DEF HandleGraph
<1>3. CASE ~HandleGraph(w)
  <2>1. \E from, to \in DocStatus : MoveDocument(w, from, to)
    BY <1>3 DEF HandlerSucceeds, HandleValidate, HandlePdfExtract, HandleOcr, HandleClassify,
       HandleEmbed, HandleFinalize, DocStatus, ProcessingStatus
  <2>2. \A d \in Docs : d # claim[w].doc => status'[d] = status[d]
    BY <2>1 DEF MoveDocument, TypeOK
  <2> QED
    BY <1>1, <2>2
<1> QED
  BY <1>2, <1>3

\* No step takes a document out of CANCELLED while everybody knows.
LEMMA CancelKept ==
  ASSUME TypeOK, CancelStands, [Next]_vars, NEW d \in Docs, status[d] = "CANCELLED"
  PROVE  status'[d] = "CANCELLED"
<1>0. AllKnowCancelled(d)
  BY DEF CancelStands
<1>1. ASSUME NEW w \in Workers, WorkerStep(w)
      PROVE  status'[d] = "CANCELLED"
  <2>1. CASE HandlerSucceeds(w)
    BY <1>0, <2>1, HandlerWrites DEF AllKnowCancelled
  <2>2. CASE BuryTask(w)
    <3>1. phase[w] # "idle"
      BY <2>2 DEF BuryTask
    <3>2. CASE claim[w].doc = d
      <4>1. seen[w] \in TerminalStates
        BY <1>0, <3>1, <3>2 DEF AllKnowCancelled, TerminalStates
      <4> QED
        BY <2>2, <4>1 DEF BuryTask
    <3>3. CASE claim[w].doc # d
      BY <2>2, <3>3 DEF BuryTask, TypeOK
    <3> QED
      BY <3>2, <3>3
  <2>3. CASE UNCHANGED status
    BY <2>3
  <2> QED
    BY <1>1, <2>1, <2>2, <2>3 DEF WorkerStep, Claim, BeginStage, HandlerStops, RetryLater, GiveUp, Crash, docVars
<1>2. ASSUME NEW expired \in SUBSET Running, Reclaim(expired)
      PROVE  status'[d] = "CANCELLED"
  BY <1>2 DEF Reclaim, docVars
<1>3. ASSUME NEW e \in Docs, Upload(e)
      PROVE  status'[d] = "CANCELLED"
  BY <1>3 DEF Upload, Absent, TypeOK
<1>4. ASSUME NEW c \in Clients, ClientStep(c)
      PROVE  status'[d] = "CANCELLED"
  <2>1. CASE \E e \in Docs : BeginCancel(c, e) \/ BeginReprocess(c, e)
    BY <2>1 DEF BeginCancel, BeginReprocess, docVars
  <2>2. CASE CommitCancel(c)
    BY <2>2 DEF CommitCancel, TypeOK
  <2>3. CASE CommitReprocess(c)
    <3>1. request[c].doc # d
      BY <1>0, <2>3 DEF CommitReprocess, AllKnowCancelled
    <3> QED
      BY <2>3, <3>1 DEF CommitReprocess, TypeOK
  <2> QED
    BY <1>4, <2>1, <2>2, <2>3 DEF ClientStep
<1> QED
  BY <1>1, <1>2, <1>3, <1>4 DEF Next, vars, docVars

\* A transaction that reads a document that is CANCELLED after its step
\* finds it CANCELLED: nobody who starts work on it can overlook that.
LEMMA ReadersKnow ==
  ASSUME TypeOK, [Next]_vars, NEW d \in Docs, status'[d] = "CANCELLED", AllKnowCancelled(d)
  PROVE  AllKnowCancelled(d)'
<1> DEFINE Working(w) == phase[w] # "idle" /\ claim[w].doc = d => seen[w] = "CANCELLED"
           Asking(c) == InFlight(c, "reprocess") => request[c].doc # d
<1>0. /\ \A w \in Workers : Working(w)
      /\ \A c \in Clients : Asking(c)
  BY DEF AllKnowCancelled
<1>1. CASE UNCHANGED <<phase, claim, seen, request>>
  BY <1>0, <1>1 DEF AllKnowCancelled, InFlight
<1>2. ASSUME NEW w \in Workers, Finish(w) \/ Crash(w), UNCHANGED request
      PROVE  AllKnowCancelled(d)'
  <2>1. \A v \in Workers : v # w => phase'[v] = phase[v] /\ claim'[v] = claim[v] /\ seen'[v] = seen[v]
    BY <1>2 DEF Finish, Crash, TypeOK
  <2>2. phase'[w] = "idle"
    BY <1>2 DEF Finish, Crash, TypeOK
  <2> QED
    BY <1>0, <1>2, <2>1, <2>2 DEF AllKnowCancelled, InFlight
<1>3. ASSUME NEW w \in Workers, NEW c \in batch[w], BeginStage(w, c)
      PROVE  AllKnowCancelled(d)'
  <2>1. \A v \in Workers : v # w => phase'[v] = phase[v] /\ claim'[v] = claim[v] /\ seen'[v] = seen[v]
    BY <1>3 DEF BeginStage, TypeOK
  <2>2. claim'[w] = c /\ seen'[w] = status[c.doc] /\ status' = status /\ request' = request
    BY <1>3 DEF BeginStage, TypeOK, docVars
  <2> QED
    BY <1>0, <2>1, <2>2 DEF AllKnowCancelled, InFlight
<1>4. ASSUME NEW w \in Workers, GiveUp(w)
      PROVE  AllKnowCancelled(d)'
  <2>1. \A v \in Workers : v # w => phase'[v] = phase[v] /\ seen'[v] = seen[v]
    BY <1>4 DEF GiveUp, TypeOK
  <2>2. seen'[w] = status[claim[w].doc] /\ claim' = claim /\ status' = status /\ request' = request
    BY <1>4 DEF GiveUp, TypeOK, docVars
  <2> QED
    BY <1>0, <2>1, <2>2 DEF AllKnowCancelled, InFlight
<1>5. ASSUME NEW c \in Clients, ClientStep(c)
      PROVE  AllKnowCancelled(d)'
  <2>1. UNCHANGED <<phase, claim, seen>>
    BY <1>5 DEF ClientStep, BeginCancel, BeginReprocess, CommitCancel, CommitReprocess, workerVars
  <2>2. \A b \in Clients : b # c => request'[b] = request[b]
    BY <1>5 DEF ClientStep, BeginCancel, BeginReprocess, CommitCancel, CommitReprocess, Answered, TypeOK
  <2>3. InFlight(c, "reprocess")' => request'[c].doc # d
    <3>1. CASE \E e \in Docs : BeginCancel(c, e)
      BY <3>1 DEF BeginCancel, InFlight, TypeOK
    <3>2. ASSUME NEW e \in Docs, BeginReprocess(c, e)
          PROVE  request'[c].doc # d
      <4>1. request'[c].doc = e /\ status'[e] \in {"FAILED", "COMPLETED"}
        BY <3>2 DEF BeginReprocess, TypeOK, docVars
      <4> QED
        BY <4>1
    <3>3. CASE CommitCancel(c) \/ CommitReprocess(c)
      BY <3>3 DEF CommitCancel, CommitReprocess, Answered, InFlight, TypeOK
    <3> QED
      BY <1>5, <3>1, <3>2, <3>3 DEF ClientStep
  <2> QED
    BY <1>0, <2>1, <2>2, <2>3 DEF AllKnowCancelled, InFlight
<1>6. ASSUME NEW w \in Workers, WorkerStep(w)
      PROVE  AllKnowCancelled(d)'
  <2>1. CASE \E due \in SUBSET Pending : Claim(w, due)
    BY <1>1, <2>1 DEF Claim
  <2>2. CASE HandlerSucceeds(w)
    BY <1>2, <2>2, HandlerWrites
  <2>3. CASE HandlerStops(w) \/ RetryLater(w) \/ BuryTask(w) \/ Crash(w)
    BY <1>2, <2>3 DEF HandlerStops, RetryLater, BuryTask, Crash
  <2> QED
    BY <1>3, <1>4, <1>6, <2>1, <2>2, <2>3 DEF WorkerStep
<1>7. CASE (\E expired \in SUBSET Running : Reclaim(expired)) \/ (\E e \in Docs : Upload(e)) \/ UNCHANGED vars
  BY <1>1, <1>7 DEF Reclaim, Upload, workerVars, vars
<1> QED
  BY <1>5, <1>6, <1>7 DEF Next

\* CANCELLED is final when cancellations find nobody at work on the document,
\* for any leases, crashes and expiries, any number of workers and requests:
\* the check each handler starts with stops every later stage, and the
\* failure path and reprocess respect what they read.  With the run that
\* refutes CancelledIsFinal this says what breaks it: a handler, a
\* failure transaction or a reprocess request that read the document before
\* the cancellation and commits after it.
THEOREM QuietCancelIsFinal == Spec /\ [][QuietCancel]_vars => CancelledIsFinal
<1>1. Init => CancelStands
  BY DEF Init, CancelStands, Absent
<1>2. TypeOK /\ CancelStands /\ [Next]_vars /\ [QuietCancel]_vars => CancelStands'
  <2> SUFFICES ASSUME TypeOK, CancelStands, [Next]_vars, [QuietCancel]_vars,
                      NEW d \in Docs, status'[d] = "CANCELLED"
               PROVE  AllKnowCancelled(d)'
    BY DEF CancelStands
  <2>1. AllKnowCancelled(d)
    BY DEF CancelStands, QuietCancel, NobodyHolds, AllKnowCancelled, vars, docVars
  <2> QED
    BY <2>1, ReadersKnow
<1>3. Spec /\ [][QuietCancel]_vars => []CancelStands
  BY <1>1, <1>2, TypeCorrect, PTL DEF Spec
<1>4. TypeOK /\ CancelStands /\ [Next]_vars =>
        [\A d \in Docs : status[d] = "CANCELLED" => status'[d] = "CANCELLED"]_vars
  BY CancelKept
<1> QED
  BY <1>3, <1>4, TypeCorrect, PTL DEF Spec, CancelledIsFinal
=============================================================================
