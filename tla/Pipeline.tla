------------------------------ MODULE Pipeline ------------------------------
(***************************************************************************)
(* The document pipeline: the Postgres job queue `pipeline_tasks`, the     *)
(* workers that drain it (interfaces/worker), the stage handlers, and the  *)
(* requests of the API that touch the same rows (upload, cancel,           *)
(* reprocess).                                                             *)
(*                                                                         *)
(* Transactions.  The database runs at READ COMMITTED and no row is locked *)
(* by a read, so a transaction that reads a document and later writes it   *)
(* is two steps here: one that takes the read into memory, one that        *)
(* applies every write at the commit.  Whatever commits in between is      *)
(* seen by neither.                                                        *)
(*                                                                         *)
(* Time.  Clocks are abstracted: any set of pending rows may be due        *)
(* (run_after), and the lease of a claimed row may run out at any moment   *)
(* (locked_at older than the visibility timeout).  MaxOverruns bounds how  *)
(* often it runs out under a worker that is still at work; 0 says that     *)
(* leases outlive the work they cover.                                     *)
(***************************************************************************)
EXTENDS DocumentStates, Naturals, FiniteSets

CONSTANTS
  Docs,            \* document ids
  Workers,         \* runner processes (worker ids)
  Clients,         \* API requests that can be in flight at once
  None,            \* no worker holds the row; a worker has no task at hand
  MaxAttempts,     \* settings.task_max_retries
  BatchSize,       \* settings.queue_batch_size
  MaxCrashes,      \* bound: crashes of a worker
  MaxOverruns,     \* bound: rows whose lease expires under a live worker
  MaxCancels,      \* bound: cancel requests
  MaxReprocesses   \* bound: reprocess requests

ASSUME PipelineAssumption ==
  /\ IsFiniteSet(Docs)
  /\ None \notin Workers
  /\ MaxAttempts \in Nat \ {0}
  /\ BatchSize \in Nat \ {0}
  /\ MaxCrashes \in Nat
  /\ MaxOverruns \in Nat
  /\ MaxCancels \in Nat
  /\ MaxReprocesses \in Nat

VARIABLES
  status,      \* status[d]: column documents.status
  job,         \* job[d]: row of processing_jobs, its stage and stage_status
  audit,       \* audit[d]: the actions audit_logs holds for document d
  task,        \* task[<<d, s>>]: row of pipeline_tasks, one per (document, stage)
  batch,       \* batch[w]: ClaimedTasks of worker w not yet finished
  phase,       \* phase[w]: what worker w is doing
  claim,       \* claim[w]: the ClaimedTask at hand, or None
  seen,        \* seen[w]: the document status worker w read into memory
  request,     \* request[c]: the API request client c has in flight, or None
  crashes, overruns, cancels, reprocesses    \* uses of the bounds above

docVars    == <<status, job, audit>>
workerVars == <<batch, phase, claim, seen>>
budgets    == <<crashes, overruns, cancels, reprocesses>>
vars       == <<docVars, task, workerVars, request, budgets>>

-----------------------------------------------------------------------------
(* Rows and records                                                        *)

Tasks == Docs \X ProcessingStage

TaskStatus == {"absent", "pending", "running", "succeeded", "dead"}

TaskRow == [status: TaskStatus, attempts: Nat, lockedBy: Workers \cup {None}]

NoRow == [status |-> "absent", attempts |-> 0, lockedBy |-> None]

ClaimedTask == [doc: Docs, stage: ProcessingStage, attempts: Nat]

RowOf(c) == <<c.doc, c.stage>>

\* stage_status "none" stands for a job row that does not exist yet.
JobRow == [stage: ProcessingStage, status: {"none", "succeeded", "failed"}]

AuditAction == {"upload", "cancel", "reprocess", "completed", "failed"}

Request == [op: {"cancel", "reprocess"}, doc: Docs, seen: DocStatus]

Finished == TerminalStates \cup {Absent}

\* The document exists and its status is not terminal.
InProgress(d) == status[d] \notin Finished

-----------------------------------------------------------------------------
(* SqlAlchemyTaskQueue: what each statement does to one row                *)

\* enqueue: INSERT ... ON CONFLICT (document_id, stage) DO UPDATE: whatever
\* was there, running rows included, starts afresh.
Enqueued == [status |-> "pending", attempts |-> 0, lockedBy |-> None]

Claimed(row, w) == [status |-> "running", attempts |-> row.attempts + 1, lockedBy |-> w]

\* mark_succeeded, mark_retry, mark_dead and reclaim_expired each give the
\* lease up; none looks at who holds it.
Released(row, st) == [row EXCEPT !.status = st, !.lockedBy = None]

-----------------------------------------------------------------------------
(* The runner                                                              *)

Free(w) == phase[w] = "idle" /\ batch[w] = {}

\* Rows locked by a failure transaction between its first statement,
\* mark_dead, and its commit.  A claim skips them (SKIP LOCKED), any other
\* statement waits.
Locked == {RowOf(claim[v]) : v \in {v \in Workers : phase[v] = "burying"}}

\* Mutation of Pending: claim_batch without its test of the row's status.
AnyUnfinished == {t \in Tasks : task[t].status \in {"pending", "running"}}

Pending == {t \in Tasks : task[t].status = "pending"}

Running == {t \in Tasks : task[t].status = "running"}

\* claim_batch in a transaction of its own: `due` are the first rows, at most
\* BatchSize, that are due and not locked by another claim.
Claim(w, due) ==
  /\ Free(w)
  /\ due # {}
  /\ due \subseteq Pending \ Locked
  /\ Cardinality(due) <= BatchSize
  /\ task' = [t \in Tasks |-> IF t \in due THEN Claimed(task[t], w) ELSE task[t]]
  /\ batch' = [batch EXCEPT ![w] =
       {[doc |-> t[1], stage |-> t[2], attempts |-> task[t].attempts + 1] : t \in due}]
  /\ UNCHANGED <<docVars, phase, claim, seen, request, budgets>>

\* Mutation of BeginStage: the task leaves the batch before it is handled.
BeginStagePopped(w, c) ==
  /\ phase[w] = "idle"
  /\ c \in batch[w]
  /\ phase' = [phase EXCEPT ![w] = "handling"]
  /\ claim' = [claim EXCEPT ![w] = c]
  /\ seen' = [seen EXCEPT ![w] = status[c.doc]]
  /\ batch' = [batch EXCEPT ![w] = @ \ {c}]
  /\ UNCHANGED <<docVars, task, request, budgets>>

\* process_one up to the first read of the handler, documents.get.
BeginStage(w, c) ==
  /\ phase[w] = "idle"
  /\ c \in batch[w]
  /\ phase' = [phase EXCEPT ![w] = "handling"]
  /\ claim' = [claim EXCEPT ![w] = c]
  /\ seen' = [seen EXCEPT ![w] = status[c.doc]]
  /\ UNCHANGED <<docVars, task, batch, request, budgets>>

\* The task at hand is finished, one way or another.
Finish(w) ==
  /\ batch' = [batch EXCEPT ![w] = @ \ {claim[w]}]
  /\ phase' = [phase EXCEPT ![w] = "idle"]
  /\ claim' = [claim EXCEPT ![w] = None]
  /\ seen' = [seen EXCEPT ![w] = Absent]

\* Worker w runs the handler of stage s and goes on past its check for
\* CANCELLED; process_one commits it with mark_succeeded.
Handling(w, s) ==
  /\ phase[w] = "handling"
  /\ claim[w].stage = s
  /\ seen[w] # "CANCELLED"
  /\ Finish(w)
  /\ UNCHANGED <<request, budgets>>

\* Mutation of MoveDocument: the transition is not conditional.
MoveDocumentAlways(w, from, to) ==
  status' = [status EXCEPT ![claim[w].doc] = to]

\* documents.update(doc): the row takes the status held in memory, moved
\* along one edge if the handler found it at `from`.
MoveDocument(w, from, to) ==
  status' = [status EXCEPT ![claim[w].doc] = IF seen[w] = from THEN to ELSE seen[w]]

\* Mutation of ChainTo: mark_succeeded is forgotten.
ChainToUnmarked(w, next) ==
  LET c == claim[w] IN
  /\ {RowOf(c), <<c.doc, next>>} \cap Locked = {}
  /\ job' = [job EXCEPT ![c.doc] = [stage |-> c.stage, status |-> "succeeded"]]
  /\ task' = [task EXCEPT ![<<c.doc, next>>] = Enqueued]
  /\ UNCHANGED audit

\* Mutation of ChainTo: the job is moved to the next stage at once.
ChainToAhead(w, next) ==
  LET c == claim[w] IN
  /\ {RowOf(c), <<c.doc, next>>} \cap Locked = {}
  /\ job' = [job EXCEPT ![c.doc] = [stage |-> next, status |-> "succeeded"]]
  /\ task' = [task EXCEPT ![RowOf(c)] = Released(@, "succeeded"),
                          ![<<c.doc, next>>] = Enqueued]
  /\ UNCHANGED audit

\* record_attempt, succeed, upsert_job; enqueue of the next stage;
\* mark_succeeded.
ChainTo(w, next) ==
  LET c == claim[w] IN
  /\ {RowOf(c), <<c.doc, next>>} \cap Locked = {}
  /\ job' = [job EXCEPT ![c.doc] = [stage |-> c.stage, status |-> "succeeded"]]
  /\ task' = [task EXCEPT ![RowOf(c)] = Released(@, "succeeded"),
                          ![<<c.doc, next>>] = Enqueued]
  /\ UNCHANGED audit

-----------------------------------------------------------------------------
(* The stage handlers.  One step is the commit of the whole transaction.   *)

HandleValidate(w) ==
  /\ Handling(w, "validate")
  /\ MoveDocument(w, "UPLOADED", "QUEUED")      \* through VALIDATING
  /\ ChainTo(w, "pdf_extract")

\* Mutation of HandlePdfExtract: the ocr stage is skipped.
HandlePdfExtractSkipping(w) ==
  /\ Handling(w, "pdf_extract")
  /\ MoveDocument(w, "QUEUED", "PROCESSING")
  /\ ChainTo(w, "classify")

HandlePdfExtract(w) ==
  /\ Handling(w, "pdf_extract")
  /\ MoveDocument(w, "QUEUED", "PROCESSING")
  /\ ChainTo(w, "ocr")

HandleOcr(w) ==
  /\ Handling(w, "ocr")
  /\ MoveDocument(w, "PROCESSING", "OCR_RUNNING")
  /\ ChainTo(w, "classify")

HandleClassify(w) ==
  /\ Handling(w, "classify")
  /\ MoveDocument(w, "OCR_RUNNING", "CLASSIFYING")
  /\ ChainTo(w, "embed")

HandleEmbed(w) ==
  /\ Handling(w, "embed")
  /\ MoveDocument(w, "CLASSIFYING", "EMBEDDING")
  /\ ChainTo(w, "graph")

\* handle_graph does not save the document.
HandleGraph(w) ==
  /\ Handling(w, "graph")
  /\ ChainTo(w, "finalize")
  /\ UNCHANGED status

\* Mutation of HandleFinalize: the audit entry is forgotten.
HandleFinalizeUnaudited(w) ==
  LET c == claim[w] IN
  /\ Handling(w, "finalize")
  /\ RowOf(c) \notin Locked
  /\ MoveDocument(w, "EMBEDDING", "COMPLETED")
  /\ job' = [job EXCEPT ![c.doc] = [stage |-> "finalize", status |-> "succeeded"]]
  /\ task' = [task EXCEPT ![RowOf(c)] = Released(@, "succeeded")]
  /\ UNCHANGED audit

\* The audit entry is written whatever the status of the document.
HandleFinalize(w) ==
  LET c == claim[w] IN
  /\ Handling(w, "finalize")
  /\ RowOf(c) \notin Locked
  /\ MoveDocument(w, "EMBEDDING", "COMPLETED")
  /\ job' = [job EXCEPT ![c.doc] = [stage |-> "finalize", status |-> "succeeded"]]
  /\ task' = [task EXCEPT ![RowOf(c)] = Released(@, "succeeded")]
  /\ audit' = [audit EXCEPT ![c.doc] = @ \cup {"completed"}]

HandlerSucceeds(w) ==
  \/ HandleValidate(w) \/ HandlePdfExtract(w) \/ HandleOcr(w) \/ HandleClassify(w)
  \/ HandleEmbed(w) \/ HandleGraph(w) \/ HandleFinalize(w)

\* The handler found the document CANCELLED and returned False: the task
\* succeeds and no next stage is enqueued.
HandlerStops(w) ==
  /\ phase[w] = "handling"
  /\ seen[w] = "CANCELLED"
  /\ RowOf(claim[w]) \notin Locked
  /\ task' = [task EXCEPT ![RowOf(claim[w])] = Released(@, "succeeded")]
  /\ Finish(w)
  /\ UNCHANGED <<docVars, request, budgets>>

-----------------------------------------------------------------------------
(* _handle_failure.  An exception rolls the handler back.                  *)

\* Mutation of MayRetry: one attempt too many.
MayRetryOnceMore(c) == c.attempts <= MaxAttempts

MayRetry(c) == c.attempts < MaxAttempts

\* A retryable exception with attempts left: mark_retry.
RetryLater(w) ==
  /\ phase[w] = "handling"
  /\ MayRetry(claim[w])
  /\ RowOf(claim[w]) \notin Locked
  /\ task' = [task EXCEPT ![RowOf(claim[w])] = Released(@, "pending")]
  /\ Finish(w)
  /\ UNCHANGED <<docVars, request, budgets>>

\* No attempt left, or an exception that is not retryable: of those a handler
\* can raise only PdfBombError is, from validate_safety.  The failure
\* transaction locks the task's row and reads the document.
GiveUp(w) ==
  /\ phase[w] = "handling"
  /\ MayRetry(claim[w]) => claim[w].stage = "validate" /\ seen[w] # "CANCELLED"
  /\ RowOf(claim[w]) \notin Locked
  /\ phase' = [phase EXCEPT ![w] = "burying"]
  /\ seen' = [seen EXCEPT ![w] = status[claim[w].doc]]
  /\ UNCHANGED <<docVars, task, batch, claim, request, budgets>>

\* Mutation of BuryTask: the document is left as it is.
BuryTaskOnly(w) ==
  LET c == claim[w] IN
  /\ phase[w] = "burying"
  /\ job' = [job EXCEPT ![c.doc].status = "failed"]
  /\ audit' = [audit EXCEPT ![c.doc] = @ \cup {"failed"}]
  /\ task' = [task EXCEPT ![RowOf(c)] = Released(@, "dead")]
  /\ Finish(w)
  /\ UNCHANGED <<status, request, budgets>>

\* ... and commits mark_dead, mark_failed, job.fail and the audit entry.  The
\* job keeps the stage of the last committed handler: record_attempt was
\* rolled back.
BuryTask(w) ==
  LET c == claim[w] IN
  /\ phase[w] = "burying"
  /\ status' = IF seen[w] \in TerminalStates THEN status
               ELSE [status EXCEPT ![c.doc] = "FAILED"]
  /\ job' = [job EXCEPT ![c.doc].status = "failed"]
  /\ audit' = [audit EXCEPT ![c.doc] = @ \cup {"failed"}]
  /\ task' = [task EXCEPT ![RowOf(c)] = Released(@, "dead")]
  /\ Finish(w)
  /\ UNCHANGED <<request, budgets>>

-----------------------------------------------------------------------------
(* Crashes and leases                                                      *)

\* The worker loses its batch and comes back: process death, or an exception
\* out of _handle_failure that ends run_forever.  An open transaction is
\* rolled back; rows it claimed stay `running`.
Crash(w) ==
  /\ crashes < MaxCrashes
  /\ ~Free(w)
  /\ crashes' = crashes + 1
  /\ batch' = [batch EXCEPT ![w] = {}]
  /\ phase' = [phase EXCEPT ![w] = "idle"]
  /\ claim' = [claim EXCEPT ![w] = None]
  /\ seen' = [seen EXCEPT ![w] = Absent]
  /\ UNCHANGED <<docVars, task, request, overruns, cancels, reprocesses>>

\* Rows whose lease belongs to the batch worker w is working through.  They
\* share one locked_at.
Held(w) == {t \in Running : task[t].lockedBy = w /\ \E c \in batch[w] : RowOf(c) = t}

\* The rows of `expired` that somebody is still at work on.
Overrun(expired) == {t \in expired : \E w \in Workers : t \in Held(w)}

\* Mutation of Reclaim: a row without attempts left is not reclaimed.
ReclaimRetryable(expired) ==
  /\ \E w \in Workers : Free(w)
  /\ expired # {}
  /\ expired \subseteq Running \ Locked
  /\ \A t \in expired : task[t].attempts < MaxAttempts
  /\ \A w \in Workers : Held(w) \cap expired = {}
  /\ task' = [t \in Tasks |-> IF t \in expired THEN Released(task[t], "pending") ELSE task[t]]
  /\ UNCHANGED <<docVars, workerVars, request, budgets>>

\* reclaim_expired, run by a worker between two ticks: `expired` are the
\* running rows whose lease ran out.
Reclaim(expired) ==
  /\ \E w \in Workers : Free(w)
  /\ expired # {}
  /\ expired \subseteq Running \ Locked
  /\ \A w \in Workers : Held(w) \ Locked \subseteq expired \/ Held(w) \cap expired = {}
  /\ overruns' = overruns + Cardinality(Overrun(expired))
  /\ overruns' <= MaxOverruns
  /\ task' = [t \in Tasks |-> IF t \in expired THEN Released(task[t], "pending") ELSE task[t]]
  /\ UNCHANGED <<docVars, workerVars, request, crashes, cancels, reprocesses>>

-----------------------------------------------------------------------------
(* DocumentService                                                         *)

\* The document, its audit entry and its first task in one transaction.
Upload(d) ==
  /\ status[d] = Absent
  /\ status' = [status EXCEPT ![d] = "UPLOADED"]
  /\ audit' = [audit EXCEPT ![d] = @ \cup {"upload"}]
  /\ task' = [task EXCEPT ![<<d, "validate">>] = Enqueued]
  /\ UNCHANGED <<job, workerVars, request, budgets>>

\* Client c has a request `op` whose transaction has read its document.
InFlight(c, op) == request[c] # None /\ request[c].op = op

Answered(c) == request' = [request EXCEPT ![c] = None]

\* cancel: get, and doc.cancel() in memory; a terminal document is refused.
BeginCancel(c, d) ==
  /\ request[c] = None
  /\ cancels < MaxCancels
  /\ InProgress(d)
  /\ request' = [request EXCEPT ![c] = [op |-> "cancel", doc |-> d, seen |-> status[d]]]
  /\ cancels' = cancels + 1
  /\ UNCHANGED <<docVars, task, workerVars, crashes, overruns, reprocesses>>

CommitCancel(c) ==
  LET d == request[c].doc IN
  /\ InFlight(c, "cancel")
  /\ status' = [status EXCEPT ![d] = "CANCELLED"]
  /\ audit' = [audit EXCEPT ![d] = @ \cup {"cancel"}]
  /\ Answered(c)
  /\ UNCHANGED <<job, task, workerVars, budgets>>

\* reprocess: get; only FAILED and COMPLETED documents are accepted.
BeginReprocess(c, d) ==
  /\ request[c] = None
  /\ reprocesses < MaxReprocesses
  /\ status[d] \in {"FAILED", "COMPLETED"}
  /\ request' = [request EXCEPT ![c] = [op |-> "reprocess", doc |-> d, seen |-> status[d]]]
  /\ reprocesses' = reprocesses + 1
  /\ UNCHANGED <<docVars, task, workerVars, crashes, overruns, cancels>>

\* A FAILED document goes back to QUEUED, a COMPLETED one stays COMPLETED.
CommitReprocess(c) ==
  LET d == request[c].doc IN
  /\ InFlight(c, "reprocess")
  /\ <<d, "validate">> \notin Locked
  /\ status' = [status EXCEPT ![d] =
       IF request[c].seen = "FAILED" THEN "QUEUED" ELSE request[c].seen]
  /\ task' = [task EXCEPT ![<<d, "validate">>] = Enqueued]
  /\ audit' = [audit EXCEPT ![d] = @ \cup {"reprocess"}]
  /\ Answered(c)
  /\ UNCHANGED <<job, workerVars, budgets>>

-----------------------------------------------------------------------------
(* The specification                                                       *)

Init ==
  /\ status = [d \in Docs |-> Absent]
  /\ job = [d \in Docs |-> [stage |-> "validate", status |-> "none"]]
  /\ audit = [d \in Docs |-> {}]
  /\ task = [t \in Tasks |-> NoRow]
  /\ batch = [w \in Workers |-> {}]
  /\ phase = [w \in Workers |-> "idle"]
  /\ claim = [w \in Workers |-> None]
  /\ seen = [w \in Workers |-> Absent]
  /\ request = [c \in Clients |-> None]
  /\ crashes = 0 /\ overruns = 0 /\ cancels = 0 /\ reprocesses = 0

WorkerStep(w) ==
  \/ \E due \in SUBSET Pending : Claim(w, due)
  \/ \E c \in batch[w] : BeginStage(w, c)
  \/ HandlerSucceeds(w) \/ HandlerStops(w)
  \/ RetryLater(w) \/ GiveUp(w) \/ BuryTask(w)
  \/ Crash(w)

ClientStep(c) ==
  \/ \E d \in Docs : BeginCancel(c, d) \/ BeginReprocess(c, d)
  \/ CommitCancel(c) \/ CommitReprocess(c)

Next ==
  \/ \E w \in Workers : WorkerStep(w)
  \/ \E expired \in SUBSET Running : Reclaim(expired)
  \/ \E d \in Docs : Upload(d)
  \/ \E c \in Clients : ClientStep(c)

Spec == Init /\ [][Next]_vars

(* Fairness.  A handler returns or raises and its transaction ends: weak   *)
(* fairness of each worker's own steps.  run_forever polls for ever, a     *)
(* retry delay is at most 300 s, and rows are claimed in the order of      *)
(* run_after: a row that stays claimable is claimed.  run_forever also     *)
(* reclaims after every busy tick and every 30 idle ones.  Crashes,        *)
(* uploads and the requests of users are under no obligation to happen.    *)
Fairness ==
  /\ \A w \in Workers :
       /\ WF_vars(\E c \in batch[w] : BeginStage(w, c))
       /\ WF_vars(HandlerSucceeds(w) \/ HandlerStops(w) \/ RetryLater(w) \/ GiveUp(w))
       /\ WF_vars(BuryTask(w))
  /\ \A t \in Tasks :
       /\ WF_vars(\E w \in Workers : \E due \in SUBSET Pending : t \in due /\ Claim(w, due))
       /\ WF_vars(\E expired \in SUBSET Running : t \in expired /\ Reclaim(expired))

FairSpec == Spec /\ Fairness

-----------------------------------------------------------------------------
(* Properties that hold whatever the leases do                             *)

\* Every variable has its type; a worker at work has a claim, from its batch.
TypeOK ==
  /\ status \in [Docs -> DocStatus]
  /\ job \in [Docs -> JobRow]
  /\ audit \in [Docs -> SUBSET AuditAction]
  /\ task \in [Tasks -> TaskRow]
  /\ batch \in [Workers -> SUBSET ClaimedTask]
  /\ phase \in [Workers -> {"idle", "handling", "burying"}]
  /\ claim \in [Workers -> ClaimedTask \cup {None}]
  /\ seen \in [Workers -> DocStatus]
  /\ request \in [Clients -> Request \cup {None}]
  /\ <<crashes, overruns, cancels, reprocesses>> \in Nat \X Nat \X Nat \X Nat
  /\ \A w \in Workers : phase[w] # "idle" => claim[w] \in batch[w]

\* The audit entry that goes with a terminal status.
AuditOf(st) ==
  CASE st = "COMPLETED" -> "completed" [] st = "FAILED" -> "failed" [] st = "CANCELLED" -> "cancel"

\* A document is in a terminal status only if its audit log says how it got
\* there, although handlers and requests write back statuses they read long
\* before (stages.py, document_service.py: update and audit.add of the same
\* transaction).
TerminalIsAudited ==
  \A d \in Docs : status[d] \in TerminalStates => AuditOf(status[d]) \in audit[d]

\* The stage whose task a document in status st must have: the one that the
\* handler which writes st enqueues.
EarnedBy(st) ==
  CASE st = "PROCESSING"  -> "ocr"
    [] st = "OCR_RUNNING" -> "classify"
    [] st = "CLASSIFYING" -> "embed"
    [] st = "EMBEDDING"   -> "graph"
    [] st = "COMPLETED"   -> "finalize"
    [] OTHER              -> "validate"

Exists(t) == task[t].status # "absent"

\* A document's status never runs ahead of its stages: it is in a stage's
\* status only if that stage has committed and enqueued its successor, and
\* COMPLETED only if the chain reached finalize, whatever zombies, retries
\* and reprocessing do to the rows.
StatusIsEarned ==
  \A d \in Docs : status[d] # Absent => Exists(<<d, EarnedBy(status[d])>>)

NeverReprocessed(d) == "reprocess" \notin audit[d]

\* Claims of a task beyond the configured limit are paid for by crashes and
\* expired leases: claim_batch counts an attempt each time, and only
\* _handle_failure compares the count with the limit.  (Reprocessing resets
\* the count under claims that still remember the old one.)
RetryBudget ==
  \A t \in Tasks :
    NeverReprocessed(t[1]) => task[t].attempts <= MaxAttempts + crashes + overruns

-----------------------------------------------------------------------------
(* Properties of a document that was not reprocessed, when leases outlive  *)
(* the work (MaxOverruns = 0), whatever crashes and cancellations happen   *)

Live(t) == task[t].status \in {"pending", "running"}

\* A document is in one stage at a time: its chain never forks.
OneStageAtATime ==
  \A d \in Docs : NeverReprocessed(d) =>
    \A s1, s2 \in ProcessingStage : Live(<<d, s1>>) /\ Live(<<d, s2>>) => s1 = s2

\* A worker that has a task in its batch holds that task's row, so that
\* mark_succeeded, mark_retry and mark_dead, which look at the id alone,
\* only ever touch a row the caller has leased.
ClaimsAreExclusive ==
  \A w \in Workers : \A c \in batch[w] : NeverReprocessed(c.doc) =>
    task[RowOf(c)].status = "running" /\ task[RowOf(c)].lockedBy = w

\* No document is stranded: while it is not terminal, some row of it is
\* queued or claimed (the transactional outbox of ADR 0005).
NoStrandedDocument ==
  \A d \in Docs : InProgress(d) /\ NeverReprocessed(d) =>
    \E s \in ProcessingStage : Live(<<d, s>>)

\* The job row, kept by the handlers and the failure path, agrees with the
\* queue, kept by mark_succeeded and mark_dead: the stage it calls succeeded
\* has, and it is failed exactly if a task was dead-lettered.
JobTracksQueue ==
  \A d \in Docs : NeverReprocessed(d) =>
    /\ job[d].status = "succeeded" => task[<<d, job[d].stage>>].status = "succeeded"
    /\ job[d].status = "failed" <=> \E s \in ProcessingStage : task[<<d, s>>].status = "dead"

\* Every uploaded document ends up terminal with nothing left in the queue,
\* whatever crashes, failures, cancellations and a reprocess come in between.
EverythingSettles ==
  \A d \in Docs :
    status[d] # Absent ~> (status[d] \in TerminalStates /\ \A s \in ProcessingStage : ~Live(<<d, s>>))

-----------------------------------------------------------------------------
(* The abstract specification                                              *)

Lifecycle == INSTANCE DocumentLifecycle

\* With leases that outlive the work and no cancellation, statuses and audit
\* entries behave as DocumentLifecycle says, through crashes, retries, dead
\* letters and a reprocess.
FollowsLifecycle == Lifecycle!Spec

-----------------------------------------------------------------------------
(* Statements of the repository's documents that the code does not keep    *)

\* enums.py:88, docs/02:111: CANCELLED is terminal, no transition leaves it.
CancelledIsFinal == [][\A d \in Docs : status[d] = "CANCELLED" => status'[d] = "CANCELLED"]_vars
=============================================================================
