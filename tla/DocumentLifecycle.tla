------------------------- MODULE DocumentLifecycle --------------------------
(***************************************************************************)
(* What the platform promises about a document, with no queue, worker or   *)
(* request in sight: its persisted status only moves along the state       *)
(* machine of DocumentStates, a terminal status is reached together with   *)
(* the audit entry that records it, and nothing leaves COMPLETED or        *)
(* CANCELLED.  Pipeline.tla is compared with this specification.           *)
(***************************************************************************)
EXTENDS DocumentStates

CONSTANT Docs      \* the document ids an upload can create

VARIABLES status,  \* status[d]: column documents.status
          audit    \* audit[d]: the actions audit_logs holds for document d

vars == <<status, audit>>

AuditAction == {"upload", "cancel", "reprocess", "completed", "failed"}

Init ==
  /\ status = [d \in Docs |-> Absent]
  /\ audit = [d \in Docs |-> {}]

\* Document d moves to status `to`, and the audit log gains `entries`.
Become(d, to, entries) ==
  /\ status' = [status EXCEPT ![d] = to]
  /\ audit' = [audit EXCEPT ![d] = @ \cup entries]

Upload(d) ==
  /\ status[d] = Absent
  /\ Become(d, "UPLOADED", {"upload"})

\* One transaction of the pipeline may take two edges of the table:
\* VALIDATING is entered and left by the same handler.
Progress(d) ==
  \E via \in {status[d]} \cup AllowedTransitions(status[d]) :
    \E to \in AllowedTransitions(via) \ TerminalStates :
      /\ via \notin TerminalStates
      /\ Become(d, to, {})

Complete(d) ==
  /\ "COMPLETED" \in AllowedTransitions(status[d])
  /\ Become(d, "COMPLETED", {"completed"})

\* mark_failed: FAILED is reachable from any non-terminal status.
Fail(d) ==
  /\ status[d] \in ProcessingStatus \ TerminalStates
  /\ Become(d, "FAILED", {"failed"})

Cancel(d) ==
  /\ status[d] \in ProcessingStatus \ TerminalStates
  /\ Become(d, "CANCELLED", {"cancel"})

Reopen(d) ==
  /\ status[d] = "FAILED"
  /\ Become(d, "QUEUED", {"reprocess"})

\* An entry about a document whose status does not move: the reprocessing of
\* a completed document, and how that run of the pipeline ends.
Remark(d) ==
  /\ status[d] \in TerminalStates
  /\ \E entry \in {"reprocess", "completed", "failed"} :
       Become(d, status[d], {entry})

Next ==
  \E d \in Docs :
    Upload(d) \/ Progress(d) \/ Complete(d) \/ Fail(d) \/ Cancel(d) \/ Reopen(d) \/ Remark(d)

Spec == Init /\ [][Next]_vars
=============================================================================
