--------------------------- MODULE DocumentStates ---------------------------
(***************************************************************************)
(* The document processing state machine and the pipeline stages, as      *)
(* declared in backend/app/domain/enums.py.  Constants only: the modules   *)
(* that have state extend this one.                                        *)
(***************************************************************************)

ProcessingStatus ==
  {"UPLOADED", "VALIDATING", "QUEUED", "PROCESSING", "OCR_RUNNING", "CLASSIFYING",
   "EMBEDDING", "COMPLETED", "FAILED", "RETRYING", "CANCELLED"}

\* A document id for which no row of `documents` has been committed yet.
Absent == "ABSENT"

DocStatus == ProcessingStatus \cup {Absent}

TerminalStates == {"COMPLETED", "FAILED", "CANCELLED"}

ActiveStages == {"PROCESSING", "OCR_RUNNING", "CLASSIFYING", "EMBEDDING"}

\* What the table leaves open to every active stage.
Interrupts == {"RETRYING", "FAILED", "CANCELLED"}

\* ALLOWED_TRANSITIONS: the statuses transition_to accepts from status s.
AllowedTransitions(s) ==
  CASE s = "UPLOADED"    -> {"VALIDATING", "CANCELLED"}
    [] s = "VALIDATING"  -> {"QUEUED", "FAILED", "CANCELLED"}
    [] s = "QUEUED"      -> {"PROCESSING", "FAILED", "CANCELLED"}
    [] s = "PROCESSING"  -> {"OCR_RUNNING"} \cup Interrupts
    [] s = "OCR_RUNNING" -> {"CLASSIFYING"} \cup Interrupts
    [] s = "CLASSIFYING" -> {"EMBEDDING"} \cup Interrupts
    [] s = "EMBEDDING"   -> {"COMPLETED"} \cup Interrupts
    [] s = "RETRYING"    -> ActiveStages \cup {"FAILED", "CANCELLED"}
    [] s = "FAILED"      -> {"QUEUED"}
    [] OTHER             -> {}

ProcessingStage ==
  {"validate", "pdf_extract", "ocr", "classify", "embed", "graph", "finalize"}
=============================================================================
