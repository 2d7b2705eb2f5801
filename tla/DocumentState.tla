---------------------------- MODULE DocumentState ----------------------------
(***************************************************************************)
(* The document status machine of services/document_state.py: the table    *)
(* ALLOWED_TRANSITIONS and the predicate assert_transition tests, plus the *)
(* walks through it that the ingestion pipelines make.  A pipeline applies *)
(* several statuses inside one transaction, so what matters to the rest of *)
(* the system is whether the whole walk is accepted.                       *)
(***************************************************************************)

\* Statuses of a stored row, and the two ways of having no row: "new" was
\* never inserted, "gone" was deleted (a snapshot may still recreate it).
RowStatus == {"uploaded", "parsing", "processing", "pending_segment",
              "vectorizing", "ready", "error", "archived"}
NoRow == {"new", "gone"}

ALLOWED_TRANSITIONS ==
    [s \in RowStatus |->
        CASE s = "uploaded"        -> {"parsing", "error"}
          [] s = "parsing"         -> {"processing", "error"}
          [] s = "processing"      -> {"pending_segment", "error"}
          [] s = "pending_segment" -> {"vectorizing", "error", "processing"}
          [] s = "vectorizing"     -> {"ready", "error"}
          [] s = "ready"           -> {"archived", "pending_segment", "vectorizing", "error"}
          [] s = "error"           -> {"parsing", "processing", "pending_segment",
                                       "vectorizing", "archived"}
          [] s = "archived"        -> {}]

Allowed(from, to) == to \in ALLOWED_TRANSITIONS[from]

\* run_upload_pipeline: parse (in place when the row is already parsing),
\* process, segment, vectorize.  After parsing every later hop is in the table.
UploadWalk(s) == s = "parsing" \/ Allowed(s, "parsing")

\* run_resegment_pipeline on a row that already has normalized text: ready,
\* processing and error step back to pending_segment; any other status is left
\* as it is, and _vectorize then asks the table for the hop to vectorizing.
ResegmentWalkWithText(s) ==
    IF s \in {"ready", "processing", "error"} THEN Allowed(s, "pending_segment")
                                              ELSE Allowed(s, "vectorizing")

\* ... and on a row without text: uploaded and error go through parsing, any
\* other status must be able to hop to processing directly.
ResegmentWalkWithoutText(s) ==
    IF s \in {"uploaded", "error"} THEN Allowed(s, "parsing")
                                   ELSE s = "processing" \/ Allowed(s, "processing")

\* run_rollback_rebuild on a row that keeps its chunks: only _vectorize runs.
EmbedWalk(s) == s = "vectorizing" \/ Allowed(s, "vectorizing")
==============================================================================
