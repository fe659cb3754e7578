---------------------------- MODULE ReportStatus ----------------------------
(***************************************************************************)
(* The life cycle vocabulary that the Report document, the Session         *)
(* document and every guard over them share (backend/src/models/statuses). *)
(***************************************************************************)

STATUSES == {"waiting", "joined", "filling", "review",
             "signing", "finalizing", "sealed", "abandoned"}

(* The statuses under which the server refuses every client write.  No code *)
(* ever sets "filling", "review" or "abandoned".                            *)
LOCKED_STATUSES == {"signing", "finalizing", "sealed", "abandoned"}

=============================================================================
