---------------------------- MODULE MCEditReplay -----------------------------
(* A two-letter alphabet and texts of up to three characters: every overlap of *)
(* a common prefix with a common suffix occurs, and so does a full document.   *)
EXTENDS EditReplay
=============================================================================
