----------------------------- MODULE SyncReceiver -----------------------------
(***************************************************************************)
(* What a window does with an APPLY, the same in the native window and in  *)
(* the one that shows the page: ApplySyncApply of window.cpp and of        *)
(* webview_window.cpp.                                                     *)
(***************************************************************************)
EXTENDS DocumentModel

\* How ApplySyncApply treats an APPLY on a side with this id, revision and text.
ApplyOutcome(message, id, rev, text) ==
    CASE message.rev <= rev                                        -> "ignore"
      [] message.rev > rev /\ message.client = id                  -> "own"
      [] message.rev > rev + 1 /\ message.client # id              -> "resync"
      [] OTHER -> IF ApplyStatus(text, message.op) = "applied" THEN "apply" ELSE "resync"
=============================================================================
