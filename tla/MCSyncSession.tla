--------------------------- MODULE MCSyncSession -----------------------------
(* Two letters and texts of up to two characters, one character to a chunk: a  *)
(* full synchronisation takes up to two frames, an edit up to two operations.  *)
EXTENDS SyncSession

CONSTANTS a, b

MCChar         == {a, b}
MCOpeningTexts == {<<a, b>>}

\* The runs that end in a counterexample need one letter only.
OneChar      == {a}
OneCharTexts == {<<a>>}
EmptyText    == {<<>>}
=============================================================================
