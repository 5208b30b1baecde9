--------------------------- MODULE EditorSelection ---------------------------
(***************************************************************************)
(* How client/window.cpp keeps the user's selection in place while it      *)
(* replaces the editor's text by the result of a remote operation.         *)
(***************************************************************************)
EXTENDS DocumentModel

\* A slip: the comparison is the wrong way round.
AdjustIndexForInsertReversed(index, pos, length) ==
    IF index < pos THEN index + length ELSE index

AdjustIndexForInsert(index, pos, length) ==
    IF index < pos THEN index ELSE index + length

AdjustIndexForDelete(index, pos, length) ==
    CASE index <= pos                          -> index
      [] index > pos /\ index <= pos + length  -> pos
      [] OTHER                                 -> index - length

AdjustIndex(index, op) ==
    IF op.type = "INSERT" THEN AdjustIndexForInsert(index, op.pos, Len(op.text))
                          ELSE AdjustIndexForDelete(index, op.pos, op.len)

ClampIndex(index, length) == IF index <= length THEN index ELSE length

\* The selection ApplySyncApply puts back after it applied op, giving text.
AdjustSelection(selection, op, text) ==
    [start |-> ClampIndex(AdjustIndex(selection.start, op), Len(text)),
     end   |-> ClampIndex(AdjustIndex(selection.end, op), Len(text))]
=============================================================================
