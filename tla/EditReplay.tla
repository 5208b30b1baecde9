----------------------------- MODULE EditReplay ------------------------------
(***************************************************************************)
(* One author and one replica: what the diff of client/editor_diff.cpp and *)
(* the operations of client/document_model.cpp promise together.  The      *)
(* author's editor turns each change into operations, in order; a replica  *)
(* that started from the same text applies them, later, one by one, under  *)
(* the selection of its own user.                                          *)
(***************************************************************************)
EXTENDS EditorDiff, EditorSelection

CONSTANT MaxPending     \* bound on the operations waiting for the replica

ASSUME PendingAssumption == MaxPending \in Nat

VARIABLES
    author,     \* last_known_text_ of the author: its editor after the last change
    pending,    \* operations computed and not yet applied by the replica
    replica,    \* the replica's text
    selection   \* what the replica's user has selected: characters start..end-1

replayVars == <<author, pending, replica, selection>>

\* The author's editor and the replica stay within the document limit and the selection
\* never gets a negative end, whatever waits between the two.
ReplayTypeOK ==
    /\ author \in Text
    /\ pending \in Seq(Operation)
    /\ replica \in Text
    /\ selection \in [start : Nat, end : Nat]

ReplayInit ==
    /\ author \in Text
    /\ pending = <<>>
    /\ replica = author
    /\ selection = [start |-> 0, end |-> 0]

\* ProcessEditorChange: the editor now holds text.
Change(text) ==
    /\ text # author
    /\ Len(pending \o ComputeEditorDiff(author, text)) <= MaxPending
    /\ author' = text
    /\ pending' = pending \o ComputeEditorDiff(author, text)
    /\ UNCHANGED <<replica, selection>>

\* The replica applies the oldest operation; one it rejects changes nothing.
ApplyNext ==
    /\ pending # <<>>
    /\ IF ApplyStatus(replica, Head(pending)) = "applied"
       THEN /\ replica' = Applied(replica, Head(pending))
            /\ selection' = AdjustSelection(selection, Head(pending), replica')
       ELSE UNCHANGED <<replica, selection>>
    /\ pending' = Tail(pending)
    /\ UNCHANGED author

\* The replica's user moves the caret or selects text.
Select(start, end) ==
    /\ start <= end
    /\ selection' = [start |-> start, end |-> end]
    /\ UNCHANGED <<author, pending, replica>>

ReplayNext ==
    \/ \E text \in Text : Change(text)
    \/ ApplyNext
    \/ \E start, end \in 0..Len(replica) : Select(start, end)

ReplaySpec == ReplayInit /\ [][ReplayNext]_replayVars

-----------------------------------------------------------------------------
\* No operation a diff produced is ever refused by ApplyInsertToContent or
\* ApplyDeleteToContent on a replica that applied all the earlier ones: positions
\* are in range and, because DELETE precedes INSERT, no intermediate text exceeds
\* the document limit even when a full document is replaced.
NoOperationRefused ==
    pending # <<>> => ApplyStatus(replica, Head(pending)) = "applied"

\* Once the replica has applied everything it holds the author's text.
ReplicaCatchesUp == pending = <<>> => replica = author

\* Index stays between the same characters when op turns replica into replica': what
\* preceded it or what followed it is unchanged, unless it lay inside the deleted range.
KeepsItsPlace(index, index2, op) ==
    \/ SubSeq(replica', 1, index2) = SubSeq(replica, 1, index)
    \/ SubSeq(replica', index2 + 1, Len(replica'))
         = SubSeq(replica, index + 1, Len(replica))
    \/ op.type = "DELETE" /\ index \in op.pos..(op.pos + op.len) /\ index2 = op.pos

\* A remote operation leaves each end of the user's selection between the same characters
\* and within the text.  (AdjustSelectionForInsert/Delete and ClampSelectionToText.)
SelectionKeepsItsPlace ==
    [][replica' # replica =>
         /\ selection'.start <= selection'.end /\ selection'.end <= Len(replica')
         /\ KeepsItsPlace(selection.start, selection'.start, Head(pending))
         /\ KeepsItsPlace(selection.end, selection'.end, Head(pending))]_replayVars
=============================================================================
