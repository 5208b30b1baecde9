--------------------------- MODULE DurableDocument ----------------------------
(*****************************************************************************)
(* What Storage promises of the saved document, whatever happens between two *)
(* of its steps: a start reads either what it could read before, or the      *)
(* whole text of a save that was under way; nothing else ever appears.       *)
(* DocumentStorage implements this specification.                            *)
(*****************************************************************************)

CONSTANTS Saver,     \* the processes that may save
          Content,   \* what a start may read
          Text,      \* what may be saved
          Kept(_),   \* what is read back of a saved text
          NoText     \* no save under way

VARIABLES saved,     \* what a start would read now
          pending    \* the text each process is saving

dvars == <<saved, pending>>

Init == saved \in Content /\ pending = [s \in Saver |-> NoText]

\* A process begins to save a text.
Ask(s, t) ==
    /\ pending[s] = NoText
    /\ pending' = [pending EXCEPT ![s] = t]
    /\ saved' = saved

\* One of the texts being saved becomes the document, at once and whole.
Commit(s) ==
    /\ pending[s] # NoText
    /\ \E t \in {pending[r] : r \in Saver} \ {NoText} : saved' = Kept(t)
    /\ pending' = [pending EXCEPT ![s] = NoText]

\* A save fails, or its process dies: the document stays as it was.
Abandon(s) ==
    /\ pending[s] # NoText
    /\ pending' = [pending EXCEPT ![s] = NoText]
    /\ saved' = saved

Next == \E s \in Saver :
           \/ \E t \in Text : Ask(s, t)
           \/ Commit(s)
           \/ Abandon(s)

Spec == Init /\ [][Next]_dvars
=============================================================================
