----------------------------- MODULE TwoPrograms ------------------------------
(*****************************************************************************)
(* Programs of one user that save into one data directory, each at any time  *)
(* (docs/12: two processes on one PC). Every instance of Storage is one of   *)
(* them; MaxSaves bounds their saves.                                        *)
(*****************************************************************************)
EXTENDS DocumentStorage

CONSTANT MaxSaves

VARIABLE saves     \* saves begun so far

vars == <<storeVars, saves>>

Init == StoreInit /\ saves = 0

Next ==
    \E i \in Instance :
       \/ /\ saves < MaxSaves /\ saves' = saves + 1
          /\ \E t \in Text : BeginSave(i, t)
       \/ (SaveStep(i) \/ ReplaceCurrent(i) \/ FailSave(i)) /\ saves' = saves

Spec == Init /\ [][Next]_vars

-----------------------------------------------------------------------------

\* current.txt is what was found or one text from its beginning to its end, as docs/12
\* promises of failures while saving. A program renames current.tmp by its name: what
\* another one left there half written becomes the document (storage.cpp:116).
CurrentIsOneText == current \in Found \/ \E t \in Text : current = Utf8(t)
=============================================================================
