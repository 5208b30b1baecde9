----------------------------- MODULE EditorDiff ------------------------------
(***************************************************************************)
(* ComputeEditorDiff of client/editor_diff.cpp: the operations that turn   *)
(* the text the editor held at the last change into the text it holds now. *)
(***************************************************************************)
EXTENDS DocumentModel

\* The first loop of ComputeEditorDiff stops at prefix.
IsCommonPrefix(old, new, prefix) ==
    /\ prefix <= Len(old) /\ prefix <= Len(new)
    /\ \A i \in 1..prefix : old[i] = new[i]

LongestPrefix(old, new, prefix) ==
    /\ IsCommonPrefix(old, new, prefix)
    /\ ~ IsCommonPrefix(old, new, prefix + 1)

\* A slip: the second loop does not stop at the prefix.
IsCommonSuffixPastPrefix(old, new, prefix, suffix) ==
    /\ suffix <= Len(old) /\ suffix <= Len(new)
    /\ \A i \in 0..suffix - 1 : old[Len(old) - i] = new[Len(new) - i]

\* The second loop counts equal characters from the end, and stops at the prefix.
IsCommonSuffix(old, new, prefix, suffix) ==
    /\ prefix + suffix <= Len(old) /\ prefix + suffix <= Len(new)
    /\ \A i \in 0..suffix - 1 : old[Len(old) - i] = new[Len(new) - i]

LongestSuffix(old, new, prefix, suffix) ==
    /\ IsCommonSuffix(old, new, prefix, suffix)
    /\ ~ IsCommonSuffix(old, new, prefix, suffix + 1)

CommonPrefix(old, new) ==
    CHOOSE prefix \in 0..Len(old) : LongestPrefix(old, new, prefix)

CommonSuffix(old, new) ==
    CHOOSE suffix \in 0..Len(old) :
        LongestSuffix(old, new, CommonPrefix(old, new), suffix)

\* A slip: INSERT first, then DELETE.
ComputeEditorDiffInsertFirst(old, new) ==
    LET prefix   == CommonPrefix(old, new)
        suffix   == CommonSuffix(old, new)
        deleted  == Len(old) - suffix - prefix
        inserted == SubSeq(new, prefix + 1, Len(new) - suffix)
    IN  (IF inserted # <<>> THEN <<Insert(prefix, inserted)>> ELSE <<>>)
            \o (IF deleted > 0 THEN <<Delete(prefix + Len(inserted), deleted)>> ELSE <<>>)

\* First DELETE what is only in old, then INSERT what is only in new; either is
\* left out when it would be empty.
ComputeEditorDiff(old, new) ==
    LET prefix   == CommonPrefix(old, new)
        suffix   == CommonSuffix(old, new)
        deleted  == Len(old) - suffix - prefix
        inserted == SubSeq(new, prefix + 1, Len(new) - suffix)
    IN  (IF deleted > 0 THEN <<Delete(prefix, deleted)>> ELSE <<>>)
            \o (IF inserted # <<>> THEN <<Insert(prefix, inserted)>> ELSE <<>>)
=============================================================================
