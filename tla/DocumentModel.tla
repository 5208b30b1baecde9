---------------------------- MODULE DocumentModel ----------------------------
(***************************************************************************)
(* The edit operations of client/document_model.cpp on a document, and the *)
(* checks they make before they change it.  A document is a sequence of    *)
(* characters; positions are 0-based, as in the code.                      *)
(***************************************************************************)
EXTENDS Integers, Sequences

CONSTANTS
    Char,               \* the characters a document is made of
    MaxDocumentChars    \* kMaxDocumentChars: no operation grows a document past it

ASSUME DocumentAssumption == MaxDocumentChars \in Nat

\* Every text an editor or the server can hold.
Text == UNION {[1..n -> Char] : n \in 0..MaxDocumentChars}

InsertOperation == [type : {"INSERT"}, pos : Nat, text : Seq(Char)]
DeleteOperation == [type : {"DELETE"}, pos : Nat, len : Nat]
Operation       == InsertOperation \cup DeleteOperation

Insert(pos, text) == [type |-> "INSERT", pos |-> pos, text |-> text]
Delete(pos, len)  == [type |-> "DELETE", pos |-> pos, len |-> len]

-----------------------------------------------------------------------------
\* A slip: the document limit is not checked.
InsertStatusUnlimited(content, pos, text) ==
    IF text = <<>> THEN "invalid_operation"
    ELSE IF pos > Len(content) THEN "invalid_position" ELSE "applied"

\* The guards of ApplyInsertToContent and ApplyDeleteToContent, in their order.
InsertStatus(content, pos, text) ==
    CASE text = <<>>                                      -> "invalid_operation"
      [] text # <<>> /\ pos > Len(content)                -> "invalid_position"
      [] text # <<>> /\ pos <= Len(content)
            /\ Len(content) + Len(text) > MaxDocumentChars -> "document_too_large"
      [] OTHER                                            -> "applied"

DeleteStatus(content, pos, len) ==
    CASE len = 0                                          -> "invalid_operation"
      [] len # 0 /\ pos + len > Len(content)              -> "invalid_position"
      [] OTHER                                            -> "applied"

InsertAt(content, pos, text) ==
    SubSeq(content, 1, pos) \o text \o SubSeq(content, pos + 1, Len(content))

RemoveAt(content, pos, len) ==
    SubSeq(content, 1, pos) \o SubSeq(content, pos + len + 1, Len(content))

\* What either function reports, and what it leaves in *content.
ApplyStatus(content, op) ==
    IF op.type = "INSERT" THEN InsertStatus(content, op.pos, op.text)
                          ELSE DeleteStatus(content, op.pos, op.len)

Applied(content, op) ==
    IF op.type = "INSERT" THEN InsertAt(content, op.pos, op.text)
                          ELSE RemoveAt(content, op.pos, op.len)
=============================================================================
