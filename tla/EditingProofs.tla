---------------------------- MODULE EditingProofs -----------------------------
(*****************************************************************************)
(* What people see of each other's edits, for every alphabet, every limit of *)
(* a document, every size of a chunk, and any number of operations, edits,   *)
(* rooms and failures.                                                       *)
(*                                                                           *)
(* EditReplay, one author and one replica: the operations that are pending   *)
(* replay, each accepted, from the replica's text to the author's.           *)
(*                                                                           *)
(* WebViewWindow, the window that shows the page: current.txt follows what   *)
(* the program takes for the document, and with polite users the page, the   *)
(* program and the room agree whenever nothing is under way.                 *)
(*****************************************************************************)
EXTENDS EditReplay, WebViewWindow, EditorDiffProofs

-----------------------------------------------------------------------------
(* One author and one replica.                                               *)

SelectionInText ==
    /\ selection.start <= selection.end
    /\ selection.end <= Len(replica)

ReplayInv ==
    /\ ReplayTypeOK
    /\ Replays(replica, pending, author)
    /\ SelectionInText

\* No operations lead nowhere.
LEMMA ReplaysNothingIsEqual ==
    ASSUME NEW from, NEW to, Replays(from, <<>>, to)
    PROVE  from = to
BY DEF Replays

LEMMA ReplayBegins == ReplayInit => ReplayInv
<1> SUFFICES ASSUME ReplayInit PROVE ReplayInv
  OBVIOUS
<1>1. ReplayTypeOK
  BY DEF ReplayInit, ReplayTypeOK
<1>2. Replays(replica, pending, author)
  BY ReplaysNothing DEF ReplayInit
<1>3. Len(replica) \in Nat
  BY TextIsSeq, LenProperties DEF ReplayInit
<1>4. SelectionInText
  BY <1>3 DEF ReplayInit, SelectionInText
<1> QED BY <1>1, <1>2, <1>4 DEF ReplayInv

LEMMA ChangePreserves ==
    ASSUME ReplayInv, NEW text \in Text, Change(text)
    PROVE  ReplayInv'
<1> DEFINE ops == ComputeEditorDiff(author, text)
<1>1. /\ author \in Text /\ replica \in Text /\ pending \in Seq(Operation)
      /\ Replays(replica, pending, author)
  BY DEF ReplayInv, ReplayTypeOK
<1>2. ops \in Seq(Operation)
  BY <1>1, TextIsSeq, DiffType
<1>3. Replays(author, ops, text)
  BY <1>1, DiffReplays
<1> HIDE DEF ops
<1>4. author' = text /\ pending' = pending \o ops /\ replica' = replica /\ selection' = selection
  BY DEF Change, ops
<1>5. pending' \in Seq(Operation)
  BY <1>1, <1>2, <1>4, ConcatProperties
<1>6. ReplayTypeOK'
  BY <1>1, <1>4, <1>5 DEF ReplayInv, ReplayTypeOK
<1>7. Replays(replica, pending \o ops, text)
  BY <1>1, <1>2, <1>3, ReplaysConcat
<1>8. SelectionInText'
  BY <1>4 DEF ReplayInv, SelectionInText
<1> QED BY <1>4, <1>6, <1>7, <1>8 DEF ReplayInv
\* Two texts that agree on their first characters, or on their last.
LEMMA SamePrefix ==
    ASSUME NEW s \in Seq(Char), NEW t \in Seq(Char), NEW n \in Nat,
           n <= Len(s), n <= Len(t), \A i \in 1..n : s[i] = t[i]
    PROVE  SubSeq(s, 1, n) = SubSeq(t, 1, n)
<1> DEFINE a == SubSeq(s, 1, n)
           b == SubSeq(t, 1, n)
<1>1. \A i \in 1..n : s[i] \in Char /\ t[i] \in Char
  BY LenProperties
<1>2. /\ a \in Seq(Char) /\ Len(a) = IF 1 <= n THEN n - 1 + 1 ELSE 0
      /\ \A i \in 1..n - 1 + 1 : a[i] = s[1 + i - 1]
  BY <1>1, SubSeqProperties
<1>3. /\ b \in Seq(Char) /\ Len(b) = IF 1 <= n THEN n - 1 + 1 ELSE 0
      /\ \A i \in 1..n - 1 + 1 : b[i] = t[1 + i - 1]
  BY <1>1, SubSeqProperties
<1> HIDE DEF a, b
<1>4. ASSUME NEW i \in 1..Len(a)
      PROVE  a[i] = b[i]
  <2>1. i \in 1..n - 1 + 1 /\ 1 + i - 1 = i /\ i \in 1..n
    BY <1>2
  <2> QED BY <2>1, <1>2, <1>3
<1>5. a = b
  BY <1>2, <1>3, <1>4, SeqEqual
<1> QED BY <1>5 DEF a, b

LEMMA SameSuffix ==
    ASSUME NEW s \in Seq(Char), NEW t \in Seq(Char),
           NEW i \in 0..Len(s), NEW j \in 0..Len(t), Len(s) - i = Len(t) - j,
           \A k \in 1..Len(s) - i : s[i + k] = t[j + k]
    PROVE  SubSeq(s, i + 1, Len(s)) = SubSeq(t, j + 1, Len(t))
<1> DEFINE n == Len(s)
           m == Len(t)
           a == SubSeq(s, i + 1, n)
           b == SubSeq(t, j + 1, m)
<1>1. /\ n \in Nat /\ m \in Nat
      /\ \A k \in i + 1..n : s[k] \in Char
      /\ \A k \in j + 1..m : t[k] \in Char
  BY LenProperties
<1>2. n - i = m - j /\ i \in 0..n /\ j \in 0..m /\ \A k \in 1..n - i : s[i + k] = t[j + k]
  OBVIOUS
<1> HIDE DEF n, m
<1>3. /\ a \in Seq(Char) /\ Len(a) = IF i + 1 <= n THEN n - (i + 1) + 1 ELSE 0
      /\ \A k \in 1..n - (i + 1) + 1 : a[k] = s[(i + 1) + k - 1]
  BY <1>1, <1>2, SubSeqProperties
<1>4. /\ b \in Seq(Char) /\ Len(b) = IF j + 1 <= m THEN m - (j + 1) + 1 ELSE 0
      /\ \A k \in 1..m - (j + 1) + 1 : b[k] = t[(j + 1) + k - 1]
  BY <1>1, <1>2, SubSeqProperties
<1> HIDE DEF a, b
<1>5. Len(a) = n - i /\ Len(b) = n - i
  BY <1>1, <1>2, <1>3, <1>4
<1>6. ASSUME NEW k \in 1..Len(a)
      PROVE  a[k] = b[k]
  <2>2. k \in 1..n - i
    BY <1>5
  <2>3. k \in Nat /\ n \in Nat /\ m \in Nat /\ i \in Nat /\ j \in Nat /\ n - i = m - j
    BY <1>1, <1>2
  <2>4. n - (i + 1) + 1 = n - i /\ m - (j + 1) + 1 = n - i
    BY ONLY <2>3
  <2>5. (i + 1) + k - 1 = i + k /\ (j + 1) + k - 1 = j + k
    BY ONLY <2>3
  <2>1. /\ k \in 1..n - (i + 1) + 1 /\ k \in 1..m - (j + 1) + 1 /\ k \in 1..n - i
        /\ (i + 1) + k - 1 = i + k /\ (j + 1) + k - 1 = j + k
    BY ONLY <2>2, <2>4, <2>5
  <2> QED BY <2>1, <1>2, <1>3, <1>4
<1>7. a = b
  BY <1>3, <1>4, <1>5, <1>6, SeqEqual
<1> QED BY <1>7 DEF a, b, n, m

\* Where an accepted operation moves an index, and what stays before or after it.
InsertKeeps(content, op, index, result, index2) ==
    /\ index2 = IF index < op.pos THEN index ELSE index + Len(op.text)
    /\ index2 \in 0..Len(result)
    /\ \/ SubSeq(result, 1, index2) = SubSeq(content, 1, index)
       \/ SubSeq(result, index2 + 1, Len(result)) = SubSeq(content, index + 1, Len(content))

DeleteKeeps(content, op, index, result, index2) ==
    /\ index2 = IF index <= op.pos THEN index
                ELSE IF index <= op.pos + op.len THEN op.pos ELSE index - op.len
    /\ index2 \in 0..Len(result)
    /\ \/ SubSeq(result, 1, index2) = SubSeq(content, 1, index)
       \/ SubSeq(result, index2 + 1, Len(result)) = SubSeq(content, index + 1, Len(content))
       \/ index \in op.pos..(op.pos + op.len) /\ index2 = op.pos

\* Applying an operation that is accepted: where an index goes, and what stays around it.
LEMMA InsertKeepsIndex ==
    ASSUME NEW content \in Seq(Char), NEW op \in InsertOperation, op.pos <= Len(content),
           NEW index \in 0..Len(content)
    PROVE  InsertKeeps(content, op, index, InsertAt(content, op.pos, op.text),
               ClampIndex(AdjustIndex(index, op), Len(InsertAt(content, op.pos, op.text))))
<1> SUFFICES ASSUME NEW result, result = InsertAt(content, op.pos, op.text),
                    NEW index2, index2 = ClampIndex(AdjustIndex(index, op), Len(result))
             PROVE  InsertKeeps(content, op, index, result, index2)
  OBVIOUS
<1> USE DEF InsertKeeps
<1> DEFINE n == Len(content)
           k == Len(op.text)
           p == op.pos
<1>1. /\ op.type = "INSERT" /\ p \in Nat /\ op.text \in Seq(Char) /\ n \in Nat /\ k \in Nat
      /\ p \in 0..n
  BY LenProperties DEF InsertOperation
<1> DEFINE text == op.text
<1>11. /\ result = InsertAt(content, p, text) /\ text \in Seq(Char) /\ p \in 0..Len(content)
       /\ n = Len(content) /\ k = Len(text)
  BY <1>1
<1> HIDE DEF n, k, p, text
<1>12. /\ InsertAt(content, p, text) \in Seq(Char)
       /\ Len(InsertAt(content, p, text)) = Len(content) + Len(text)
       /\ \A i \in 1..Len(content) + Len(text) :
            InsertAt(content, p, text)[i] =
              IF i <= p THEN content[i]
              ELSE IF i <= p + Len(text) THEN text[i - p] ELSE content[i - Len(text)]
  BY ONLY content \in Seq(Char), <1>11, InsertAtProperties
<1>2. result \in Seq(Char) /\ Len(result) = n + k
  BY ONLY <1>11, <1>12
<1>10. \A i \in 1..n + k :
         result[i] = IF i <= p THEN content[i]
                     ELSE IF i <= p + k THEN text[i - p] ELSE content[i - k]
  BY ONLY <1>11, <1>12
<1> USE DEF n, k, p
<1>3. AdjustIndex(index, op) = IF index < p THEN index ELSE index + k
  BY <1>1 DEF AdjustIndex, AdjustIndexForInsert
<1> HIDE DEF k, p
<1>4. index2 = IF index < p THEN index ELSE index + k
  BY <1>1, <1>2, <1>3 DEF ClampIndex
<1>5. index2 \in 0..Len(result)
  BY <1>1, <1>2, <1>4
<1>6. CASE index < p
  <2>1. index \in Nat /\ index <= Len(content) /\ index <= Len(result) /\ index2 = index
    BY <1>1, <1>2, <1>4, <1>6
  <2>2. \A i \in 1..index : i \in 1..n + k /\ i <= p
    BY <1>1, <1>6
  <2>3. \A i \in 1..index : result[i] = content[i]
    BY <1>10, <2>2
  <2>4. SubSeq(result, 1, index) = SubSeq(content, 1, index)
    BY <1>2, <2>1, <2>3, SamePrefix
  <2> QED BY <1>4, <1>5, <2>1, <2>4 DEF k, p
<1>7. CASE ~ (index < p)
  <2>1. index2 = index + k /\ Len(result) - index2 = n - index
    <3>1. index2 = index + k
      BY ONLY <1>4, <1>7
    <3>2. n \in Nat /\ k \in Nat /\ index \in Int /\ Len(result) = n + k
      BY <1>1, <1>2
    <3> HIDE DEF n
    <3> QED BY ONLY <3>1, <3>2
  <2>2. ASSUME NEW i \in 1..Len(result) - index2
        PROVE  result[index2 + i] = content[index + i]
    <3>1. i \in Nat /\ 1 <= i /\ i <= n - index /\ index \in Nat
      BY <1>1, <2>1
    <3> DEFINE j == index2 + i
    <3>2. j \in 1..n + k /\ ~ (j <= p) /\ ~ (j <= p + k) /\ j - k = index + i
      BY <1>1, <1>7, <2>1, <3>1
    <3> HIDE DEF j, n
    <3>3. result[j] = content[j - k]
      BY <3>2, <1>10
    <3> QED BY <3>2, <3>3 DEF j
  <2>3. SubSeq(result, index2 + 1, Len(result)) = SubSeq(content, index + 1, Len(content))
    <3>1. /\ content \in Seq(Char) /\ index \in 0..Len(content)
          /\ Len(result) - index2 = Len(content) - index
      BY <2>1
    <3> QED BY ONLY <3>1, <1>2, <1>5, <2>2, SameSuffix
  <2> QED BY <1>4, <1>5, <2>3 DEF k, p
<1> QED BY <1>6, <1>7

LEMMA DeleteKeepsIndex ==
    ASSUME NEW content \in Seq(Char), NEW op \in DeleteOperation,
           op.pos + op.len <= Len(content),
           NEW index \in 0..Len(content)
    PROVE  DeleteKeeps(content, op, index, RemoveAt(content, op.pos, op.len),
               ClampIndex(AdjustIndex(index, op), Len(RemoveAt(content, op.pos, op.len))))
<1> SUFFICES ASSUME NEW result, result = RemoveAt(content, op.pos, op.len),
                    NEW index2, index2 = ClampIndex(AdjustIndex(index, op), Len(result))
             PROVE  DeleteKeeps(content, op, index, result, index2)
  OBVIOUS
<1> USE DEF DeleteKeeps
<1> DEFINE n == Len(content)
           k == op.len
           p == op.pos
<1>1. /\ op.type = "DELETE" /\ p \in Nat /\ n \in Nat /\ k \in Nat /\ p + k <= n
  BY LenProperties DEF DeleteOperation
<1>11. /\ result = RemoveAt(content, p, k) /\ p \in Nat /\ k \in Nat /\ p + k <= Len(content)
       /\ n = Len(content)
  BY <1>1
<1> HIDE DEF n, k, p
<1>12. /\ RemoveAt(content, p, k) \in Seq(Char)
       /\ Len(RemoveAt(content, p, k)) = Len(content) - k
       /\ \A i \in 1..Len(content) - k :
            RemoveAt(content, p, k)[i] = IF i <= p THEN content[i] ELSE content[i + k]
  BY ONLY content \in Seq(Char), <1>11, RemoveAtProperties
<1>2. result \in Seq(Char) /\ Len(result) = n - k
  BY ONLY <1>11, <1>12
<1>10. \A i \in 1..n - k : result[i] = IF i <= p THEN content[i] ELSE content[i + k]
  BY ONLY <1>11, <1>12
<1> USE DEF n, k, p
<1>3. AdjustIndex(index, op) = AdjustIndexForDelete(index, p, k)
  BY <1>1 DEF AdjustIndex
<1> HIDE DEF k, p
<1>4. AdjustIndexForDelete(index, p, k) =
        IF index <= p THEN index ELSE IF index <= p + k THEN p ELSE index - k
  BY <1>1 DEF AdjustIndexForDelete
<1>5. index2 = IF index <= p THEN index ELSE IF index <= p + k THEN p ELSE index - k
  BY <1>1, <1>2, <1>3, <1>4 DEF ClampIndex
<1>6. index2 \in 0..Len(result)
  BY <1>1, <1>2, <1>5
<1>7. CASE index <= p
  <2>1. index \in Nat /\ index <= Len(content) /\ index <= Len(result) /\ index2 = index
    BY <1>1, <1>2, <1>5, <1>7
  <2>2. \A i \in 1..index : i \in 1..n - k /\ i <= p
    BY <1>1, <1>7
  <2>3. \A i \in 1..index : result[i] = content[i]
    BY <1>10, <2>2
  <2>4. SubSeq(result, 1, index) = SubSeq(content, 1, index)
    BY <1>2, <2>1, <2>3, SamePrefix
  <2> QED BY <1>5, <1>6, <2>1, <2>4 DEF k, p
<1>8. CASE ~ (index <= p) /\ index <= p + k
  <2>1. index \in p..(p + k) /\ index2 = p
    BY <1>1, <1>5, <1>8
  <2> QED BY <1>5, <1>6, <2>1 DEF k, p
<1>9. CASE ~ (index <= p) /\ ~ (index <= p + k)
  <2>1. index2 = index - k /\ Len(result) - index2 = n - index
    <3>1. index2 = index - k
      BY ONLY <1>5, <1>9
    <3>2. n \in Nat /\ k \in Nat /\ index \in Int /\ Len(result) = n - k
      BY <1>1, <1>2
    <3> HIDE DEF n
    <3> QED BY ONLY <3>1, <3>2
  <2>2. ASSUME NEW i \in 1..Len(result) - index2
        PROVE  result[index2 + i] = content[index + i]
    <3>1. i \in Nat /\ 1 <= i /\ i <= n - index /\ index \in Nat
      BY <1>1, <2>1
    <3>2. /\ index2 + i \in 1..n - k /\ ~ (index2 + i <= p)
          /\ index2 + i + k = index + i
      BY <1>1, <1>9, <2>1, <3>1
    <3> QED BY <3>2, <1>10
  <2>3. SubSeq(result, index2 + 1, Len(result)) = SubSeq(content, index + 1, Len(content))
    <3>1. /\ content \in Seq(Char) /\ index \in 0..Len(content)
          /\ Len(result) - index2 = Len(content) - index
      BY <2>1
    <3> QED BY ONLY <3>1, <1>2, <1>6, <2>2, SameSuffix
  <2> QED BY <1>5, <1>6, <2>3 DEF k, p
<1> QED BY <1>7, <1>8, <1>9

\* An operation applied at the head of the pending ones: the invariant of the replay holds
\* again and both ends of the selection keep their place.
LEMMA ApplyPreserves ==
    ASSUME ReplayInv, ApplyNext
    PROVE  /\ ReplayInv'
           /\ KeepsItsPlace(selection.start, selection'.start, Head(pending))
           /\ KeepsItsPlace(selection.end, selection'.end, Head(pending))
<1> DEFINE op == Head(pending)
<1>1. /\ author \in Text /\ replica \in Text /\ pending \in Seq(Operation) /\ pending # <<>>
      /\ Replays(replica, pending, author) /\ author' = author /\ pending' = Tail(pending)
  BY DEF ReplayInv, ReplayTypeOK, ApplyNext
<1>2. op \in Operation /\ Tail(pending) \in Seq(Operation)
  BY <1>1, HeadTailProperties
<1>3. /\ ApplyStatus(replica, op) = "applied" /\ Applied(replica, op) \in Text
      /\ Replays(Applied(replica, op), Tail(pending), author)
  BY <1>1, ReplaysHeadTail
<1>4. /\ replica' = Applied(replica, op)
      /\ selection' = AdjustSelection(selection, op, replica')
  BY <1>3 DEF ApplyNext
<1>5. /\ replica \in Seq(Char) /\ Len(replica) \in Nat
      /\ replica' \in Seq(Char) /\ Len(replica') \in Nat
  BY <1>1, <1>3, <1>4, TextIsSeq, LenProperties
<1>6. /\ selection.start \in 0..Len(replica) /\ selection.end \in 0..Len(replica)
      /\ selection.start <= selection.end
  BY <1>5 DEF ReplayInv, ReplayTypeOK, SelectionInText
<1> DEFINE Moved(index) == ClampIndex(AdjustIndex(index, op), Len(replica'))
<1>7. /\ selection' = [start |-> Moved(selection.start), end |-> Moved(selection.end)]
      /\ selection'.start = Moved(selection.start) /\ selection'.end = Moved(selection.end)
  BY <1>4 DEF AdjustSelection
<1>8. /\ Moved(selection.start) \in 0..Len(replica') /\ Moved(selection.end) \in 0..Len(replica')
      /\ Moved(selection.start) <= Moved(selection.end)
      /\ KeepsItsPlace(selection.start, Moved(selection.start), op)
      /\ KeepsItsPlace(selection.end, Moved(selection.end), op)
  <2>1. CASE op \in InsertOperation
    <3>1. /\ op.type = "INSERT" /\ op.pos \in Nat /\ Len(op.text) \in Nat
      BY <2>1, LenProperties DEF InsertOperation
    <3>2. InsertStatus(replica, op.pos, op.text) = "applied"
      BY <3>1, <1>3 DEF ApplyStatus
    <3>3. op.pos <= Len(replica)
      BY <3>1, <3>2, <1>5 DEF InsertStatus
    <3>4. replica' = InsertAt(replica, op.pos, op.text)
      BY <3>1, <1>4 DEF Applied
    <3> HIDE DEF op
    <3>5. ASSUME NEW index \in 0..Len(replica)
          PROVE  /\ Moved(index) = IF index < op.pos THEN index ELSE index + Len(op.text)
                 /\ Moved(index) \in 0..Len(replica')
                 /\ KeepsItsPlace(index, Moved(index), op)
      <4>1. InsertKeeps(replica, op, index, replica', Moved(index))
        BY <2>1, <3>3, <3>4, <1>5, InsertKeepsIndex
      <4> HIDE DEF Moved
      <4> QED BY <4>1 DEF InsertKeeps, KeepsItsPlace
    <3> HIDE DEF Moved
    <3>6. Moved(selection.start) <= Moved(selection.end)
      <4>1. /\ Moved(selection.start) = IF selection.start < op.pos THEN selection.start
                                        ELSE selection.start + Len(op.text)
            /\ Moved(selection.end) = IF selection.end < op.pos THEN selection.end
                                        ELSE selection.end + Len(op.text)
        BY <3>5, <1>6
      <4> QED BY <4>1, <3>1, <1>5, <1>6
    <3> QED BY <3>5, <3>6, <1>6
  <2>2. CASE op \in DeleteOperation
    <3>1. /\ op.type = "DELETE" /\ op.pos \in Nat /\ op.len \in Nat
      BY <2>2 DEF DeleteOperation
    <3>2. DeleteStatus(replica, op.pos, op.len) = "applied"
      BY <3>1, <1>3 DEF ApplyStatus
    <3>3. op.pos + op.len <= Len(replica)
      BY <3>1, <3>2, <1>5 DEF DeleteStatus
    <3>4. replica' = RemoveAt(replica, op.pos, op.len)
      BY <3>1, <1>4 DEF Applied
    <3> HIDE DEF op
    <3>5. ASSUME NEW index \in 0..Len(replica)
          PROVE  /\ Moved(index) = IF index <= op.pos THEN index
                                   ELSE IF index <= op.pos + op.len THEN op.pos
                                   ELSE index - op.len
                 /\ Moved(index) \in 0..Len(replica')
                 /\ KeepsItsPlace(index, Moved(index), op)
      <4>1. DeleteKeeps(replica, op, index, replica', Moved(index))
        BY <2>2, <3>3, <3>4, <1>5, DeleteKeepsIndex
      <4> HIDE DEF Moved
      <4> QED BY <4>1, <3>1 DEF DeleteKeeps, KeepsItsPlace
    <3> HIDE DEF Moved
    <3>6. Moved(selection.start) <= Moved(selection.end)
      <4>1. /\ Moved(selection.start) =
                 IF selection.start <= op.pos THEN selection.start
                 ELSE IF selection.start <= op.pos + op.len THEN op.pos
                 ELSE selection.start - op.len
            /\ Moved(selection.end) =
                 IF selection.end <= op.pos THEN selection.end
                 ELSE IF selection.end <= op.pos + op.len THEN op.pos
                 ELSE selection.end - op.len
        BY <3>5, <1>6
      <4> QED BY <4>1, <3>1, <1>5, <1>6
    <3> QED BY <3>5, <3>6, <1>6
  <2> QED BY <2>1, <2>2, <1>2 DEF Operation
<1> HIDE DEF op, Moved
<1>9. ReplayTypeOK'
  BY <1>1, <1>2, <1>3, <1>4, <1>5, <1>7, <1>8 DEF ReplayTypeOK
<1>10. SelectionInText'
  BY <1>5, <1>7, <1>8 DEF SelectionInText
<1>11. Replays(replica', pending', author')
  BY <1>1, <1>3, <1>4
<1>12. ReplayInv'
  BY <1>9, <1>10, <1>11 DEF ReplayInv
<1> QED BY <1>7, <1>8, <1>12 DEF op

LEMMA SelectPreserves ==
    ASSUME ReplayInv, NEW start \in 0..Len(replica), NEW end \in 0..Len(replica), Select(start, end)
    PROVE  ReplayInv'
<1>1. Len(replica) \in Nat
  BY TextIsSeq, LenProperties DEF ReplayInv, ReplayTypeOK
<1>2. start \in Nat /\ end \in Nat /\ end <= Len(replica) /\ start <= end
  BY <1>1 DEF Select
<1>3. /\ selection' = [start |-> start, end |-> end]
      /\ author' = author /\ pending' = pending /\ replica' = replica
  BY DEF Select
<1>4. ReplayTypeOK' /\ SelectionInText'
  BY <1>2, <1>3 DEF ReplayInv, ReplayTypeOK, SelectionInText
<1> QED BY <1>3, <1>4 DEF ReplayInv

LEMMA ReplayGoesOn == ReplayInv /\ [ReplayNext]_replayVars => ReplayInv'
<1> SUFFICES ASSUME ReplayInv, [ReplayNext]_replayVars PROVE ReplayInv'
  OBVIOUS
<1>1. ASSUME NEW text \in Text, Change(text) PROVE ReplayInv'
  BY <1>1, ChangePreserves
<1>2. CASE ApplyNext
  BY <1>2, ApplyPreserves
<1>3. ASSUME NEW start \in 0..Len(replica), NEW end \in 0..Len(replica), Select(start, end)
      PROVE  ReplayInv'
  BY <1>3, SelectPreserves
<1>4. CASE UNCHANGED replayVars
  BY <1>4 DEF ReplayInv, ReplayTypeOK, SelectionInText, replayVars
<1> QED BY <1>1, <1>2, <1>3, <1>4 DEF ReplayNext

\* Whatever is typed and however late the replica is: the operations waiting for it lead
\* from its text to the author's, each accepted, and the selection lies in its text.
THEOREM OperationsReplay == ReplaySpec => []ReplayInv
BY ReplayBegins, ReplayGoesOn, PTL DEF ReplaySpec
\* The author's text, the replica's text and the selection stay what they should be.
THEOREM ReplayTypes == ReplaySpec => []ReplayTypeOK
<1>1. ReplayInv => ReplayTypeOK
  BY DEF ReplayInv
<1> QED BY <1>1, OperationsReplay, PTL

\* ApplyInsertToContent and ApplyDeleteToContent never refuse an operation of a diff, for
\* any documents and any limit.
THEOREM NothingRefused == ReplaySpec => []NoOperationRefused
<1>1. ReplayInv => NoOperationRefused
  <2> SUFFICES ASSUME ReplayInv, pending # <<>>
               PROVE  ApplyStatus(replica, Head(pending)) = "applied"
    BY DEF NoOperationRefused
  <2> QED BY ReplaysHeadTail DEF ReplayInv, ReplayTypeOK
<1> QED BY <1>1, OperationsReplay, PTL

\* A replica that applied all the operations holds the author's text.
THEOREM CatchesUp == ReplaySpec => []ReplicaCatchesUp
<1>1. ReplayInv => ReplicaCatchesUp
  <2> SUFFICES ASSUME ReplayInv, pending = <<>>
               PROVE  replica = author
    BY DEF ReplicaCatchesUp
  <2> QED BY ReplaysNothingIsEqual DEF ReplayInv, ReplayTypeOK
<1> QED BY <1>1, OperationsReplay, PTL

\* A remote operation leaves both ends of the selection where they were in the text.
THEOREM SelectionStays == ReplaySpec => SelectionKeepsItsPlace
<1> DEFINE Stays == replica' # replica =>
              /\ selection'.start <= selection'.end /\ selection'.end <= Len(replica')
              /\ KeepsItsPlace(selection.start, selection'.start, Head(pending))
              /\ KeepsItsPlace(selection.end, selection'.end, Head(pending))
<1>1. ReplayInv /\ [ReplayNext]_replayVars => [Stays]_replayVars
  <2> SUFFICES ASSUME ReplayInv, ReplayNext, replica' # replica
               PROVE  Stays
    BY DEF replayVars
  <2>1. ApplyNext
    BY DEF ReplayNext, Change, Select
  <2>2. ReplayInv'
    BY ReplayGoesOn
  <2>3. selection'.start <= selection'.end /\ selection'.end <= Len(replica')
    BY <2>2 DEF ReplayInv, SelectionInText
  <2> QED BY <2>1, <2>3, ApplyPreserves
<1>2. ReplaySpec => [][Stays]_replayVars
  BY <1>1, OperationsReplay, PTL DEF ReplaySpec
<1> QED BY <1>2 DEF SelectionKeepsItsPlace

-----------------------------------------------------------------------------
(* current.txt.                                                              *)

\* A text is taken for the document and saved.
LEMMA SavesKeepsDisk ==
    ASSUME NEW text, NEW ok \in BOOLEAN, known' = text, Saves(text, ok)
    PROVE  DiskFollowsKnown'
<1>1. ~ unread' /\ (unsaved' \/ disk' = text)
  BY Zenon DEF Saves
<1> QED BY <1>1 DEF DiskFollowsKnown

\* A document is installed in the page, the program and the file together.
LEMMA ShowKeepsDisk ==
    ASSUME NEW text, NEW revisionNow, NEW ok \in BOOLEAN, Show(text, revisionNow, ok)
    PROVE  DiskFollowsKnown'
BY SavesKeepsDisk DEF Show

LEMMA KeepKeepsDisk ==
    ASSUME NEW ok, Keep(ok), DiskFollowsKnown
    PROVE  DiskFollowsKnown'
BY DEF Keep, diskVars, DiskFollowsKnown

LEMMA RequestKeepsDisk ==
    ASSUME NEW ok \in BOOLEAN, RequestFullSync(ok), DiskFollowsKnown
    PROVE  DiskFollowsKnown'
BY ShowKeepsDisk, KeepKeepsDisk DEF RequestFullSync

\* Every event of the room leaves the file and last_known_text_ the same, or saves.
LEMMA EventKeepsDisk ==
    ASSUME NEW m, NEW ok \in BOOLEAN, HandleSyncEvent(m, ok), DiskFollowsKnown
    PROVE  DiskFollowsKnown'
<1>1. CASE m.type = "APPLY"
  <2> DEFINE outcome == ApplyOutcome(m, LocalId, rev, known)
  <2>1. ApplySyncApply(m, ok)
    BY <1>1 DEF HandleSyncEvent
  <2>2. outcome \in {"ignore", "own", "resync", "apply"}
    BY DEF ApplyOutcome
  <2>3. CASE outcome \in {"ignore", "own"}
    <3>1. Keep(ok)
      BY <2>1, <2>3 DEF ApplySyncApply
    <3> QED BY <3>1, KeepKeepsDisk
  <2>4. CASE outcome = "resync"
    <3>1. RequestFullSync(ok)
      BY <2>1, <2>4 DEF ApplySyncApply
    <3> QED BY <3>1, RequestKeepsDisk
  <2>5. CASE outcome = "apply"
    <3>1. Show(Applied(known, m.op), m.rev, ok)
      BY <2>1, <2>5 DEF ApplySyncApply
    <3> QED BY <3>1, ShowKeepsDisk
  <2> QED BY <2>2, <2>3, <2>4, <2>5
<1>2. CASE m.type = "SYNC_RESPONSE"
  <2>1. ApplySyncResponse(m, ok)
    BY <1>2 DEF HandleSyncEvent
  <2>2. Keep(ok) \/ \E text : Show(text, m.rev, ok)
    BY <2>1 DEF ApplySyncResponse
  <2> QED BY <2>2, KeepKeepsDisk, ShowKeepsDisk
<1>3. CASE m.type # "APPLY" /\ m.type # "SYNC_RESPONSE"
  <2>1. Keep(ok)
    BY <1>3 DEF HandleSyncEvent
  <2> QED BY <2>1, KeepKeepsDisk
<1> QED BY <1>1, <1>2, <1>3

LEMMA NextKeepsDisk == DiskFollowsKnown /\ [Next]_vars => DiskFollowsKnown'
<1> SUFFICES ASSUME DiskFollowsKnown, [Next]_vars PROVE DiskFollowsKnown'
  OBVIOUS
<1> USE DEF DiskFollowsKnown, diskVars, nativeVars
<1>1. ASSUME NEW text \in TypedTexts, Types(text) PROVE DiskFollowsKnown'
  BY <1>1 DEF Types
<1>2. CASE SaveTimer
  BY <1>2 DEF SaveTimer
<1>3. ASSUME NEW type, AsksForRoom(type) PROVE DiskFollowsKnown'
  BY <1>3 DEF AsksForRoom
<1>4. CASE PageReceives
  BY <1>4 DEF PageReceives
<1>5. CASE NavigationCompleted \/ HandleUiReady
  <2>1. /\ (known' = disk /\ ~ unread') \/ (known' = <<>> /\ unread')
        /\ disk' = disk
    BY <1>5, Zenon DEF NavigationCompleted, HandleUiReady, PostInitialState
  <2> QED BY <2>1
<1>6. ASSUME NEW ok \in BOOLEAN, HandleEditorChanged(ok) PROVE DiskFollowsKnown'
  <2>1. UNCHANGED <<nativeVars, diskVars>> \/ \E text : known' = text /\ Saves(text, ok)
    BY <1>6 DEF HandleEditorChanged
  <2>2. CASE UNCHANGED <<nativeVars, diskVars>>
    BY <2>2
  <2>3. CASE \E text : known' = text /\ Saves(text, ok)
    <3> HIDE DEF DiskFollowsKnown
    <3> QED BY <2>3, SavesKeepsDisk
  <2> QED BY <2>1, <2>2, <2>3
<1>7. ASSUME NEW ok \in BOOLEAN, DrainSyncEvents(ok) PROVE DiskFollowsKnown'
  <2> HIDE DEF DiskFollowsKnown
  <2>1. \E m : HandleSyncEvent(m, ok)
    BY <1>7 DEF DrainSyncEvents
  <2> QED BY <2>1, EventKeepsDisk
<1>8. ASSUME NEW ok \in BOOLEAN, NEW started, HandleCreateRoom(ok, started)
      PROVE  DiskFollowsKnown'
  <2> HIDE DEF DiskFollowsKnown
  <2> QED BY <1>8, SavesKeepsDisk DEF HandleCreateRoom
<1>9. ASSUME NEW text, HandleJoinRoom(text) PROVE DiskFollowsKnown'
  BY <1>9 DEF HandleJoinRoom
<1>10. CASE FindsNoRoom
  BY <1>10 DEF FindsNoRoom
<1>11. ASSUME NEW text, PeerEdits(text) PROVE DiskFollowsKnown'
  BY <1>11 DEF PeerEdits
<1>12. CASE HostServes \/ LosesHost
  BY <1>12 DEF HostServes, LosesHost
<1>13. CASE UNCHANGED vars
  BY <1>13 DEF vars
<1> QED BY <1>1, <1>2, <1>3, <1>4, <1>5, <1>6, <1>7, <1>8, <1>9, <1>10, <1>11, <1>12, <1>13 DEF Next

\* Unless the last save failed, current.txt holds what the program takes for the document
\* (last_known_text_): on every path of WebViewWindow that changes it, whatever rooms are
\* opened, joined and lost, whichever operations are refused, and however documents arrive.
\* A file that LoadCurrent could not read stays apart from it, and the program goes on with
\* the empty text, until something is saved over the file.
THEOREM FileFollowsProgram == Spec => []DiskFollowsKnown
<1>1. Init => DiskFollowsKnown
  BY DEF Init, DiskFollowsKnown
<1> QED BY <1>1, NextKeepsDisk, PTL DEF Spec

-----------------------------------------------------------------------------
(* Types.                                                                    *)

DocumentChunks == {m \in [type : {"SYNC_RESPONSE"}, rev : Nat, index : Nat, count : Nat, text : Seq(Char)] :
                      m.index \in 1..m.count}
ChunksType == [rev : Nat, parts : Seq(Seq(Seq(Char)))]

\* What TypeOK says, variable by variable.
LEMMA TypeFacts ==
    TypeOK <=>
        /\ page \in Seq(Char) /\ known \in Seq(Char) /\ disk \in Seq(Char) /\ document \in Seq(Char)
        /\ polite \in BOOLEAN /\ timer \in BOOLEAN /\ loading \in BOOLEAN
        /\ unsaved \in BOOLEAN /\ unread \in BOOLEAN /\ up \in BOOLEAN /\ carried \in BOOLEAN
        /\ role \in {"Offline", "Host", "Guest"} /\ rev \in Nat /\ revision \in Nat
        /\ toNative \in Seq(Request) /\ toPage \in Seq(Seq(Char)) /\ toHost \in Seq(Frame)
        /\ serverEvents \in Seq(Event) /\ clientEvents \in Seq(Event)
        /\ chunks \in ChunksType
BY DEF TypeOK, ChunksType

\* The kinds of an event.
LEMMA EventKinds ==
    ASSUME NEW m \in Event
    PROVE  /\ m.type \in {"APPLY", "SYNC_RESPONSE", "ERROR", "Disconnected"}
           /\ m.type = "APPLY" => m.rev \in Nat /\ m.client \in {"A", "B"} /\ m.op \in Operation
           /\ m.type = "SYNC_RESPONSE" =>
                  /\ m.rev \in Nat /\ m.index \in Nat \ {0} /\ m.count \in Nat \ {0}
                  /\ m.index \in 1..m.count /\ m.text \in Seq(Char)
BY DEF Event

\* The texts in OpeningTexts and TypedTexts are sequences of characters.
LEMMA TextTypes ==
    /\ OpeningTexts \subseteq Text /\ Text \subseteq Seq(Char) /\ TypedTexts \subseteq Seq(Char)
<1>1. Text \subseteq Seq(Char)
  BY TextIsSeq
<1>2. ASSUME NEW text \in TypedTexts PROVE text \in Seq(Char)
  <2>1. PICK n \in 0..MaxDocumentChars + 1 : text \in [1..n -> Char]
    BY WebAssumption
  <2>2. n \in Nat
    BY DocumentAssumption
  <2> QED BY <2>1, <2>2, SeqDef
<1> QED BY <1>1, <1>2, WebAssumption

\* SaveCurrent keeps the type of the file.
LEMMA SavesType ==
    ASSUME NEW text \in Seq(Char), NEW ok \in BOOLEAN, Saves(text, ok), disk \in Seq(Char)
    PROVE  disk' \in Seq(Char) /\ unsaved' \in BOOLEAN /\ unread' \in BOOLEAN
BY DEF Saves

\* What the document in chunks is: its pieces, numbered from 1.
LEMMA ResponseIs ==
    ASSUME document \in Seq(Char), revision \in Nat
    PROVE  /\ Response \in Seq(Event)
           /\ Len(Response) = PieceCount(document, SyncChunkChars)
           /\ PieceCount(document, SyncChunkChars) \in Nat \ {0}
           /\ \A k \in 1..Len(Response) :
                 Response[k] = [type |-> "SYNC_RESPONSE", rev |-> revision, index |-> k,
                                count |-> Len(Response), text |-> Piece(document, SyncChunkChars, k)]
<1> DEFINE count == PieceCount(document, SyncChunkChars)
           part(k) == [type |-> "SYNC_RESPONSE", rev |-> revision, index |-> k, count |-> count,
                       text |-> Piece(document, SyncChunkChars, k)]
<1>1. SyncChunkChars \in Nat \ {0}
  BY WebAssumption
<1>2. count \in Nat \ {0}
  BY <1>1, PieceCountProperties
<1>3. Response = [k \in 1..count |-> part(k)]
  BY DEF Response, PieceCount, Piece, PieceEnd
<1>4. ASSUME NEW k \in 1..count PROVE part(k) \in Event
  <2>1. Piece(document, SyncChunkChars, k) \in Seq(Char) /\ k \in Nat
    BY <1>1, <1>2, PieceType
  <2> HIDE DEF count
  <2> QED BY <2>1, <1>2 DEF Event
<1> HIDE DEF count, part
<1>5. Response \in [1..count -> Event]
  BY <1>3, <1>4
<1>6. Response \in Seq(Event)
  BY <1>2, <1>5, SeqDef
<1>7. Len(Response) = count
  BY <1>2, <1>5, <1>6, LenProperties
<1> QED BY <1>2, <1>3, <1>6, <1>7 DEF count, part

\* A chunk is put where it belongs, with the others of its revision.
LEMMA CollectedIs ==
    ASSUME NEW m \in Event, m.type = "SYNC_RESPONSE", chunks \in ChunksType
    PROVE  /\ Collected(m) \in ChunksType /\ Collected(m).rev = m.rev
           /\ Len(Collected(m).parts) = m.count
           /\ \A k \in 1..m.count :
                 Collected(m).parts[k] =
                   IF k = m.index THEN <<m.text>>
                   ELSE IF chunks.rev = m.rev /\ Len(chunks.parts) = m.count
                     THEN chunks.parts[k] ELSE <<>>
<1> DEFINE old == IF chunks.rev = m.rev /\ Len(chunks.parts) = m.count
                    THEN chunks.parts ELSE [k \in 1..m.count |-> <<>>]
           new == [old EXCEPT ![m.index] = <<m.text>>]
<1>1. /\ chunks.parts \in Seq(Seq(Seq(Char))) /\ m.rev \in Nat /\ m.text \in Seq(Char)
      /\ m.count \in Nat \ {0} /\ m.index \in 1..m.count
  BY EventKinds DEF ChunksType
<1>2. old \in [1..m.count -> Seq(Seq(Char))]
  BY <1>1, LenProperties
<1>3. Collected(m) = [rev |-> m.rev, parts |-> new]
  BY DEF Collected
<1>4. \A k \in 1..m.count :
        old[k] = IF chunks.rev = m.rev /\ Len(chunks.parts) = m.count
                   THEN chunks.parts[k] ELSE <<>>
  OBVIOUS
<1> HIDE DEF old
<1>5. <<m.text>> \in Seq(Seq(Char))
  BY <1>1
<1>6. /\ new \in [1..m.count -> Seq(Seq(Char))]
      /\ \A k \in 1..m.count : new[k] = IF k = m.index THEN <<m.text>> ELSE old[k]
  BY <1>1, <1>2, <1>5
<1> HIDE DEF new
<1>7. new \in Seq(Seq(Seq(Char))) /\ Len(new) = m.count
  <2>1. m.count \in Nat
    BY <1>1
  <2>2. new \in [1..m.count -> Seq(Seq(Char))]
    BY <1>6
  <2> QED BY ONLY <2>1, <2>2, FunctionIsSeq
<1>8. \A k \in 1..m.count : new[k] = IF k = m.index THEN <<m.text>>
                                     ELSE IF chunks.rev = m.rev /\ Len(chunks.parts) = m.count
                                       THEN chunks.parts[k] ELSE <<>>
  BY ONLY <1>4, <1>6
<1>9. /\ Collected(m) \in ChunksType /\ Collected(m).rev = m.rev /\ Collected(m).parts = new
  BY <1>1, <1>3, <1>7 DEF ChunksType
<1> QED BY <1>7, <1>8, <1>9

\* The text ApplySyncResponse installs.
Whole(m) == OnSeq!FlattenSeq([k \in 1..m.count |-> Collected(m).parts[k][1]])

LEMMA WholeSteps ==
    ASSUME NEW m, m.count \in Nat \ {0}
    PROVE  \E f : /\ Whole(m) = f[m.count]
                  /\ f[1] = Collected(m).parts[1][1]
                  /\ \A i \in 2..m.count : f[i] = f[i - 1] \o Collected(m).parts[i][1]
<1> DEFINE len == m.count
           seqs == [k \in 1..len |-> Collected(m).parts[k][1]]
           flatten == FlattenFun(seqs, len)
<1>1. Len(seqs) = len
  <2>1. seqs = [k \in 1..len |-> seqs[k]]
    OBVIOUS
  <2> HIDE DEF seqs
  <2> QED BY <2>1
<1>2. Whole(m) = flatten[len]
  BY <1>1 DEF OnSeq!FlattenSeq, Whole, FlattenFun
<1>3. flatten[1] = seqs[1] /\ \A i \in 2..len : flatten[i] = flatten[i - 1] \o seqs[i]
  <2> HIDE DEF len, seqs
  <2>1. len \in Nat \ {0}
    BY DEF len
  <2> QED BY ONLY <2>1, FlattenSteps
<1> HIDE DEF flatten
<1>4. 1 \in 1..len /\ \A i \in 2..len : i \in 1..len
  OBVIOUS
<1>5. \A i \in 1..len : seqs[i] = Collected(m).parts[i][1]
  OBVIOUS
<1> HIDE DEF seqs
<1>6. /\ Whole(m) = flatten[m.count] /\ flatten[1] = Collected(m).parts[1][1]
      /\ \A i \in 2..m.count : flatten[i] = flatten[i - 1] \o Collected(m).parts[i][1]
  BY <1>2, <1>3, <1>4, <1>5
<1> QED BY <1>6

LEMMA WholeType ==
    ASSUME NEW m \in Event, m.type = "SYNC_RESPONSE", chunks \in ChunksType,
           \A k \in 1..m.count : Collected(m).parts[k] # <<>>
    PROVE  Whole(m) \in Seq(Char)
<1> DEFINE parts == Collected(m).parts
<1>1. m.count \in Nat \ {0} /\ parts \in Seq(Seq(Seq(Char))) /\ Len(parts) = m.count
  BY EventKinds, CollectedIs DEF ChunksType
<1>2. PICK f : /\ Whole(m) = f[m.count]
               /\ f[1] = parts[1][1]
               /\ \A i \in 2..m.count : f[i] = f[i - 1] \o parts[i][1]
  BY <1>1, WholeSteps
<1> HIDE DEF parts
<1>3. ASSUME NEW k \in 1..m.count PROVE parts[k][1] \in Seq(Char)
  <2>1. parts[k] \in Seq(Seq(Char)) /\ parts[k] # <<>>
    BY <1>1, LenProperties DEF parts
  <2>2. Len(parts[k]) \in Nat \ {0}
    BY <2>1, EmptySeq, LenProperties
  <2>3. 1 \in 1..Len(parts[k])
    BY <2>2
  <2> QED BY <2>1, <2>3, LenProperties
<1> DEFINE seqs == [k \in 1..m.count |-> parts[k][1]]
<1>4. (\A k \in 1..m.count : seqs[k] \in Seq(Char)) /\ f[1] = seqs[1]
      /\ \A i \in 2..m.count : f[i] = f[i - 1] \o seqs[i]
  <2>1. 1 \in 1..m.count /\ \A i \in 2..m.count : i \in 1..m.count
    BY <1>1
  <2> QED BY <2>1, <1>2, <1>3
<1> HIDE DEF seqs
<1>5. f[m.count] \in Seq(Char)
  BY <1>1, <1>4, FlattenType
<1> QED BY <1>2, <1>5

\* The operations of a host, one after the other: the recursion of HostAppliesAll is
\* well-founded.
HostLoop(s, ops, len, f) ==
    f = [k \in 0..len |-> IF k = 0 THEN s ELSE HostApplies(f[k - 1], ops[k])]

LEMMA AfterExists ==
    ASSUME NEW s, NEW ops, NEW len \in Nat
    PROVE  \E f : HostLoop(s, ops, len, f)
<1> USE DEF HostLoop
<1> DEFINE Is(f, n) == HostLoop(s, ops, n, f)
           T == {n \in Nat : \A f : ~ Is(f, n)}
<1>1. SUFFICES ASSUME \A f : ~ Is(f, len) PROVE FALSE
  OBVIOUS
<1>2. len \in T
  BY <1>1
<1>3. PICK n \in T : \A y \in T : n <= y
  <2> HIDE DEF T
  <2>1. T \in SUBSET Nat
    BY DEF T
  <2> QED BY <2>1, <1>2, LeastElement
<1>4. n \in Nat /\ \A f : ~ Is(f, n)
  OBVIOUS
<1>5. n # 0
  <2> DEFINE f == [k \in 0..0 |-> s]
  <2>1. Is(f, 0)
    OBVIOUS
  <2> HIDE DEF f, Is
  <2> QED BY <1>4, <2>1
<1>6. PICK f : Is(f, n - 1)
  <2>1. n - 1 \in Nat /\ ~ (n <= n - 1)
    BY <1>4, <1>5
  <2>2. n - 1 \notin T
    <3> HIDE DEF T
    <3> QED BY <2>1, <1>3
  <2> QED BY <2>1, <2>2
<1> DEFINE g == [k \in 0..n |-> IF k = n THEN HostApplies(f[n - 1], ops[n]) ELSE f[k]]
<1>7. ASSUME NEW k \in 0..n
      PROVE  g[k] = IF k = 0 THEN s ELSE HostApplies(g[k - 1], ops[k])
  <2>1. CASE k # n
    <3>1. k \in 0..n - 1 /\ k \in 0..n /\ (k # 0 => k - 1 \in 0..n /\ k - 1 # n)
      BY <2>1, <1>4
    <3>2. g[k] = f[k] /\ (k # 0 => g[k - 1] = f[k - 1])
      BY <2>1, <3>1
    <3> HIDE DEF g
    <3>3. f[k] = IF k = 0 THEN s ELSE HostApplies(f[k - 1], ops[k])
      BY <3>1, <1>6
    <3> QED BY <3>2, <3>3
  <2>2. CASE k = n
    <3>1. n \in 0..n /\ n - 1 \in 0..n /\ n - 1 # n
      BY <1>4, <1>5
    <3>2. g[n] = HostApplies(f[n - 1], ops[n]) /\ g[n - 1] = f[n - 1]
      BY <3>1
    <3> HIDE DEF g
    <3> QED BY <2>2, <3>2, <1>5
  <2> QED BY <2>1, <2>2
<1>8. g = [k \in 0..n |-> g[k]]
  OBVIOUS
<1> HIDE DEF g
<1>9. Is(g, n)
  BY <1>7, <1>8
<1> HIDE DEF Is
<1> QED BY <1>4, <1>9

LEMMA AfterSteps ==
    ASSUME NEW s, NEW ops, Len(ops) \in Nat
    PROVE  \E f : /\ HostAppliesAll(s, ops) = f[Len(ops)] /\ f[0] = s
                  /\ \A k \in 1..Len(ops) : f[k] = HostApplies(f[k - 1], ops[k])
<1> DEFINE len == Len(ops)
           f == CHOOSE g : HostLoop(s, ops, len, g)
<1>1. HostAppliesAll(s, ops) = f[len]
  BY DEF HostAppliesAll, HostLoop
<1>2. f = [k \in 0..len |-> IF k = 0 THEN s ELSE HostApplies(f[k - 1], ops[k])]
  <2> HIDE DEF len
  <2>1. len \in Nat
    BY DEF len
  <2>2. \E g : HostLoop(s, ops, len, g)
    BY ONLY <2>1, AfterExists
  <2>3. HostLoop(s, ops, len, f)
    BY ONLY <2>2
  <2> HIDE DEF f
  <2> QED BY ONLY <2>3 DEF HostLoop
<1> HIDE DEF f
<1>3. f[0] = s /\ \A k \in 1..len : f[k] = HostApplies(f[k - 1], ops[k])
  <2>1. 0 \in 0..len /\ \A k \in 1..len : k \in 0..len /\ k # 0
    OBVIOUS
  <2> HIDE DEF len
  <2> QED BY <1>2, <2>1
<1> QED BY <1>1, <1>3

\* What an operation of a host leaves is a room and a revision.
HostState == [document : Seq(Char), revision : Nat, rev : Nat, posts : Seq(Seq(Char)), carried : BOOLEAN]

LEMMA HostAppliesType ==
    ASSUME NEW s \in HostState, NEW op \in Operation
    PROVE  HostApplies(s, op) \in HostState
<1>1. /\ s.document \in Seq(Char) /\ s.revision \in Nat /\ s.rev \in Nat /\ s.posts \in Seq(Seq(Char))
      /\ s.revision + 1 \in Nat
  BY DEF HostState
<1>2. CASE Accepts(s.document, op)
  <2>1. Applied(s.document, op) \in Seq(Char)
    BY <1>1, <1>2, AppliedIsSeq DEF Accepts
  <2>2. HostApplies(s, op) = [s EXCEPT !.document = Applied(s.document, op),
                                       !.revision = s.revision + 1, !.rev = s.revision + 1]
    BY <1>2 DEF HostApplies
  <2> QED BY <1>1, <2>1, <2>2 DEF HostState
<1>3. CASE ~ Accepts(s.document, op)
  <2>1. HostApplies(s, op) = [s EXCEPT !.rev = s.revision, !.posts = Append(s.posts, s.document),
                                       !.carried = FALSE]
    BY <1>3 DEF HostApplies
  <2>2. Append(s.posts, s.document) \in Seq(Seq(Char))
    BY <1>1
  <2> QED BY <1>1, <2>1, <2>2 DEF HostState
<1> QED BY <1>2, <1>3

\* Once an operation is refused, that stays known.
LEMMA HostAppliesCarries ==
    ASSUME NEW s \in HostState, NEW op \in Operation, HostApplies(s, op).carried
    PROVE  s.carried /\ Accepts(s.document, op)
<1>1. CASE ~ Accepts(s.document, op)
  <2>1. HostApplies(s, op) = [s EXCEPT !.rev = s.revision, !.posts = Append(s.posts, s.document),
                                       !.carried = FALSE]
    BY <1>1 DEF HostApplies
  <2>2. ~ HostApplies(s, op).carried
    BY <2>1 DEF HostState
  <2> QED BY <2>2
<1>2. CASE Accepts(s.document, op)
  <2>1. HostApplies(s, op) = [s EXCEPT !.document = Applied(s.document, op),
                                       !.revision = s.revision + 1, !.rev = s.revision + 1]
    BY <1>2 DEF HostApplies
  <2>2. HostApplies(s, op).carried = s.carried
    BY <2>1 DEF HostState
  <2> QED BY <1>2, <2>2
<1> QED BY <1>1, <1>2

LEMMA HostStepsType ==
    ASSUME NEW s \in HostState, NEW ops \in Seq(Operation), NEW f, f[0] = s,
           \A k \in 1..Len(ops) : f[k] = HostApplies(f[k - 1], ops[k])
    PROVE  \A n \in 0..Len(ops) : f[n] \in HostState
<1> DEFINE len == Len(ops)
<1>1. len \in Nat
  BY LenProperties
<1>2. f[0] = s /\ \A k \in 1..len : f[k] = HostApplies(f[k - 1], ops[k])
  OBVIOUS
<1> DEFINE T == {n \in 0..len : f[n] \notin HostState}
<1>3. T = {}
  <2>1. SUFFICES ASSUME T # {} PROVE FALSE
    OBVIOUS
  <2>2. PICK k \in T : \A y \in T : k <= y
    <3>1. T \in SUBSET Nat
      OBVIOUS
    <3> HIDE DEF T
    <3> QED BY <3>1, <2>1, LeastElement
  <2>3. k \in 0..len /\ f[k] \notin HostState
    OBVIOUS
  <2>4. k # 0
    BY <2>3, <1>2
  <2>5. k - 1 \in 0..len /\ ~ (k <= k - 1) /\ k \in 1..len
    BY <2>3, <2>4, <1>1
  <2>6. f[k - 1] \in HostState
    BY <2>2, <2>5
  <2>7. ops[k] \in Operation
    BY <2>5, LenProperties
  <2>8. HostApplies(f[k - 1], ops[k]) \in HostState
    BY <2>6, <2>7, HostAppliesType
  <2> QED BY <2>3, <2>5, <2>8, <1>2
<1> QED BY <1>3

LEMMA HostAppliesAllType ==
    ASSUME NEW s \in HostState, NEW ops \in Seq(Operation)
    PROVE  HostAppliesAll(s, ops) \in HostState
<1>1. Len(ops) \in Nat /\ Len(ops) \in 0..Len(ops)
  BY LenProperties
<1>2. PICK f : /\ HostAppliesAll(s, ops) = f[Len(ops)] /\ f[0] = s
               /\ \A k \in 1..Len(ops) : f[k] = HostApplies(f[k - 1], ops[k])
  BY <1>1, AfterSteps
<1>3. \A n \in 0..Len(ops) : f[n] \in HostState
  BY <1>2, HostStepsType
<1> QED BY <1>1, <1>2, <1>3

LEMMA HostAppliesAllCarries ==
    ASSUME NEW s \in HostState, NEW ops \in Seq(Operation), HostAppliesAll(s, ops).carried
    PROVE  s.carried
<1> DEFINE len == Len(ops)
<1>1. len \in Nat /\ \A k \in 1..len : ops[k] \in Operation
  BY LenProperties
<1>2. PICK f : /\ HostAppliesAll(s, ops) = f[len] /\ f[0] = s
               /\ \A k \in 1..len : f[k] = HostApplies(f[k - 1], ops[k])
  BY <1>1, AfterSteps
<1>3. \A n \in 0..len : f[n] \in HostState
  BY <1>2, HostStepsType
<1> DEFINE T == {n \in 0..len : f[n].carried}
<1> HIDE DEF len
<1>4. len \in T
  BY <1>1, <1>2
<1>5. PICK k \in T : \A y \in T : k <= y
  <2>1. T \in SUBSET Nat
    BY <1>1
  <2> HIDE DEF T
  <2> QED BY <1>4, <2>1, LeastElement
<1>6. k = 0
  <2>1. SUFFICES ASSUME k # 0 PROVE FALSE
    OBVIOUS
  <2>2. k - 1 \in 0..len /\ ~ (k <= k - 1) /\ k \in 1..len
    BY <2>1, <1>1
  <2>3. f[k - 1].carried
    BY <2>2, <1>1, <1>2, <1>3, HostAppliesCarries
  <2> QED BY <2>2, <2>3, <1>5
<1> QED BY <1>2, <1>6

\* What the program shows, saves and posts.
ShownTyped ==
    /\ known \in Seq(Char) /\ disk \in Seq(Char) /\ unsaved \in BOOLEAN /\ unread \in BOOLEAN
    /\ rev \in Nat /\ toPage \in Seq(Seq(Char))

LEMMA ShowType ==
    ASSUME TypeOK, NEW text \in Seq(Char), NEW n \in Nat, NEW ok \in BOOLEAN, Show(text, n, ok)
    PROVE  ShownTyped'
<1>1. disk' \in Seq(Char) /\ unsaved' \in BOOLEAN /\ unread' \in BOOLEAN
  BY TypeFacts, SavesType DEF Show
<1> QED BY <1>1, TypeFacts DEF Show, ShownTyped

LEMMA KeepType ==
    ASSUME TypeOK, NEW ok, Keep(ok)
    PROVE  rev' \in Nat => ShownTyped'
BY TypeFacts DEF Keep, ShownTyped, diskVars

LEMMA RequestType ==
    ASSUME TypeOK, NEW ok \in BOOLEAN, RequestFullSync(ok)
    PROVE  ShownTyped' /\ toHost' \in Seq(Frame)
<1>1. [type |-> "SYNC_REQUEST"] \in Frame
  BY DEF Frame
<1>2. CASE role = "Guest"
  <2>1. /\ Keep(ok) /\ rev' = rev
        /\ toHost' = IF up THEN Append(toHost, [type |-> "SYNC_REQUEST"]) ELSE toHost
    BY <1>2 DEF RequestFullSync
  <2>2. toHost \in Seq(Frame)
    BY TypeFacts
  <2>3. Append(toHost, [type |-> "SYNC_REQUEST"]) \in Seq(Frame)
    BY <1>1, <2>2, AppendProperties
  <2>4. toHost' \in Seq(Frame)
    BY <2>1, <2>2, <2>3
  <2> QED BY <2>1, <2>4, KeepType, TypeFacts
<1>3. CASE role = "Host"
  <2>1. Show(document, revision, ok) /\ toHost' = toHost
    BY <1>3 DEF RequestFullSync
  <2> QED BY <2>1, ShowType, TypeFacts
<1>4. CASE role = "Offline"
  <2>1. Keep(ok) /\ rev' = rev /\ toHost' = toHost
    BY <1>4 DEF RequestFullSync
  <2> QED BY <2>1, KeepType, TypeFacts
<1> QED BY <1>2, <1>3, <1>4, TypeFacts

\* An event of the room.
LEMMA EventType ==
    ASSUME TypeOK, NEW m \in Event, NEW ok \in BOOLEAN, HandleSyncEvent(m, ok)
    PROVE  /\ ShownTyped' /\ toHost' \in Seq(Frame) /\ chunks' \in ChunksType
           /\ UNCHANGED <<polite, edits, rooms, page, timer, loading, toNative, role, document,
                          revision, up, carried>>
<1>1. UNCHANGED <<polite, edits, rooms, page, timer, loading, toNative, role, document, revision, up, carried>>
  BY DEF HandleSyncEvent, pageVars
<1>2. CASE m.type = "APPLY"
  <2> DEFINE outcome == ApplyOutcome(m, LocalId, rev, known)
  <2>1. ApplySyncApply(m, ok) /\ chunks' = chunks
    BY <1>2 DEF HandleSyncEvent, ApplySyncApply
  <2>2. outcome \in {"ignore", "own", "resync", "apply"}
    BY DEF ApplyOutcome
  <2>3. m.rev \in Nat /\ m.op \in Operation
    BY <1>2, EventKinds
  <2>4. CASE outcome \in {"ignore", "own"}
    <3>1. Keep(ok) /\ rev' \in Nat /\ toHost' = toHost
      BY <2>1, <2>3, <2>4, TypeFacts DEF ApplySyncApply
    <3> QED BY <1>1, <2>1, <3>1, KeepType, TypeFacts
  <2>5. CASE outcome = "resync"
    <3>1. RequestFullSync(ok)
      BY <2>1, <2>5 DEF ApplySyncApply
    <3> QED BY <1>1, <2>1, <3>1, RequestType, TypeFacts
  <2>6. CASE outcome = "apply"
    <3>1. Show(Applied(known, m.op), m.rev, ok) /\ toHost' = toHost
      BY <2>1, <2>6 DEF ApplySyncApply
    <3>2. ApplyStatus(known, m.op) = "applied"
      BY <2>6 DEF ApplyOutcome
    <3>3. Applied(known, m.op) \in Seq(Char)
      BY <2>3, <3>2, TypeFacts, AppliedIsSeq
    <3> QED BY <1>1, <2>1, <2>3, <3>1, <3>3, ShowType, TypeFacts
  <2> QED BY <2>2, <2>4, <2>5, <2>6
<1>3. CASE m.type = "SYNC_RESPONSE"
  <2>1. ApplySyncResponse(m, ok) /\ toHost' = toHost
    BY <1>3 DEF HandleSyncEvent, ApplySyncResponse
  <2>2. m.rev \in Nat /\ Collected(m) \in ChunksType /\ chunks \in ChunksType
    BY <1>3, EventKinds, CollectedIs, TypeFacts
  <2>3. CASE \A k \in 1..m.count : Collected(m).parts[k] # <<>>
    <3>1. Show(Whole(m), m.rev, ok) /\ chunks' = [chunks EXCEPT !.parts = <<>>]
      BY <2>1, <2>3 DEF ApplySyncResponse, Whole
    <3>2. Whole(m) \in Seq(Char)
      BY <1>3, <2>2, <2>3, WholeType
    <3>3. chunks' \in ChunksType
      <4>1. <<>> \in Seq(Seq(Seq(Char)))
        BY EmptySeq
      <4> QED BY <4>1, <2>2, <3>1 DEF ChunksType
    <3> QED BY <1>1, <2>1, <2>2, <3>1, <3>2, <3>3, ShowType, TypeFacts
  <2>4. CASE ~ \A k \in 1..m.count : Collected(m).parts[k] # <<>>
    <3>1. Keep(ok) /\ rev' = rev /\ chunks' = Collected(m)
      BY <2>1, <2>4 DEF ApplySyncResponse
    <3> QED BY <1>1, <2>1, <2>2, <3>1, KeepType, TypeFacts
  <2> QED BY <2>3, <2>4
<1>4. CASE m.type # "APPLY" /\ m.type # "SYNC_RESPONSE"
  <2>1. Keep(ok) /\ rev' = rev /\ chunks' = chunks /\ toHost' = toHost
    BY <1>4 DEF HandleSyncEvent
  <2> QED BY <1>1, <2>1, KeepType, TypeFacts
<1> QED BY <1>2, <1>3, <1>4

\* The types of the state, variable by variable.
Typed ==
    /\ page \in Seq(Char) /\ known \in Seq(Char) /\ disk \in Seq(Char) /\ document \in Seq(Char)
    /\ polite \in BOOLEAN /\ timer \in BOOLEAN /\ loading \in BOOLEAN
    /\ unsaved \in BOOLEAN /\ unread \in BOOLEAN /\ up \in BOOLEAN /\ carried \in BOOLEAN
    /\ role \in {"Offline", "Host", "Guest"} /\ rev \in Nat /\ revision \in Nat
    /\ toNative \in Seq(Request) /\ toPage \in Seq(Seq(Char)) /\ toHost \in Seq(Frame)
    /\ serverEvents \in Seq(Event) /\ clientEvents \in Seq(Event)
    /\ chunks \in ChunksType

LEMMA TypedIs == TypeOK <=> Typed
BY TypeFacts DEF Typed

\* The first message of the page.
LEMMA MessageTyped ==
    ASSUME TypeOK, NEW type, Message(type)
    PROVE  /\ toNative' \in Seq(Request) /\ Head(toNative) \in Request
           /\ type # "uiReady" => Head(toNative).text \in Seq(Char)
<1>1. toNative \in Seq(Request) /\ toNative # <<>> /\ toNative' = Tail(toNative)
      /\ Head(toNative).type = type
  BY TypeFacts DEF Message
<1>2. Head(toNative) \in Request /\ Tail(toNative) \in Seq(Request)
  BY <1>1, HeadTailProperties
<1>3. type # "uiReady" => Head(toNative).text \in Seq(Char)
  BY <1>1, <1>2 DEF Request
<1> QED BY <1>1, <1>2, <1>3

\* What the page posts.
LEMMA PostsTyped ==
    ASSUME TypeOK, NEW message \in Request, Posts(message)
    PROVE  toNative' \in Seq(Request)
BY TypeFacts, AppendProperties DEF Posts

\* What a guest's queue may take of some operations.
LEMMA WithoutInsertType ==
    ASSUME NEW ops \in Seq(Operation)
    PROVE  WithoutInsert(ops) \in Seq(Operation)
<1>1. CASE ops = <<>>
  BY <1>1 DEF WithoutInsert
<1>2. CASE ops # <<>>
  <2>1. Len(ops) \in Nat \ {0} /\ Len(ops) - 1 \in Nat
    BY <1>2, EmptySeq, LenProperties
  <2>2. \A i \in 1..Len(ops) - 1 : ops[i] \in Operation
    BY <2>1, LenProperties
  <2>3. SubSeq(ops, 1, Len(ops) - 1) \in Seq(Operation)
    BY <2>1, <2>2, SubSeqProperties
  <2> QED BY <2>3 DEF WithoutInsert
<1> QED BY <1>1, <1>2

\* The state after an editorChanged is one the program can be in.
LEMMA EditorChangedTyped ==
    ASSUME TypeOK, NEW ok \in BOOLEAN, HandleEditorChanged(ok)
    PROVE  Typed'
<1> DEFINE text == Head(toNative).text
           ops == ComputeEditorDiff(known, text)
           before == [document |-> document, revision |-> revision, rev |-> rev, posts |-> toPage,
                      carried |-> carried]
           after == HostAppliesAll(before, ops)
           edits0(sent) == [k \in 1..Len(sent) |-> [type |-> "EDIT", op |-> sent[k]]]
<1>1. /\ text \in Seq(Char) /\ toNative' \in Seq(Request)
      /\ page' = page /\ timer' = timer /\ loading' = loading
  BY MessageTyped DEF HandleEditorChanged, pageVars
<1>2. CASE Len(text) > MaxDocumentChars
  <2>1. /\ toPage' = Append(toPage, known)
        /\ UNCHANGED <<bounds, nativeVars, diskVars, roomVars, carried>>
    BY <1>2 DEF HandleEditorChanged
  <2>2. toPage' \in Seq(Seq(Char))
    BY <2>1, TypeFacts, AppendProperties
  <2> QED BY <1>1, <2>1, <2>2, TypeFacts DEF Typed, bounds, nativeVars, diskVars, roomVars
<1>3. CASE ~ (Len(text) > MaxDocumentChars)
  <2>1. /\ SendLocalOperations(ops)
        /\ known' = text /\ Saves(text, ok)
        /\ UNCHANGED <<polite, edits, rooms, role, chunks, up, serverEvents, clientEvents>>
    BY <1>3 DEF HandleEditorChanged
  <2>2. ops \in Seq(Operation) /\ Len(ops) \in Nat
    BY <1>1, TypeFacts, DiffType, LenProperties
  <2>3. disk' \in Seq(Char) /\ unsaved' \in BOOLEAN /\ unread' \in BOOLEAN
    BY <1>1, <2>1, SavesType, TypeFacts
  <2>4. /\ document' \in Seq(Char) /\ revision' \in Nat /\ rev' \in Nat
        /\ toPage' \in Seq(Seq(Char)) /\ toHost' \in Seq(Frame) /\ carried' \in BOOLEAN
    <3> HIDE DEF ops
    <3>1. CASE role = "Host"
      <4>1. /\ document' = after.document /\ revision' = after.revision
            /\ rev' = after.rev /\ toPage' = after.posts /\ toHost' = toHost
            /\ carried' = after.carried
        BY <2>1, <3>1 DEF SendLocalOperations
      <4>2. before \in HostState
        BY TypeFacts DEF HostState
      <4> HIDE DEF before
      <4>3. after \in HostState
        BY <2>2, <4>2, HostAppliesAllType
      <4> HIDE DEF after
      <4> QED BY <4>1, <4>3, TypeFacts DEF HostState
    <3>2. CASE role = "Guest" /\ up
      <4>1. PICK sent \in {ops, WithoutInsert(ops)} :
               toHost' = toHost \o edits0(sent) /\ carried' = (carried /\ sent = ops)
        BY <2>1, <3>2 DEF SendLocalOperations
      <4>2. UNCHANGED <<document, revision, rev, toPage>>
        BY <2>1, <3>2 DEF SendLocalOperations
      <4>3. sent \in Seq(Operation) /\ Len(sent) \in Nat
        BY <2>2, WithoutInsertType, LenProperties
      <4>4. \A k \in 1..Len(sent) : [type |-> "EDIT", op |-> sent[k]] \in Frame
        BY <4>3, LenProperties DEF Frame
      <4>5. edits0(sent) \in [1..Len(sent) -> Frame]
        BY <4>4
      <4>6. edits0(sent) \in Seq(Frame)
        BY <4>3, <4>5, SeqDef
      <4> HIDE DEF edits0
      <4>7. toHost \in Seq(Frame) /\ toHost \o edits0(sent) \in Seq(Frame)
        BY <4>6, TypeFacts, ConcatProperties
      <4>8. carried' \in BOOLEAN
        BY <4>1
      <4> QED BY <4>1, <4>2, <4>7, <4>8, TypeFacts
    <3>3. CASE role = "Offline" \/ (role = "Guest" /\ ~up)
      <4>1. UNCHANGED <<document, revision, rev, toPage, toHost, carried>>
        BY <2>1, <3>3 DEF SendLocalOperations
      <4> QED BY <4>1, TypeFacts
    <3> QED BY <3>1, <3>2, <3>3, TypeFacts
  <2> HIDE DEF text
  <2> QED BY <1>1, <2>1, <2>3, <2>4, TypeFacts DEF Typed
<1> QED BY <1>2, <1>3

\* Opening a room and joining one.
LEMMA RoomsTyped ==
    ASSUME TypeOK
    PROVE  /\ \A ok \in BOOLEAN, started \in BOOLEAN : HandleCreateRoom(ok, started) => Typed'
           /\ \A text \in OpeningTexts : HandleJoinRoom(text) => Typed'
<1>1. NoChunks \in ChunksType /\ <<>> \in Seq(Frame)
  BY EmptySeq DEF NoChunks, ChunksType
<1>2. ASSUME NEW ok \in BOOLEAN, NEW started \in BOOLEAN, HandleCreateRoom(ok, started)
      PROVE  Typed'
  <2> DEFINE text == Head(toNative).text
  <2>1. /\ Message("createRoom") /\ known' = text /\ Saves(text, ok) /\ document' = text
        /\ revision' = 0 /\ rev' = 0 /\ chunks' = NoChunks /\ toHost' = <<>>
        /\ up' = started /\ role' = IF started THEN "Host" ELSE "Offline"
        /\ UNCHANGED <<polite, edits, rooms, pageVars, toPage, serverEvents, clientEvents>>
        /\ carried' \in BOOLEAN
    BY <1>2 DEF HandleCreateRoom
  <2>2. text \in Seq(Char) /\ toNative' \in Seq(Request)
    BY <2>1, MessageTyped
  <2> HIDE DEF text
  <2>3. disk' \in Seq(Char) /\ unsaved' \in BOOLEAN /\ unread' \in BOOLEAN
    BY <2>1, <2>2, SavesType, TypeFacts
  <2> QED BY <1>1, <2>1, <2>2, <2>3, TypeFacts DEF Typed, pageVars
<1>3. ASSUME NEW text \in OpeningTexts, HandleJoinRoom(text)
      PROVE  Typed'
  <2>1. /\ \/ /\ role' = "Guest" /\ rev' = 0 /\ chunks' = NoChunks /\ up' = TRUE
              /\ document' = text /\ revision' = 0
              /\ toHost' = <<[type |-> "SYNC_REQUEST"]>>
           \/ /\ up' = FALSE /\ toHost' = <<>>
              /\ UNCHANGED <<role, rev, chunks, document, revision>>
        /\ UNCHANGED <<polite, edits, rooms, pageVars, toPage, known, diskVars, serverEvents, clientEvents,
                       carried>>
    BY <1>3 DEF HandleJoinRoom
  <2>2. toNative' \in Seq(Request)
    BY <1>3, MessageTyped DEF HandleJoinRoom
  <2>3. text \in Seq(Char)
    BY TextTypes
  <2>4. <<[type |-> "SYNC_REQUEST"]>> \in Seq(Frame)
    BY DEF Frame
  <2>5. toHost' \in Seq(Frame) /\ document' \in Seq(Char) /\ role' \in {"Offline", "Host", "Guest"}
        /\ rev' \in Nat /\ revision' \in Nat /\ up' \in BOOLEAN /\ chunks' \in ChunksType
    <3>1. CASE /\ role' = "Guest" /\ rev' = 0 /\ chunks' = NoChunks /\ up' = TRUE
               /\ document' = text /\ revision' = 0
               /\ toHost' = <<[type |-> "SYNC_REQUEST"]>>
      BY <1>1, <2>3, <2>4, <3>1
    <3>2. CASE up' = FALSE /\ toHost' = <<>> /\ UNCHANGED <<role, rev, chunks, document, revision>>
      BY <1>1, <3>2, TypeFacts
    <3> QED BY <2>1, <3>1, <3>2
  <2> QED BY <2>1, <2>2, <2>5, TypeFacts DEF Typed, pageVars, diskVars
<1> QED BY <1>2, <1>3

\* Each of the two queues of events is drained from its head.
LEMMA DrainTyped ==
    ASSUME TypeOK, NEW ok \in BOOLEAN, DrainSyncEvents(ok)
    PROVE  Typed'
<1>1. serverEvents \in Seq(Event) /\ clientEvents \in Seq(Event)
  BY TypeFacts
<1>2. PICK m \in Event : /\ HandleSyncEvent(m, ok)
                         /\ serverEvents' \in Seq(Event) /\ clientEvents' \in Seq(Event)
  <2>1. ASSUME NEW s \in Seq(Event), s # <<>> PROVE Head(s) \in Event /\ Tail(s) \in Seq(Event)
    BY <2>1, HeadTailProperties
  <2>2. CASE serverEvents # <<>> /\ HandleSyncEvent(Head(serverEvents), ok)
             /\ serverEvents' = Tail(serverEvents) /\ UNCHANGED clientEvents
    BY <1>1, <2>1, <2>2
  <2>3. CASE clientEvents # <<>> /\ HandleSyncEvent(Head(clientEvents), ok)
             /\ clientEvents' = Tail(clientEvents) /\ UNCHANGED serverEvents
    BY <1>1, <2>1, <2>3
  <2> QED BY <2>2, <2>3 DEF DrainSyncEvents
<1>3. /\ ShownTyped' /\ toHost' \in Seq(Frame) /\ chunks' \in ChunksType
      /\ UNCHANGED <<polite, edits, rooms, page, timer, loading, toNative, role, document,
                     revision, up, carried>>
  BY <1>2, EventType
<1> QED BY <1>2, <1>3, TypeFacts DEF Typed, ShownTyped

\* An operation is applied to the room and announced.
LEMMA CommitsTyped ==
    ASSUME TypeOK, NEW client \in {"A", "B"}, NEW op \in Operation,
           Accepts(document, op), Commits(client, op)
    PROVE  /\ document' \in Seq(Char) /\ revision' \in Nat
           /\ serverEvents' \in Seq(Event) /\ clientEvents' \in Seq(Event)
<1> DEFINE apply == [type |-> "APPLY", rev |-> revision + 1, client |-> client, op |-> op]
<1>1. /\ document' = Applied(document, op) /\ revision' = revision + 1
      /\ serverEvents' \in {serverEvents, Append(serverEvents, apply)}
      /\ clientEvents' \in {clientEvents, Append(clientEvents, apply)}
  BY DEF Commits, Announces
<1>2. document \in Seq(Char) /\ revision + 1 \in Nat
      /\ serverEvents \in Seq(Event) /\ clientEvents \in Seq(Event)
  BY TypeFacts
<1>3. apply \in Event
  BY <1>2 DEF Event
<1> HIDE DEF apply
<1>4. Append(serverEvents, apply) \in Seq(Event) /\ Append(clientEvents, apply) \in Seq(Event)
  BY <1>2, <1>3, AppendProperties
<1>5. ApplyStatus(document, op) = "applied"
  BY DEF Accepts
<1> QED BY <1>1, <1>2, <1>4, <1>5, AppliedIsSeq

LEMMA PeerEditsTyped ==
    ASSUME TypeOK, NEW text \in TypedTexts \cap Text, PeerEdits(text)
    PROVE  Typed'
<1> DEFINE ops == ComputeEditorDiff(document, text)
           client == IF role = "Host" THEN "B" ELSE "A"
<1>1. Len(ops) = 1 /\ Accepts(document, ops[1])
  BY DEF PeerEdits
<1>2. document \in Seq(Char) /\ text \in Seq(Char) /\ text \in Text
  BY TypeFacts, TextTypes
<1>3. ops \in Seq(Operation)
  BY <1>2, DiffType
<1>5. ops[1] \in Operation
  BY <1>1, <1>3, LenProperties
<1>4. Applied(document, ops[1]) \in Seq(Char)
  BY <1>1, <1>2, <1>5, AppliedIsSeq DEF Accepts
<1>6. /\ document' \in Seq(Char) /\ revision' \in Nat
      /\ serverEvents' \in Seq(Event) /\ clientEvents' \in Seq(Event) /\ carried' \in BOOLEAN
  <2>1. CASE Commits(client, ops[1]) /\ UNCHANGED <<failures, carried>>
    <3> HIDE DEF ops
    <3> QED BY <1>1, <1>5, <2>1, CommitsTyped, TypeFacts
  <2>2. CASE /\ document' = Applied(document, ops[1]) /\ revision' = revision + 1
             /\ carried' = FALSE /\ UNCHANGED <<serverEvents, clientEvents>>
    <3> HIDE DEF ops
    <3>1. carried' \in BOOLEAN
      BY <2>2, Zenon
    <3>2. revision + 1 \in Nat
      BY TypeFacts
    <3> QED BY <1>4, <2>2, <3>1, <3>2, TypeFacts
  <2>3. \/ Commits(client, ops[1]) /\ UNCHANGED <<failures, carried>>
        \/ /\ document' = Applied(document, ops[1]) /\ revision' = revision + 1
           /\ carried' = FALSE /\ UNCHANGED <<serverEvents, clientEvents>>
    BY DEF PeerEdits
  <2> QED BY <2>1, <2>2, <2>3
<1>7. UNCHANGED <<polite, rooms, pageVars, toNative, toPage, nativeVars, diskVars, up, toHost>>
  BY DEF PeerEdits
<1> QED BY <1>6, <1>7, TypeFacts DEF Typed, pageVars, nativeVars, diskVars

LEMMA HostServesTyped ==
    ASSUME TypeOK, HostServes
    PROVE  Typed'
<1> DEFINE frame == Head(toHost)
<1>1. /\ toHost \in Seq(Frame) /\ toHost # <<>> /\ toHost' = Tail(toHost)
      /\ UNCHANGED <<bounds, pageVars, toNative, toPage, nativeVars, diskVars, up>>
  BY TypeFacts DEF HostServes
<1>2. frame \in Frame /\ Tail(toHost) \in Seq(Frame)
  BY <1>1, HeadTailProperties
<1>3. /\ document' \in Seq(Char) /\ revision' \in Nat
      /\ serverEvents' \in Seq(Event) /\ clientEvents' \in Seq(Event) /\ carried' \in BOOLEAN
  <2>1. CASE frame.type = "SYNC_REQUEST"
    <3>1. clientEvents' = clientEvents \o Response /\ UNCHANGED <<document, revision, serverEvents, carried>>
      BY <2>1 DEF HostServes
    <3>2. Response \in Seq(Event) /\ clientEvents \in Seq(Event)
      BY ResponseIs, TypeFacts
    <3> QED BY <3>1, <3>2, TypeFacts, ConcatProperties
  <2>2. CASE frame.type # "SYNC_REQUEST" /\ Accepts(document, frame.op)
    <3>1. Commits("B", frame.op) /\ carried' = carried
      BY <2>2 DEF HostServes
    <3>2. frame.op \in Operation
      BY <1>2, <2>2 DEF Frame
    <3> QED BY <2>2, <3>1, <3>2, CommitsTyped, TypeFacts
  <2>3. CASE frame.type # "SYNC_REQUEST" /\ ~ Accepts(document, frame.op)
    <3>1. /\ clientEvents' = Append(clientEvents, [type |-> "ERROR"])
          /\ carried' = FALSE
          /\ UNCHANGED <<document, revision, serverEvents>>
      BY <2>3 DEF HostServes
    <3>2. [type |-> "ERROR"] \in Event /\ clientEvents \in Seq(Event)
      BY TypeFacts DEF Event
    <3> QED BY <3>1, <3>2, TypeFacts, AppendProperties
  <2> QED BY <2>1, <2>2, <2>3
<1> QED BY <1>1, <1>2, <1>3, TypeFacts DEF Typed, bounds, pageVars, nativeVars, diskVars

LEMMA NextTyped ==
    ASSUME TypeOK, [Next]_vars
    PROVE  Typed'
<1> USE TypeFacts
<1>1. ASSUME NEW text \in TypedTexts, Types(text) PROVE Typed'
  BY <1>1, TextTypes DEF Types, Typed, nativeVars, diskVars, roomVars
<1>2. CASE SaveTimer
  <2>1. [type |-> "editorChanged", text |-> page] \in Request
    BY DEF Request
  <2>2. toNative' \in Seq(Request)
    BY <1>2, <2>1, PostsTyped DEF SaveTimer
  <2> QED BY <1>2, <2>2 DEF SaveTimer, Typed, bounds, nativeVars, diskVars, roomVars
<1>3. ASSUME NEW type \in {"createRoom", "joinRoom"}, AsksForRoom(type) PROVE Typed'
  <2>1. [type |-> type, text |-> page] \in Request
    BY DEF Request
  <2>2. toNative' \in Seq(Request)
    BY <1>3, <2>1, PostsTyped DEF AsksForRoom
  <2> QED BY <1>3, <2>2 DEF AsksForRoom, Typed, pageVars, nativeVars, diskVars, roomVars
<1>4. CASE PageReceives
  <2>1. Head(toPage) \in Seq(Char) /\ Tail(toPage) \in Seq(Seq(Char))
    BY <1>4, HeadTailProperties DEF PageReceives
  <2>2. Loaded(Head(toPage)) \in Seq(Char)
    BY <2>1, WebAssumption DEF Loaded
  <2> QED BY <1>4, <2>1, <2>2 DEF PageReceives, Typed, bounds, nativeVars, diskVars, roomVars
<1>5. ASSUME PostInitialState, loading' \in BOOLEAN, toNative' \in Seq(Request) PROVE Typed'
  <2>1. known' \in Seq(Char) /\ unread' \in BOOLEAN
    BY <1>5, EmptySeq DEF PostInitialState
  <2>2. toPage' \in Seq(Seq(Char))
    BY <1>5, <2>1, AppendProperties DEF PostInitialState
  <2> QED BY <1>5, <2>1, <2>2 DEF PostInitialState, Typed, bounds, roomVars
<1>6. CASE NavigationCompleted
  BY <1>5, <1>6 DEF NavigationCompleted
<1>7. CASE HandleUiReady
  BY <1>5, <1>7, MessageTyped DEF HandleUiReady
<1>8. CASE FindsNoRoom
  <2>1. toNative' \in Seq(Request)
    BY <1>8, MessageTyped DEF FindsNoRoom
  <2> QED BY <1>8, <2>1 DEF FindsNoRoom, Typed, bounds, pageVars, nativeVars, diskVars, roomVars
<1>9. CASE LosesHost
  <2>1. [type |-> "Disconnected"] \in Event /\ <<>> \in Seq(Frame)
    BY EmptySeq DEF Event
  <2>2. clientEvents' \in Seq(Event) /\ toHost' \in Seq(Frame)
    <3>1. PICK kept \in 0..Len(clientEvents) :
             clientEvents' = Append(SubSeq(clientEvents, 1, kept), [type |-> "Disconnected"])
      BY <1>9 DEF LosesHost
    <3>2. Len(clientEvents) \in Nat /\ kept \in Nat /\ \A i \in 1..kept : clientEvents[i] \in Event
      BY LenProperties
    <3>3. SubSeq(clientEvents, 1, kept) \in Seq(Event)
      BY <3>2, SubSeqProperties
    <3>4. toHost' = <<>>
      BY <1>9 DEF LosesHost
    <3> QED BY <2>1, <3>1, <3>3, <3>4, AppendProperties
  <2> QED BY <1>9, <2>2 DEF LosesHost, Typed, pageVars, nativeVars, diskVars
<1>10. CASE UNCHANGED vars
  BY <1>10 DEF vars, bounds, pageVars, nativeVars, diskVars, roomVars, Typed
<1> QED BY <1>1, <1>2, <1>3, <1>4, <1>6, <1>7, <1>8, <1>9, <1>10, EditorChangedTyped, RoomsTyped,
           DrainTyped, PeerEditsTyped, HostServesTyped DEF Next

\* The texts of the page, the program, the file and the room are texts, revisions count, and
\* only the requests, documents, frames and events the code knows are ever on their way.
THEOREM TypeCorrect == Spec => []TypeOK
<1>1. Init => TypeOK
  <2> SUFFICES ASSUME Init PROVE TypeOK
    OBVIOUS
  <2>1. [type |-> "uiReady"] \in Request
    BY DEF Request
  <2>2. <<[type |-> "uiReady"]>> \in Seq(Request) /\ <<>> \in Seq(Char) /\ <<>> \in Seq(Seq(Char))
        /\ <<>> \in Seq(Frame) /\ <<>> \in Seq(Event) /\ <<>> \in Seq(Seq(Seq(Char)))
    BY <2>1, EmptySeq
  <2> QED BY <2>2, TypeFacts, TextTypes DEF Init, NoChunks, ChunksType
<1>2. TypeOK /\ [Next]_vars => TypeOK'
  <2> SUFFICES ASSUME TypeOK, [Next]_vars PROVE TypeOK'
    OBVIOUS
  <2>1. Typed'
    BY NextTyped
  <2> QED BY <2>1 DEF Typed, TypeOK, ChunksType
<1> QED BY <1>1, <1>2, PTL DEF Spec

-----------------------------------------------------------------------------
(* Polite users. What is true between two steps when nobody types, opens a   *)
(* room or joins one while anything is under way, and every operation has    *)
(* been carried.                                                             *)

\* The text the page is going to show, which is the document or what it makes of it.
Shown == IF toPage = <<>> THEN page ELSE Loaded(toPage[Len(toPage)])
Follows == Shown \in {known, Loaded(known)}

\* What the user typed is on its way to the program, or the page follows it.
PageInv ==
    \/ /\ timer /\ ~loading /\ toNative = <<>> /\ toPage = <<>>
    \/ /\ ~timer /\ ~loading /\ toPage = <<>>
       /\ toNative = <<[type |-> "editorChanged", text |-> page]>>
    \/ /\ ~timer /\ Follows
       /\ \/ toNative = <<>> \/ toNative = <<[type |-> "uiReady"]>>
          \/ /\ ~loading /\ toPage = <<>>
             /\ \E type \in {"createRoom", "joinRoom"} : toNative = <<[type |-> type, text |-> page]>>

\* Until the page is loaded nobody has done anything.
Opening == loading \/ toNative = <<[type |-> "uiReady"]>>

\* Nothing of a room is under way when the user has begun something; the program only hears
\* of a lost connection then.
Busy == timer \/ loading \/ toNative # <<>>
OnlyLost(events) == \A i \in 1..Len(events) : events[i].type = "Disconnected"
Idle == toHost = <<>> /\ serverEvents = <<>> /\ OnlyLost(clientEvents)

\* The window agrees with its room; or it lacks the one operation that is announced.
Agree == known = document /\ rev = revision
Lacks(m, client) ==
    /\ m.type = "APPLY" /\ m.client = client /\ m.rev = rev + 1 /\ revision = rev + 1
    /\ ApplyStatus(known, m.op) = "applied" /\ document = Applied(known, m.op)
HostInStep ==
    \/ serverEvents = <<>> /\ Agree
    \/ Len(serverEvents) = 1 /\ Lacks(serverEvents[1], "B")

\* The host has still to be asked for the document.
Asks ==
    /\ toHost = <<[type |-> "SYNC_REQUEST"]>> /\ OnlyLost(clientEvents) /\ chunks = NoChunks

\* Its document is on its way: k chunks of it have been taken, d events come before the next,
\* and e more are there, the last ones among them unless the connection is lost.
ReceivesAt(k, d, e) ==
    /\ toHost = <<>>
    /\ d + e <= Len(clientEvents)
    /\ \A i \in 1..Len(clientEvents) :
          IF i \in d + 1..d + e THEN clientEvents[i] = Response[i - d + k]
                                ELSE clientEvents[i].type = "Disconnected"
    /\ IF k = 0 THEN chunks = NoChunks
       ELSE /\ chunks.rev = revision /\ Len(chunks.parts) = Len(Response)
            /\ \A i \in 1..Len(Response) :
                  chunks.parts[i] = IF i <= k THEN <<Response[i].text>> ELSE <<>>
Receives == \E k \in 0..Len(Response) - 1, d \in 0..Len(clientEvents), e \in 0..Len(Response) :
               /\ k + e <= Len(Response) /\ (up => k + e = Len(Response))
               /\ ReceivesAt(k, d, e)

\* The operations of the guest that the host has not seen lead to what the window shows, and
\* those it has come back in order, after d events of earlier rooms.
Ops(frames) == [i \in 1..Len(frames) |-> frames[i].op]
AwaitsOwn(d) ==
    /\ \A i \in 1..Len(toHost) : toHost[i].type = "EDIT"
    /\ Replays(document, Ops(toHost), known)
    /\ rev + Len(clientEvents) - d = revision
    /\ \A i \in d + 1..Len(clientEvents) :
          /\ clientEvents[i].type = "APPLY" /\ clientEvents[i].client = "B"
          /\ clientEvents[i].rev = rev + i - d
AwaitsPeers(d) ==
    toHost = <<>> /\ Len(clientEvents) = d + 1 /\ Lacks(clientEvents[d + 1], "A")
GuestInStep ==
    \E d \in 0..Len(clientEvents) :
        /\ \A i \in 1..d : clientEvents[i].type = "Disconnected"
        /\ AwaitsOwn(d) \/ AwaitsPeers(d)

GuestAlone ==
    ~up /\ toHost = <<>> /\ \A i \in 1..Len(clientEvents) : clientEvents[i].type # "SYNC_RESPONSE"
GuestInv == serverEvents = <<>> /\ (Receives \/ (up /\ (Asks \/ GuestInStep)) \/ GuestAlone)

RoomInv ==
    /\ role = "Offline" => Idle /\ ~up
    /\ role = "Host" => toHost = <<>> /\ OnlyLost(clientEvents) /\ HostInStep
    /\ role = "Guest" => GuestInv

Polite ==
    /\ known \in Text /\ document \in Text
    /\ PageInv
    /\ Busy => Idle
    /\ Opening => role = "Offline" /\ disk \in Text
    /\ RoomInv

PoliteInv == polite /\ carried => Polite

\* The head of a queue, and what is behind it.
LEMMA HeadAndTail ==
    ASSUME NEW S, NEW s \in Seq(S), s # <<>>
    PROVE  /\ Len(s) \in Nat \ {0} /\ Head(s) = s[1] /\ Head(s) \in S
           /\ Tail(s) \in Seq(S) /\ Len(Tail(s)) = Len(s) - 1
           /\ \A i \in 1..Len(s) - 1 : Tail(s)[i] = s[i + 1]
BY EmptySeq, HeadTailProperties, LenProperties

LEMMA AppendAt ==
    ASSUME NEW S, NEW s \in Seq(S), NEW e \in S
    PROVE  /\ Append(s, e) \in Seq(S) /\ Len(Append(s, e)) = Len(s) + 1 /\ Len(s) \in Nat
           /\ \A i \in 1..Len(s) : Append(s, e)[i] = s[i]
           /\ Append(s, e)[Len(s) + 1] = e
BY AppendProperties, LenProperties

LEMMA OnlyLostTail ==
    ASSUME NEW s \in Seq(Event), s # <<>>, OnlyLost(s)
    PROVE  Head(s).type = "Disconnected" /\ OnlyLost(Tail(s))
<1>1. /\ Len(s) \in Nat \ {0} /\ Head(s) = s[1] /\ Len(Tail(s)) = Len(s) - 1
      /\ \A i \in 1..Len(s) - 1 : Tail(s)[i] = s[i + 1]
  BY HeadAndTail
<1>2. Head(s).type = "Disconnected"
  BY <1>1 DEF OnlyLost
<1>3. ASSUME NEW i \in 1..Len(Tail(s)) PROVE Tail(s)[i].type = "Disconnected"
  <2>1. i \in 1..Len(s) - 1 /\ i + 1 \in 1..Len(s)
    BY <1>1
  <2> QED BY <2>1, <1>1 DEF OnlyLost
<1> QED BY <1>2, <1>3 DEF OnlyLost

LEMMA OnlyLostAppend ==
    ASSUME NEW s \in Seq(Event), OnlyLost(s)
    PROVE  OnlyLost(Append(s, [type |-> "Disconnected"]))
<1> DEFINE e == [type |-> "Disconnected"]
           t == Append(s, e)
<1>1. e \in Event
  BY DEF Event
<1>2. e.type = "Disconnected"
  OBVIOUS
<1> HIDE DEF e
<1>3. /\ Len(t) = Len(s) + 1 /\ Len(s) \in Nat
      /\ \A i \in 1..Len(s) : t[i] = s[i]
      /\ t[Len(s) + 1] = e
  BY <1>1, AppendAt
<1> HIDE DEF t
<1>4. ASSUME NEW i \in 1..Len(t) PROVE t[i].type = "Disconnected"
  <2>1. i \in 1..Len(s) \/ i = Len(s) + 1
    BY <1>3
  <2> QED BY <2>1, <1>2, <1>3 DEF OnlyLost
<1> QED BY <1>4 DEF OnlyLost, t, e

\* The operations of frames that are edits.
LEMMA OpsNothing == Ops(<<>>) = <<>>
<1>1. Ops(<<>>) \in [1..0 -> Operation]
  BY DEF Ops
<1>2. Ops(<<>>) \in Seq(Operation)
  BY <1>1, SeqDef
<1>3. Len(Ops(<<>>)) = 0
  BY <1>1, <1>2, LenProperties
<1> QED BY <1>2, <1>3, EmptySeq

LEMMA OpsType ==
    ASSUME NEW frames \in Seq(Frame), \A i \in 1..Len(frames) : frames[i].type = "EDIT"
    PROVE  /\ Ops(frames) \in Seq(Operation) /\ Len(Ops(frames)) = Len(frames)
           /\ \A i \in 1..Len(frames) : Ops(frames)[i] = frames[i].op
<1>1. Len(frames) \in Nat /\ \A i \in 1..Len(frames) : frames[i] \in Frame
  BY LenProperties
<1>2. \A i \in 1..Len(frames) : frames[i].op \in Operation
  BY <1>1 DEF Frame
<1>3. Ops(frames) \in [1..Len(frames) -> Operation]
  BY <1>2 DEF Ops
<1>4. Ops(frames) \in Seq(Operation)
  BY <1>1, <1>3, SeqDef
<1> QED BY <1>1, <1>3, <1>4, LenProperties DEF Ops

LEMMA OpsTail ==
    ASSUME NEW frames \in Seq(Frame), frames # <<>>,
           \A i \in 1..Len(frames) : frames[i].type = "EDIT"
    PROVE  /\ Head(Ops(frames)) = Head(frames).op /\ Head(frames).op \in Operation
           /\ Ops(frames) # <<>>
           /\ Tail(Ops(frames)) = Ops(Tail(frames))
           /\ \A i \in 1..Len(Tail(frames)) : Tail(frames)[i].type = "EDIT"
<1> DEFINE ops == Ops(frames)
           rest == Tail(frames)
<1>1. /\ ops \in Seq(Operation) /\ Len(ops) = Len(frames)
      /\ \A i \in 1..Len(frames) : ops[i] = frames[i].op
  BY OpsType
<1>2. /\ Len(frames) \in Nat \ {0} /\ Head(frames) = frames[1] /\ rest \in Seq(Frame)
      /\ Len(rest) = Len(frames) - 1
      /\ \A i \in 1..Len(frames) - 1 : rest[i] = frames[i + 1]
  BY HeadAndTail
<1> HIDE DEF ops, rest
<1>3. ops # <<>>
  BY <1>1, <1>2, EmptySeq
<1>4. /\ Head(ops) = ops[1] /\ Head(ops) \in Operation
      /\ Tail(ops) \in Seq(Operation) /\ Len(Tail(ops)) = Len(ops) - 1
      /\ \A i \in 1..Len(ops) - 1 : Tail(ops)[i] = ops[i + 1]
  BY <1>1, <1>3, HeadAndTail
<1>5. \A i \in 1..Len(rest) : i \in 1..Len(frames) - 1 /\ i + 1 \in 1..Len(frames)
  BY <1>2
<1>6. \A i \in 1..Len(rest) : rest[i].type = "EDIT"
  BY <1>2, <1>5
<1>7. /\ Ops(rest) \in Seq(Operation) /\ Len(Ops(rest)) = Len(rest)
      /\ \A i \in 1..Len(rest) : Ops(rest)[i] = rest[i].op
  BY <1>2, <1>6, OpsType
<1>8. ASSUME NEW i \in 1..Len(Tail(ops)) PROVE Tail(ops)[i] = Ops(rest)[i]
  <2>1. i \in 1..Len(rest) /\ i \in 1..Len(ops) - 1
    BY <1>1, <1>2, <1>4
  <2>2. i \in 1..Len(frames) - 1 /\ i + 1 \in 1..Len(frames)
    BY ONLY <2>1, <1>5
  <2>3. Tail(ops)[i] = ops[i + 1]
    BY ONLY <2>1, <1>4
  <2>4. ops[i + 1] = frames[i + 1].op
    BY ONLY <2>2, <1>1
  <2>5. Ops(rest)[i] = rest[i].op
    BY ONLY <2>1, <1>7
  <2>6. rest[i] = frames[i + 1]
    BY ONLY <2>2, <1>2
  <2> QED BY ONLY <2>3, <2>4, <2>5, <2>6
<1>9. Tail(ops) = Ops(rest)
  BY <1>1, <1>2, <1>4, <1>7, <1>8, SeqEqual
<1>10. Head(ops) = Head(frames).op
  BY <1>1, <1>2, <1>4
<1> QED BY <1>3, <1>4, <1>6, <1>9, <1>10 DEF ops, rest

\* A host whose server accepts each operation ends with the text they lead to.
LEMMA HostReplays ==
    ASSUME NEW s \in HostState, s.rev = s.revision, NEW ops \in Seq(Operation), NEW to,
           Replays(s.document, ops, to), HostAppliesAll(s, ops).carried
    PROVE  LET after == HostAppliesAll(s, ops)
           IN  after.document = to /\ after.posts = s.posts /\ after.rev = after.revision
<1> DEFINE len == Len(ops)
<1>1. len \in Nat
  BY LenProperties
<1>2. PICK f : /\ HostAppliesAll(s, ops) = f[len] /\ f[0] = s
               /\ \A k \in 1..len : f[k] = HostApplies(f[k - 1], ops[k])
  BY <1>1, AfterSteps
<1>3. PICK texts \in [0..len -> Text] :
        /\ texts[0] = s.document /\ texts[len] = to
        /\ \A i \in 1..len :
             /\ ApplyStatus(texts[i - 1], ops[i]) = "applied"
             /\ texts[i] = Applied(texts[i - 1], ops[i])
  BY DEF Replays
<1>6. ASSUME NEW n \in 0..len PROVE f[n] \in HostState
  BY <1>2, HostStepsType
<1> DEFINE Good(n) == /\ f[n] \in HostState /\ f[n].document = texts[n] /\ f[n].posts = s.posts
                      /\ f[n].rev = f[n].revision
           T == {n \in 0..len : f[n].carried /\ ~ Good(n)}
<1> HIDE DEF len
<1>4. T = {}
  <2>1. SUFFICES ASSUME T # {} PROVE FALSE
    OBVIOUS
  <2>2. PICK k \in T : \A y \in T : k <= y
    <3>1. T \in SUBSET Nat
      BY <1>1
    <3> HIDE DEF T
    <3> QED BY <3>1, <2>1, LeastElement
  <2>3. k \in 0..len /\ f[k].carried /\ ~ Good(k)
    OBVIOUS
  <2>4. k # 0
    <3>1. f[0].carried => Good(0)
      BY <1>2, <1>3
    <3> QED BY <3>1, <2>3
  <2>5. k - 1 \in 0..len /\ ~ (k <= k - 1) /\ k \in 1..len
    BY <2>3, <2>4, <1>1
  <2>7. /\ texts[k] = Applied(texts[k - 1], ops[k])
        /\ f[k] = HostApplies(f[k - 1], ops[k])
    BY <2>5, <1>2, <1>3
  <2>8. ops[k] \in Operation
    BY <2>5, LenProperties DEF len
  <2>15. f[k - 1] \in HostState
    BY <2>5, <1>6
  <2>9. HostApplies(f[k - 1], ops[k]) \in HostState
    BY <2>8, <2>15, HostAppliesType
  <2>12. f[k - 1].carried /\ Accepts(f[k - 1].document, ops[k])
    BY <2>3, <2>7, <2>8, <2>15, HostAppliesCarries
  <2>6. Good(k - 1)
    BY <2>2, <2>5, <2>12
  <2>10. HostApplies(f[k - 1], ops[k]) =
           [f[k - 1] EXCEPT !.document = Applied(f[k - 1].document, ops[k]),
                            !.revision = f[k - 1].revision + 1, !.rev = f[k - 1].revision + 1]
    BY <2>12 DEF HostApplies
  <2>11. Good(k)
    BY <2>6, <2>7, <2>9, <2>10 DEF HostState
  <2> QED BY <2>3, <2>11
<1>5. Good(len)
  <2>1. len \in 0..len
    BY <1>1
  <2> QED BY <2>1, <1>2, <1>4
<1> QED BY <1>2, <1>3, <1>5

\* The document in chunks, field by field.
LEMMA ResponseFacts ==
    ASSUME TypeOK
    PROVE  /\ Response \in Seq(Event) /\ Len(Response) \in Nat \ {0}
           /\ \A j \in 1..Len(Response) :
                 /\ Response[j].type = "SYNC_RESPONSE" /\ Response[j].rev = revision
                 /\ Response[j].index = j /\ Response[j].count = Len(Response)
                 /\ Response[j].text = Piece(document, SyncChunkChars, j)
<1>1. document \in Seq(Char) /\ revision \in Nat
  BY TypeFacts
<1>2. /\ Response \in Seq(Event)
      /\ Len(Response) \in Nat \ {0}
      /\ \A k \in 1..Len(Response) :
            Response[k] = [type |-> "SYNC_RESPONSE", rev |-> revision, index |-> k,
                           count |-> Len(Response), text |-> Piece(document, SyncChunkChars, k)]
  BY <1>1, ResponseIs
<1>3. ASSUME NEW j \in 1..Len(Response)
      PROVE  /\ Response[j].type = "SYNC_RESPONSE" /\ Response[j].rev = revision
             /\ Response[j].index = j /\ Response[j].count = Len(Response)
             /\ Response[j].text = Piece(document, SyncChunkChars, j)
  <2>1. Response[j] = [type |-> "SYNC_RESPONSE", rev |-> revision, index |-> j,
                       count |-> Len(Response), text |-> Piece(document, SyncChunkChars, j)]
    BY <1>2
  <2> QED BY <2>1
<1> QED BY <1>2, <1>3

\* A window nothing of a room is on its way to, and whose room goes on, agrees with it.
LEMMA IdleAgrees ==
    ASSUME TypeOK, RoomInv, Idle, role # "Offline", up \/ role = "Host"
    PROVE  Agree
<1>1. /\ role \in {"Host", "Guest"} /\ rev \in Nat /\ revision \in Nat
      /\ clientEvents \in Seq(Event) /\ serverEvents \in Seq(Event)
  BY TypeFacts
<1>2. CASE role = "Host"
  <2>1. HostInStep /\ serverEvents = <<>>
    BY <1>2 DEF RoomInv, Idle
  <2> QED BY <2>1, EmptySeq DEF HostInStep
<1>3. CASE role = "Guest"
  <2> DEFINE n == Len(clientEvents)
  <2>1. GuestInv /\ up /\ toHost = <<>> /\ n \in Nat
        /\ \A i \in 1..n : clientEvents[i].type = "Disconnected"
    BY <1>1, <1>3, LenProperties DEF RoomInv, Idle, OnlyLost
  <2>2. ~ Receives
    <3> SUFFICES ASSUME NEW k \in 0..Len(Response) - 1, NEW d \in 0..n, NEW e \in 0..Len(Response),
                        k + e = Len(Response), ReceivesAt(k, d, e)
                 PROVE  FALSE
      BY <2>1 DEF Receives
    <3>1. /\ Len(Response) \in Nat \ {0}
          /\ \A j \in 1..Len(Response) : Response[j].type = "SYNC_RESPONSE"
      BY ResponseFacts
    <3> DEFINE r == Len(Response)
               j == d + 1
    <3>2. /\ d + e <= n
          /\ \A i \in 1..n : i \in d + 1..d + e => clientEvents[i] = Response[i - d + k]
      BY DEF ReceivesAt
    <3>3. r \in Nat \ {0} /\ n \in Nat /\ k \in 0..r - 1 /\ d \in 0..n /\ e \in 0..r /\ k + e = r
      BY <2>1, <3>1
    <3> HIDE DEF r, n
    <3>4. j \in d + 1..d + e /\ j \in 1..n /\ j - d + k \in 1..r
      BY ONLY <3>2, <3>3
    <3> HIDE DEF j
    <3>5. clientEvents[j] = Response[j - d + k]
      BY ONLY <3>2, <3>4
    <3>6. clientEvents[j].type = "Disconnected"
      BY <2>1, <3>4
    <3>7. Response[j - d + k].type = "SYNC_RESPONSE"
      BY <3>1, <3>4 DEF r
    <3> QED BY ONLY <3>5, <3>6, <3>7
  <2>3. ~ Asks
    <3>1. Len(<<[type |-> "SYNC_REQUEST"]>>) = 1
      OBVIOUS
    <3> QED BY <2>1, <3>1, EmptySeq DEF Asks
  <2>4. PICK d \in 0..n : AwaitsOwn(d) \/ AwaitsPeers(d)
    BY <2>1, <2>2, <2>3 DEF GuestInv, GuestAlone, GuestInStep
  <2>5. CASE AwaitsOwn(d)
    <3>1. d = n
      <4>1. SUFFICES ASSUME d # n PROVE FALSE
        OBVIOUS
      <4>2. d + 1 \in d + 1..n /\ d + 1 \in 1..n
        BY <2>1, <4>1
      <4>3. clientEvents[d + 1].type = "APPLY"
        BY <2>5, <4>2 DEF AwaitsOwn
      <4> QED BY <2>1, <4>2, <4>3
    <3>2. rev + n - d = revision /\ Replays(document, Ops(<<>>), known)
      BY <2>1, <2>5 DEF AwaitsOwn
    <3>3. rev = revision
      BY <1>1, <2>1, <3>1, <3>2
    <3> QED BY <3>2, <3>3, OpsNothing, ReplaysNothingIsEqual DEF Agree
  <2>6. CASE AwaitsPeers(d)
    <3>1. n = d + 1 /\ clientEvents[d + 1].type = "APPLY"
      BY <2>6 DEF AwaitsPeers, Lacks
    <3>2. d + 1 \in 1..n
      BY <2>1, <3>1
    <3> QED BY <2>1, <3>1, <3>2
  <2> QED BY <2>4, <2>5, <2>6
<1> QED BY <1>1, <1>2, <1>3

\* Polite users find that the page, the program and the room agree.
LEMMA PoliteMeansAgreed ==
    ASSUME TypeOK, PoliteInv
    PROVE  PoliteAgree
<1> SUFFICES ASSUME polite, carried, Quiet, ~timer
             PROVE  page \in {known, Loaded(known)} /\ (role # "Offline" /\ up => Agree)
  BY DEF PoliteAgree, Agree
<1>1. /\ ~loading /\ toNative = <<>> /\ toPage = <<>> /\ toHost = <<>>
      /\ serverEvents = <<>> /\ clientEvents = <<>>
  BY DEF Quiet, Channels
<1>2. Polite
  BY DEF PoliteInv
<1>3. page \in {known, Loaded(known)}
  <2>1. Len(<<[type |-> "editorChanged", text |-> page]>>) = 1 /\ Len(<<>>) = 0
    OBVIOUS
  <2>2. toNative # <<[type |-> "editorChanged", text |-> page]>>
    BY <1>1, <2>1
  <2> QED BY <1>1, <1>2, <2>2 DEF Polite, PageInv, Shown, Follows
<1>4. Idle
  BY <1>1, EmptySeq DEF Idle, OnlyLost
<1> QED BY <1>2, <1>3, <1>4, IdleAgrees DEF Polite

-----------------------------------------------------------------------------
(* The steps of the page, and those of the program for it.                   *)

LEMMA OneMessage ==
    ASSUME NEW m
    PROVE  <<m>> # <<>> /\ Head(<<m>>) = m /\ Tail(<<m>>) = <<>>
<1>1. Len(<<m>>) = 1 /\ Len(<<>>) = 0
  OBVIOUS
<1>2. <<m>> # <<>>
  BY <1>1
<1>3. <<m>> \in Seq({m})
  OBVIOUS
<1>4. Head(<<m>>) = <<m>>[1] /\ Tail(<<m>>) \in Seq({m}) /\ Len(Tail(<<m>>)) = 0
  BY <1>1, <1>2, <1>3, HeadAndTail
<1> QED BY <1>2, <1>4, EmptySeq

\* What the next message of the page says about the page.
LEMMA MessageMeans ==
    ASSUME PageInv, NEW type, Message(type)
    PROVE  /\ ~timer /\ toNative # <<>> /\ toNative' = <<>>
           /\ type = "uiReady" => Follows /\ toNative = <<[type |-> "uiReady"]>>
           /\ type # "uiReady" =>
                  /\ ~loading /\ toPage = <<>> /\ Head(toNative).text = page
                  /\ toNative # <<[type |-> "uiReady"]>>
           /\ type \in {"createRoom", "joinRoom"} => page \in {known, Loaded(known)}
<1>1. toNative # <<>> /\ Head(toNative).type = type /\ toNative' = Tail(toNative)
  BY DEF Message
<1>2. PICK m : toNative = <<m>>
  BY <1>1 DEF PageInv
<1>3. toNative' = <<>> /\ m = Head(toNative) /\ m.type = type
  BY <1>1, <1>2, OneMessage
<1>4. CASE /\ ~timer /\ ~loading /\ toPage = <<>>
           /\ toNative = <<[type |-> "editorChanged", text |-> page]>>
  <2>1. m = [type |-> "editorChanged", text |-> page]
    BY <1>3, <1>4, OneMessage
  <2>2. type = "editorChanged" /\ m.text = page
    BY <1>3, <2>1
  <2>3. Head(<<[type |-> "uiReady"]>>).type = "uiReady"
    BY OneMessage
  <2> QED BY <1>1, <1>3, <1>4, <2>2, <2>3
<1>5. CASE /\ ~timer /\ Follows
           /\ toNative = <<[type |-> "uiReady"]>>
  <2>1. m = [type |-> "uiReady"]
    BY <1>3, <1>5, OneMessage
  <2>2. type = "uiReady"
    BY <1>3, <2>1
  <2> QED BY <1>1, <1>3, <1>5, <2>2
<1>6. CASE /\ ~timer /\ Follows /\ ~loading /\ toPage = <<>>
           /\ \E kind \in {"createRoom", "joinRoom"} : toNative = <<[type |-> kind, text |-> page]>>
  <2>1. PICK kind \in {"createRoom", "joinRoom"} : toNative = <<[type |-> kind, text |-> page]>>
    BY <1>6
  <2>2. m = [type |-> kind, text |-> page]
    BY <1>3, <2>1, OneMessage
  <2>3. type = kind /\ m.text = page
    BY <1>3, <2>2
  <2>4. Head(<<[type |-> "uiReady"]>>).type = "uiReady"
    BY OneMessage
  <2>5. page \in {known, Loaded(known)}
    BY <1>6 DEF Follows, Shown
  <2> QED BY <1>1, <1>3, <1>6, <2>1, <2>3, <2>4, <2>5
<1> QED BY <1>1, <1>4, <1>5, <1>6 DEF PageInv

\* Nothing that RoomInv speaks of changes.
RoomStays ==
    UNCHANGED <<role, known, rev, chunks, document, revision, up, toHost, serverEvents, clientEvents>>

LEMMA RoomInvStays ==
    ASSUME RoomStays
    PROVE  (RoomInv => RoomInv') /\ (Idle => Idle') /\ known' = known /\ document' = document
<1>1. Response' = Response
  BY DEF RoomStays, Response
<1>2. Idle => Idle'
  BY DEF RoomStays, Idle, OnlyLost
<1>3. HostInStep => HostInStep'
  BY DEF RoomStays, HostInStep, Agree, Lacks
<1>4. Receives => Receives'
  BY <1>1 DEF RoomStays, Receives, ReceivesAt
<1>5. Asks => Asks'
  BY DEF RoomStays, Asks, OnlyLost
<1>6. GuestInStep => GuestInStep'
  BY DEF RoomStays, GuestInStep, AwaitsOwn, AwaitsPeers, Lacks, Ops
<1>7. GuestAlone => GuestAlone'
  BY DEF RoomStays, GuestAlone
<1> QED BY <1>2, <1>3, <1>4, <1>5, <1>6, <1>7 DEF RoomStays, RoomInv, GuestInv, OnlyLost

LEMMA QuietMeans ==
    ASSUME Quiet
    PROVE  /\ ~loading /\ toNative = <<>> /\ toPage = <<>> /\ toHost = <<>>
           /\ serverEvents = <<>> /\ clientEvents = <<>> /\ Idle
<1>1. /\ ~loading /\ toNative = <<>> /\ toPage = <<>> /\ toHost = <<>>
      /\ serverEvents = <<>> /\ clientEvents = <<>>
  BY DEF Quiet, Channels
<1> QED BY <1>1, EmptySeq DEF Idle, OnlyLost

\* The page types, posts and shows; the room does not notice.
LEMMA PageKeeps ==
    ASSUME TypeOK, Polite, polite,
           \/ \E text : Types(text)
           \/ SaveTimer
           \/ \E type \in {"createRoom", "joinRoom"} : AsksForRoom(type)
           \/ PageReceives
           \/ FindsNoRoom
    PROVE  Polite'
<1>1. /\ known \in Text /\ document \in Text /\ PageInv /\ RoomInv
      /\ Busy => Idle
      /\ Opening => role = "Offline" /\ disk \in Text
  BY DEF Polite
<1>2. RoomStays /\ disk' = disk
  BY DEF Types, SaveTimer, AsksForRoom, PageReceives, FindsNoRoom, RoomStays,
         nativeVars, diskVars, roomVars
<1>3. /\ RoomInv' /\ (Idle => Idle') /\ known' \in Text /\ document' \in Text /\ role' = role
      /\ known' = known
  BY <1>1, <1>2, RoomInvStays DEF RoomStays
<1>4. ASSUME NEW text, Types(text) PROVE Polite'
  <2>1. /\ Idle /\ ~loading /\ toNative = <<>> /\ toPage = <<>>
        /\ timer' = TRUE /\ UNCHANGED <<loading, toNative, toPage>>
    BY <1>4, QuietMeans DEF Types
  <2>2. PageInv' /\ ~ Opening'
    BY <2>1, OneMessage DEF PageInv, Opening
  <2> QED BY <1>3, <2>1, <2>2 DEF Polite
<1>5. CASE SaveTimer
  <2>1. timer /\ timer' = FALSE /\ Posts([type |-> "editorChanged", text |-> page])
        /\ UNCHANGED <<page, loading, toPage>>
    BY <1>5 DEF SaveTimer
  <2>2. ~loading /\ toNative = <<>> /\ toPage = <<>>
    BY <1>1, <2>1 DEF PageInv
  <2>3. toNative' = <<[type |-> "editorChanged", text |-> page]>>
    BY <2>1, <2>2 DEF Posts
  <2>4. PageInv'
    BY <2>1, <2>2, <2>3 DEF PageInv
  <2>5. ~ Opening'
    <3>1. [type |-> "editorChanged", text |-> page].type # [type |-> "uiReady"].type
      OBVIOUS
    <3>2. toNative' # <<[type |-> "uiReady"]>>
      BY <2>3, <3>1, OneMessage
    <3> QED BY <2>1, <2>2, <3>2 DEF Opening
  <2>6. Idle
    BY <1>1, <2>1 DEF Busy
  <2> QED BY <1>3, <2>4, <2>5, <2>6 DEF Polite
<1>6. ASSUME NEW type \in {"createRoom", "joinRoom"}, AsksForRoom(type) PROVE Polite'
  <2>1. /\ ~loading /\ ~timer /\ Posts([type |-> type, text |-> page]) /\ Idle
        /\ toNative = <<>> /\ toPage = <<>>
        /\ UNCHANGED <<page, timer, loading, toPage>>
    BY <1>6, QuietMeans DEF AsksForRoom, pageVars
  <2>2. Follows
    BY <1>1, <2>1, OneMessage DEF PageInv
  <2>3. toNative' = <<[type |-> type, text |-> page]>>
    BY <2>1 DEF Posts
  <2>4. Follows'
    BY <1>3, <2>1, <2>2 DEF Follows, Shown
  <2>5. PageInv'
    BY <1>3, <2>1, <2>2, <2>3, <2>4 DEF PageInv
  <2>6. ~ Opening'
    <3>1. [type |-> type, text |-> page].type # [type |-> "uiReady"].type
      OBVIOUS
    <3>2. toNative' # <<[type |-> "uiReady"]>>
      BY <2>3, <3>1, OneMessage
    <3> QED BY <2>1, <3>2 DEF Opening
  <2> QED BY <1>3, <2>1, <2>5, <2>6 DEF Polite
<1>7. CASE PageReceives
  <2>1. /\ toPage # <<>> /\ page' = Loaded(Head(toPage)) /\ toPage' = Tail(toPage)
        /\ UNCHANGED <<timer, loading, toNative>>
    BY <1>7 DEF PageReceives
  <2>2. ~timer /\ Follows /\ (toNative = <<>> \/ toNative = <<[type |-> "uiReady"]>>)
    BY <1>1, <2>1 DEF PageInv
  <2>3. Shown' = Shown
    <3> DEFINE n == Len(toPage)
    <3>1. /\ n \in Nat \ {0} /\ Head(toPage) = toPage[1]
          /\ toPage' \in Seq(Seq(Char)) /\ Len(toPage') = n - 1
          /\ \A i \in 1..n - 1 : toPage'[i] = toPage[i + 1]
      BY <2>1, TypeFacts, HeadAndTail
    <3>2. CASE n = 1
      <4>1. toPage' = <<>>
        BY <3>1, <3>2, EmptySeq
      <4> QED BY <2>1, <3>1, <3>2, <4>1 DEF Shown
    <3>3. CASE n # 1
      <4>1. n - 1 \in 1..n - 1 /\ n - 1 + 1 = n /\ n - 1 # 0
        BY <3>1, <3>3
      <4>2. toPage' # <<>> /\ toPage'[n - 1] = toPage[n]
        BY <3>1, <4>1, EmptySeq
      <4> QED BY <2>1, <3>1, <4>2 DEF Shown
    <3> QED BY <3>2, <3>3
  <2>5. Follows'
    BY <1>3, <2>2, <2>3 DEF Follows
  <2>4. PageInv'
    BY <1>3, <2>1, <2>2, <2>5 DEF PageInv
  <2> QED BY <1>1, <1>2, <1>3, <2>1, <2>4 DEF Polite, Busy, Opening
<1>8. CASE FindsNoRoom
  <2>1. Message("joinRoom") /\ UNCHANGED <<page, timer, loading, toPage>>
    BY <1>8 DEF FindsNoRoom, pageVars
  <2>2. ~timer /\ toNative' = <<>> /\ ~loading /\ toPage = <<>> /\ page \in {known, Loaded(known)}
    BY <1>1, <2>1, MessageMeans
  <2>3. PageInv' /\ ~ Opening' /\ ~ Busy'
    BY <1>3, <2>1, <2>2, OneMessage DEF PageInv, Opening, Busy, Shown, Follows
  <2> QED BY <1>3, <2>3 DEF Polite
<1> QED BY <1>4, <1>5, <1>6, <1>7, <1>8

\* A document is posted to the page, which has nothing under way.
LEMMA ShownLast ==
    ASSUME NEW s \in Seq(Seq(Char)), NEW text \in Seq(Char)
    PROVE  Append(s, text) # <<>> /\ Append(s, text)[Len(Append(s, text))] = text
<1> DEFINE t == Append(s, text)
<1>1. t \in Seq(Seq(Char)) /\ Len(t) = Len(s) + 1 /\ Len(s) \in Nat /\ t[Len(s) + 1] = text
  BY AppendAt
<1> HIDE DEF t
<1>2. t # <<>> /\ t[Len(t)] = text
  BY <1>1, EmptySeq
<1> QED BY <1>2 DEF t

LEMMA PageShows ==
    ASSUME TypeOK, PageInv, ~timer, toNative' = <<>> \/ toNative' = <<[type |-> "uiReady"]>>,
           toPage' = Append(toPage, known'), known' \in Text, UNCHANGED <<page, timer>>
    PROVE  PageInv'
<1>1. Shown' = Loaded(known')
  BY TypeFacts, TextIsSeq, ShownLast DEF Shown
<1>2. Follows'
  BY <1>1 DEF Follows
<1> QED BY <1>2 DEF PageInv

\* What LoadCurrent leaves when it fails is a text.
LEMMA EmptyIsText == <<>> \in Text
<1>1. <<>> \in Seq(Char) /\ Len(<<>>) = 0 /\ MaxDocumentChars \in Nat
  BY EmptySeq, DocumentAssumption
<1>2. Len(<<>>) <= MaxDocumentChars
  BY <1>1
<1> QED BY <1>1, <1>2, TextIsSeq

\* PostInitialState, when the page is loaded or reports itself ready.
LEMMA OpeningKeeps ==
    ASSUME TypeOK, Polite, NavigationCompleted \/ HandleUiReady
    PROVE  Polite'
<1>1. /\ known \in Text /\ document \in Text /\ PageInv /\ RoomInv
      /\ Busy => Idle
      /\ Opening => role = "Offline" /\ disk \in Text
  BY DEF Polite
<1>2. PostInitialState
  BY DEF NavigationCompleted, HandleUiReady
<1>3. /\ ~timer /\ Opening
      /\ toNative' = <<>> \/ toNative' = <<[type |-> "uiReady"]>>
      /\ Opening' => Opening
  <2>1. CASE NavigationCompleted
    BY <1>1, <2>1 DEF NavigationCompleted, PageInv, Opening
  <2>2. CASE HandleUiReady
    <3>1. Message("uiReady") /\ loading' = loading
      BY <2>2 DEF HandleUiReady
    <3> QED BY <1>1, <3>1, MessageMeans DEF Opening
  <2> QED BY <2>1, <2>2
<1>4. /\ known' \in Text /\ disk' = disk /\ toPage' = Append(toPage, known') /\ disk \in Text
      /\ UNCHANGED <<page, timer, role, document, up, toHost, serverEvents, clientEvents>>
  BY <1>1, <1>2, <1>3, EmptyIsText DEF PostInitialState, roomVars
<1>5. PageInv'
  BY <1>1, <1>3, <1>4, PageShows
<1>6. role' = "Offline" /\ Idle' /\ ~up'
  BY <1>1, <1>3, <1>4 DEF RoomInv, Idle, OnlyLost
<1>7. RoomInv'
  BY <1>6 DEF RoomInv
<1> QED BY <1>1, <1>4, <1>5, <1>6, <1>7 DEF Polite

\* editorChanged: the room takes the text, or it is taken back.
LEMMA EditorChangedKeeps ==
    ASSUME TypeOK, Polite, NEW ok \in BOOLEAN, HandleEditorChanged(ok), carried'
    PROVE  Polite'
<1> DEFINE ops == ComputeEditorDiff(known, page)
           before == [document |-> document, revision |-> revision, rev |-> rev, posts |-> toPage,
                      carried |-> carried]
           after == HostAppliesAll(before, ops)
           sent == [k \in 1..Len(ops) |-> [type |-> "EDIT", op |-> ops[k]]]
<1>1. /\ known \in Text /\ document \in Text /\ PageInv /\ RoomInv
      /\ Busy => Idle
      /\ Message("editorChanged") /\ UNCHANGED <<page, timer, loading>>
  BY DEF Polite, HandleEditorChanged, pageVars
<1>2. /\ ~timer /\ toNative' = <<>> /\ ~loading /\ toPage = <<>> /\ Head(toNative).text = page
      /\ Idle /\ ~ Busy' /\ ~ Opening'
  <2>1. /\ ~timer /\ toNative' = <<>> /\ ~loading /\ toPage = <<>> /\ Head(toNative).text = page
        /\ toNative # <<>>
    BY <1>1, MessageMeans
  <2> QED BY <1>1, <2>1, OneMessage DEF Busy, Opening
<1>3. CASE Len(page) > MaxDocumentChars
  <2>1. toPage' = Append(toPage, known) /\ RoomStays
    BY <1>2, <1>3 DEF HandleEditorChanged, RoomStays, nativeVars, roomVars
  <2>2. RoomInv' /\ known' \in Text /\ document' \in Text /\ known' = known
    BY <1>1, <2>1, RoomInvStays
  <2>3. PageInv'
    BY <1>1, <1>2, <2>1, <2>2, PageShows
  <2> QED BY <1>2, <2>2, <2>3 DEF Polite
<1>4. CASE ~ (Len(page) > MaxDocumentChars)
  <2>1. /\ SendLocalOperations(ops) /\ known' = page
        /\ UNCHANGED <<role, chunks, up, serverEvents, clientEvents>>
    BY <1>2, <1>4 DEF HandleEditorChanged
  <2>2. page \in Text /\ known \in Seq(Char) /\ page \in Seq(Char)
    <3>1. page \in Seq(Char) /\ known \in Seq(Char) /\ Len(page) \in Nat /\ MaxDocumentChars \in Nat
      BY TypeFacts, LenProperties, DocumentAssumption
    <3> QED BY <3>1, <1>4, TextIsSeq
  <2>3. ops \in Seq(Operation) /\ Replays(known, ops, page) /\ Len(ops) \in Nat
    BY <1>1, <2>2, DiffType, DiffReplays, LenProperties
  <2>4. Idle => toHost = <<>> /\ serverEvents = <<>> /\ OnlyLost(clientEvents)
    BY DEF Idle
  <2> HIDE DEF ops
  <2>5. CASE role = "Offline"
    <3>1. UNCHANGED <<document, toPage, toHost>>
      BY <2>1, <2>5 DEF SendLocalOperations
    <3>2. RoomInv'
      BY <1>1, <1>2, <2>1, <2>5, <3>1 DEF RoomInv, Idle, OnlyLost
    <3>3. PageInv'
      BY <1>1, <1>2, <2>1, <3>1 DEF PageInv, Shown, Follows
    <3> QED BY <1>1, <1>2, <2>1, <2>2, <3>1, <3>2, <3>3 DEF Polite
  <2>6. CASE role = "Host"
    <3>1. /\ document' = after.document /\ revision' = after.revision
          /\ rev' = after.rev /\ toPage' = after.posts /\ toHost' = toHost /\ after.carried
      BY <2>1, <2>6 DEF SendLocalOperations
    <3>2. Agree
      BY <1>1, <1>2, <2>6, IdleAgrees
    <3>3. before \in HostState /\ before.rev = before.revision /\ Replays(before.document, ops, page)
          /\ before.posts = toPage
      BY <2>3, <3>2, TypeFacts DEF HostState, Agree
    <3> HIDE DEF before
    <3>4. after.document = page /\ after.posts = toPage /\ after.rev = after.revision
      BY <2>3, <3>1, <3>3, HostReplays
    <3> HIDE DEF after
    <3>5. Agree' /\ document' = page /\ toPage' = toPage
      BY <2>1, <3>1, <3>4 DEF Agree
    <3>6. RoomInv'
      BY <1>1, <1>2, <2>1, <2>4, <2>6, <3>1, <3>5 DEF RoomInv, OnlyLost, HostInStep
    <3>7. PageInv'
      BY <1>1, <1>2, <2>1, <3>5 DEF PageInv, Shown, Follows
    <3> QED BY <1>2, <2>1, <2>2, <3>5, <3>6, <3>7 DEF Polite
  <2>7. CASE role = "Guest"
    <3>1. /\ up => toHost' = toHost \o sent
          /\ ~up => toHost' = toHost
          /\ UNCHANGED <<document, revision, rev, toPage>>
      BY <2>1, <2>7 DEF SendLocalOperations
    <3>2. toHost = <<>> /\ serverEvents = <<>> /\ OnlyLost(clientEvents)
      BY <1>2 DEF Idle
    <3>3. GuestInv'
      <4>1. CASE ~up
        BY <2>1, <3>1, <3>2, <4>1 DEF GuestInv, GuestAlone, OnlyLost
      <4>2. CASE up
        <5>1. Agree
          BY <1>1, <1>2, <2>7, <4>2, IdleAgrees
        <5>2. \A k \in 1..Len(ops) : [type |-> "EDIT", op |-> ops[k]] \in Frame
          BY <2>3, LenProperties DEF Frame
        <5>3. sent \in [1..Len(ops) -> Frame] /\ \A k \in 1..Len(ops) : sent[k] = [type |-> "EDIT", op |-> ops[k]]
          BY <5>2
        <5>4. sent \in Seq(Frame) /\ Len(sent) = Len(ops)
          <6>1. sent \in Seq(Frame)
            BY <2>3, <5>3, SeqDef
          <6> QED BY <2>3, <5>3, <6>1, LenProperties
        <5>5. \A k \in 1..Len(sent) : sent[k].type = "EDIT" /\ sent[k].op = ops[k]
          BY <5>3, <5>4
        <5> HIDE DEF sent
        <5>6. toHost' = sent
          BY <3>1, <3>2, <4>2, <5>4, ConcatEmptySeq
        <5>7. Ops(sent) = ops
          <6>1. /\ Ops(sent) \in Seq(Operation) /\ Len(Ops(sent)) = Len(sent)
                /\ \A i \in 1..Len(sent) : Ops(sent)[i] = sent[i].op
            BY <5>4, <5>5, OpsType
          <6> QED BY <2>3, <5>4, <5>5, <6>1, SeqEqual
        <5>8. Ops(toHost)' = ops
          BY <5>6, <5>7 DEF Ops
        <5> PICK n \in Nat : n = Len(clientEvents)
          BY TypeFacts, LenProperties
        <5>9. rev \in Nat /\ rev = revision /\ known = document
          BY <5>1, TypeFacts, LenProperties DEF Agree
        <5>10. AwaitsOwn(n)'
          <6>1. Replays(document', Ops(toHost)', known')
            BY <2>1, <2>3, <3>1, <5>8, <5>9
          <6>2. \A i \in 1..Len(toHost') : toHost'[i].type = "EDIT"
            BY <5>5, <5>6
          <6>3. rev' + Len(clientEvents') - n = revision'
            BY <2>1, <3>1, <5>9
          <6>4. n + 1..Len(clientEvents') = {}
            BY <2>1, <5>9
          <6> QED BY <6>1, <6>2, <6>3, <6>4 DEF AwaitsOwn
        <5>11. GuestInStep'
          <6>1. \A i \in 1..n : clientEvents'[i].type = "Disconnected"
            BY <2>1, <3>2 DEF OnlyLost
          <6>2. n \in 0..Len(clientEvents')
            BY <2>1, <5>9
          <6> QED BY <5>10, <6>1, <6>2 DEF GuestInStep
        <5> QED BY <2>1, <3>2, <4>2, <5>11 DEF GuestInv
      <4> QED BY <4>1, <4>2
    <3>4. RoomInv'
      BY <2>1, <2>7, <3>3 DEF RoomInv
    <3>5. PageInv'
      BY <1>1, <1>2, <2>1, <3>1 DEF PageInv, Shown, Follows
    <3> QED BY <1>1, <1>2, <2>1, <2>2, <3>1, <3>4, <3>5 DEF Polite
  <2> QED BY <2>5, <2>6, <2>7, TypeFacts
<1> QED BY <1>3, <1>4

-----------------------------------------------------------------------------
(* Rooms are opened, joined, changed by others and lost.                     *)

LEMMA CreateKeeps ==
    ASSUME TypeOK, Polite, NEW ok \in BOOLEAN, NEW started \in BOOLEAN, HandleCreateRoom(ok, started),
           carried'
    PROVE  Polite'
<1>1. /\ known \in Text /\ PageInv /\ (Busy => Idle)
      /\ Message("createRoom") /\ UNCHANGED <<page, timer, loading>>
  BY DEF Polite, HandleCreateRoom, pageVars
<1>2. /\ ~timer /\ toNative' = <<>> /\ ~loading /\ toPage = <<>> /\ Head(toNative).text = page
      /\ Idle /\ ~ Busy' /\ ~ Opening'
  <2>1. /\ ~timer /\ toNative' = <<>> /\ ~loading /\ toPage = <<>> /\ Head(toNative).text = page
        /\ toNative # <<>>
    BY <1>1, MessageMeans
  <2> QED BY <1>1, <2>1, OneMessage DEF Busy, Opening
<1>3. /\ known' = page /\ document' = page /\ revision' = 0 /\ rev' = 0 /\ toHost' = <<>>
      /\ up' = started /\ role' = IF started THEN "Host" ELSE "Offline"
      /\ UNCHANGED <<toPage, serverEvents, clientEvents>> /\ Len(page) <= MaxDocumentChars
  BY <1>2 DEF HandleCreateRoom
<1>7. page \in Text
  BY <1>3, TypeFacts, TextIsSeq
<1>4. Idle' /\ Agree'
  BY <1>2, <1>3 DEF Idle, OnlyLost, Agree
<1>5. RoomInv'
  BY <1>3, <1>4 DEF RoomInv, Idle, HostInStep
<1>6. PageInv'
  BY <1>1, <1>2, <1>3 DEF PageInv, Shown, Follows
<1> QED BY <1>1, <1>2, <1>3, <1>5, <1>6, <1>7 DEF Polite

LEMMA JoinKeeps ==
    ASSUME TypeOK, Polite, NEW text \in OpeningTexts, HandleJoinRoom(text)
    PROVE  Polite'
<1>1. /\ known \in Text /\ document \in Text /\ PageInv /\ (Busy => Idle) /\ RoomInv
      /\ Message("joinRoom") /\ UNCHANGED <<page, timer, loading, toPage, known, serverEvents, clientEvents>>
  BY DEF Polite, HandleJoinRoom, pageVars
<1>2. /\ ~timer /\ toNative' = <<>> /\ ~loading /\ toPage = <<>> /\ page \in {known, Loaded(known)}
      /\ Idle /\ ~ Busy' /\ ~ Opening'
  <2>1. /\ ~timer /\ toNative' = <<>> /\ ~loading /\ toPage = <<>> /\ toNative # <<>>
        /\ page \in {known, Loaded(known)}
    BY <1>1, MessageMeans
  <2> QED BY <1>1, <2>1, OneMessage DEF Busy, Opening
<1>3. PageInv'
  BY <1>1, <1>2 DEF PageInv, Shown, Follows
<1>4. /\ toHost = <<>> /\ serverEvents' = <<>> /\ OnlyLost(clientEvents) /\ OnlyLost(clientEvents)'
  BY <1>1, <1>2 DEF Idle, OnlyLost
<1>5. RoomInv' /\ document' \in Text
  <2>1. CASE /\ role' = "Guest" /\ rev' = 0 /\ chunks' = NoChunks /\ up' = TRUE
             /\ document' = text /\ revision' = 0
             /\ toHost' = <<[type |-> "SYNC_REQUEST"]>>
    <3>1. Asks'
      BY <1>4, <2>1 DEF Asks, NoChunks
    <3> QED BY <1>4, <2>1, <3>1, TextTypes DEF RoomInv, GuestInv
  <2>2. CASE up' = FALSE /\ toHost' = <<>> /\ UNCHANGED <<role, rev, chunks, document, revision>>
    <3>1. GuestAlone'
      BY <1>4, <2>2 DEF GuestAlone, OnlyLost
    <3>2. HostInStep => HostInStep'
      BY <1>1, <2>2 DEF HostInStep, Agree, Lacks
    <3>3. Idle'
      BY <1>4, <2>2 DEF Idle
    <3> QED BY <1>1, <1>4, <2>2, <3>1, <3>2, <3>3 DEF RoomInv, GuestInv
  <2> QED BY <2>1, <2>2 DEF HandleJoinRoom
<1> QED BY <1>1, <1>2, <1>3, <1>5 DEF Polite

LEMMA PeerKeeps ==
    ASSUME TypeOK, Polite, polite, NEW text \in TypedTexts \cap Text, PeerEdits(text), carried'
    PROVE  Polite'
<1> DEFINE ops == ComputeEditorDiff(document, text)
           client == IF role = "Host" THEN "B" ELSE "A"
           op == ops[1]
           apply == [type |-> "APPLY", rev |-> revision + 1, client |-> client, op |-> op]
<1>1. /\ known \in Text /\ document \in Text /\ PageInv /\ RoomInv
      /\ up /\ role # "Offline" /\ Quiet /\ ~timer
      /\ Len(ops) = 1 /\ Commits(client, op)
      /\ UNCHANGED <<page, timer, loading, toNative, toPage, role, known, rev, chunks, up, toHost>>
  BY DEF Polite, PeerEdits, pageVars, nativeVars
<1>2. /\ ~loading /\ toNative = <<>> /\ toHost = <<>>
      /\ serverEvents = <<>> /\ clientEvents = <<>> /\ Idle
  BY <1>1, QuietMeans
<1>3. known = document /\ rev = revision
  BY <1>1, <1>2, IdleAgrees DEF Agree
<1>4. ApplyStatus(known, op) = "applied" /\ Applied(document, op) = text
  BY <1>1, <1>3, TypeFacts, DiffOfOne
<1> HIDE DEF ops, op
<1>5. document' = text /\ revision' = rev + 1 /\ rev \in Nat /\ document' = Applied(known, op)
  BY <1>1, <1>3, <1>4, TypeFacts DEF Commits
<1>6. PageInv' /\ ~ Opening' /\ ~ Busy'
  BY <1>1, <1>2, OneMessage DEF PageInv, Shown, Follows, Opening, Busy
<1>7. /\ apply.type = "APPLY" /\ apply.client = client /\ apply.op = op /\ apply.rev = rev + 1
  BY <1>3
<1>8. CASE role = "Host"
  <2>1. serverEvents' = Append(<<>>, apply) /\ clientEvents' = <<>>
    BY <1>1, <1>2, <1>8 DEF Commits, Announces
  <2> HIDE DEF apply
  <2>2. Len(serverEvents') = 1 /\ serverEvents'[1] = apply
    BY <2>1
  <2>3. HostInStep'
    BY <1>1, <1>4, <1>5, <1>7, <1>8, <2>2 DEF HostInStep, Lacks
  <2>4. RoomInv'
    BY <1>1, <1>2, <1>8, <2>1, <2>3, EmptySeq DEF RoomInv, OnlyLost
  <2> QED BY <1>1, <1>5, <1>6, <2>4 DEF Polite
<1>9. CASE role = "Guest"
  <2>1. clientEvents' = Append(<<>>, apply) /\ serverEvents' = <<>>
    BY <1>1, <1>2, <1>9 DEF Commits, Announces
  <2> HIDE DEF apply
  <2>2. Len(clientEvents') = 1 /\ clientEvents'[1] = apply
    BY <2>1
  <2>3. AwaitsPeers(0)'
    BY <1>1, <1>2, <1>4, <1>5, <1>7, <1>9, <2>2 DEF AwaitsPeers, Lacks
  <2>4. GuestInStep'
    BY <2>2, <2>3 DEF GuestInStep
  <2>5. RoomInv'
    BY <1>1, <1>9, <2>1, <2>4 DEF RoomInv, GuestInv
  <2> QED BY <1>1, <1>5, <1>6, <2>5 DEF Polite
<1> QED BY <1>1, <1>8, <1>9, TypeFacts

\* The host answers a guest, or takes its oldest operation, which it never refuses.
LEMMA ServesKeeps ==
    ASSUME TypeOK, Polite, HostServes, carried'
    PROVE  Polite'
<1> DEFINE frame == Head(toHost)
<1>1. /\ known \in Text /\ document \in Text /\ PageInv /\ RoomInv
      /\ up /\ role = "Guest" /\ toHost # <<>> /\ toHost' = Tail(toHost) /\ (Busy => Idle)
      /\ UNCHANGED <<page, timer, loading, toNative, toPage, role, known, rev, chunks, disk, up>>
  BY DEF Polite, HostServes, pageVars, nativeVars, diskVars
<1>2. ~ Busy /\ ~ Busy' /\ ~ Opening'
  BY <1>1, OneMessage DEF Busy, Idle, Opening
<1>3. PageInv'
  BY <1>1 DEF PageInv, Shown, Follows
<1>4. serverEvents = <<>> /\ (Asks \/ GuestInStep)
  BY <1>1 DEF RoomInv, GuestInv, Receives, ReceivesAt, GuestAlone
<1>5. PICK c \in Nat : c = Len(clientEvents)
  BY TypeFacts, LenProperties
<1>6. clientEvents \in Seq(Event) /\ toHost \in Seq(Frame) /\ rev \in Nat /\ revision \in Nat
  BY TypeFacts
<1>7. CASE Asks
  <2>1. frame = [type |-> "SYNC_REQUEST"] /\ toHost' = <<>>
    BY <1>1, <1>7, OneMessage DEF Asks
  <2>2. frame.type = "SYNC_REQUEST"
    BY <2>1
  <2>3. clientEvents' = clientEvents \o Response /\ UNCHANGED <<document, revision, serverEvents>>
    BY <2>2 DEF HostServes
  <2>4. Response \in Seq(Event) /\ Len(Response) \in Nat \ {0}
    BY ResponseFacts
  <2>5. PICK n \in Nat \ {0} : n = Len(Response)
    BY <2>4
  <2>6. /\ Len(clientEvents') = c + n
        /\ \A i \in 1..c : clientEvents'[i] = clientEvents[i]
        /\ \A i \in 1..n : clientEvents'[c + i] = Response[i]
    BY <1>5, <1>6, <2>3, <2>4, <2>5, ConcatAt
  <2>7. Response' = Response
    BY <2>3 DEF Response
  <2>8. \A i \in 1..Len(clientEvents') :
           IF i \in c + 1..c + n THEN clientEvents'[i] = Response'[i - c + 0]
                                 ELSE clientEvents'[i].type = "Disconnected"
    <3> SUFFICES ASSUME NEW i \in 1..c + n
                 PROVE  IF i \in c + 1..c + n THEN clientEvents'[i] = Response[i - c]
                                              ELSE clientEvents'[i].type = "Disconnected"
      BY <2>5, <2>6, <2>7
    <3>1. CASE i \in c + 1..c + n
      <4>1. i - c \in 1..n /\ c + (i - c) = i
        BY <3>1
      <4> QED BY <2>6, <3>1, <4>1
    <3>2. CASE i \notin c + 1..c + n
      <4>1. i \in 1..c
        BY <3>2
      <4> QED BY <1>5, <1>7, <2>6, <3>2, <4>1 DEF Asks, OnlyLost
    <3> QED BY <3>1, <3>2
  <2>9. chunks' = NoChunks /\ c + n <= Len(clientEvents')
    BY <1>1, <1>7, <2>5, <2>6, <2>7 DEF Asks
  <2>10. ReceivesAt(0, c, n)'
    BY <2>1, <2>8, <2>9 DEF ReceivesAt, NoChunks
  <2>11. /\ 0 \in 0..Len(Response') - 1 /\ c \in 0..Len(clientEvents')
         /\ n \in 0..Len(Response') /\ 0 + n = Len(Response')
    BY <2>5, <2>6, <2>7
  <2>12. Receives'
    BY <2>10, <2>11 DEF Receives
  <2>13. RoomInv'
    BY <1>1, <1>4, <2>3, <2>12 DEF RoomInv, GuestInv
  <2> QED BY <1>1, <1>2, <1>3, <2>3, <2>13 DEF Polite
<1>8. CASE GuestInStep
  <2>1. PICK d \in 0..c : (\A i \in 1..d : clientEvents[i].type = "Disconnected") /\ AwaitsOwn(d)
    BY <1>1, <1>5, <1>8 DEF GuestInStep, AwaitsPeers
  <2>2. /\ \A i \in 1..Len(toHost) : toHost[i].type = "EDIT"
        /\ Replays(document, Ops(toHost), known)
        /\ rev + c - d = revision
        /\ \A i \in d + 1..c :
              /\ clientEvents[i].type = "APPLY" /\ clientEvents[i].client = "B"
              /\ clientEvents[i].rev = rev + i - d
    BY <1>5, <2>1 DEF AwaitsOwn
  <2>3. /\ Head(Ops(toHost)) = frame.op /\ frame.op \in Operation /\ Ops(toHost) # <<>>
        /\ Tail(Ops(toHost)) = Ops(toHost')
        /\ \A i \in 1..Len(toHost') : toHost'[i].type = "EDIT"
    BY <1>1, <1>6, <2>2, OpsTail
  <2>4. frame.type = "EDIT"
    <3>1. frame = toHost[1] /\ Len(toHost) \in Nat \ {0}
      BY <1>1, <1>6, HeadAndTail
    <3>2. 1 \in 1..Len(toHost)
      BY <3>1
    <3> QED BY <2>2, <3>1, <3>2
  <2>5. Ops(toHost) \in Seq(Operation)
    BY <1>6, <2>2, OpsType
  <2> HIDE DEF frame
  <2>6. /\ ApplyStatus(document, frame.op) = "applied"
        /\ Applied(document, frame.op) \in Text
        /\ Replays(Applied(document, frame.op), Ops(toHost'), known)
    <3> DEFINE ops == Ops(toHost)
    <3>1. /\ ops \in Seq(Operation) /\ ops # <<>> /\ document \in Text /\ known \in Text
          /\ Replays(document, ops, known)
      BY <1>1, <2>2, <2>3, <2>5
    <3>2. Head(ops) = frame.op /\ Tail(ops) = Ops(toHost')
      BY <2>3
    <3> HIDE DEF ops
    <3>3. /\ ApplyStatus(document, Head(ops)) = "applied"
          /\ Applied(document, Head(ops)) \in Text
          /\ Replays(Applied(document, Head(ops)), Tail(ops), known)
      BY ONLY <3>1, ReplaysHeadTail
    <3> QED BY ONLY <3>2, <3>3
  <2> DEFINE apply == [type |-> "APPLY", rev |-> revision + 1, client |-> "B", op |-> frame.op]
  <2>7. /\ document' = Applied(document, frame.op) /\ revision' = revision + 1
        /\ clientEvents' = Append(clientEvents, apply) /\ serverEvents' = serverEvents
    BY <1>1, <2>4, <2>6 DEF HostServes, Commits, Announces, frame
  <2>8. apply \in Event
    BY <1>6, <2>3 DEF Event
  <2>9. /\ apply.type = "APPLY" /\ apply.client = "B" /\ apply.rev = revision + 1
    OBVIOUS
  <2> HIDE DEF apply
  <2>10. /\ Len(clientEvents') = c + 1
         /\ \A i \in 1..c : clientEvents'[i] = clientEvents[i]
         /\ clientEvents'[c + 1] = apply
    BY <1>5, <1>6, <2>7, <2>8, AppendAt
  <2>11. AwaitsOwn(d)'
    <3>1. rev' + Len(clientEvents') - d = revision'
      <4>1. /\ rev' = rev /\ Len(clientEvents') = c + 1 /\ revision' = revision + 1
            /\ rev + c - d = revision /\ rev \in Nat /\ revision \in Nat /\ d \in Nat
        BY <1>1, <1>6, <2>2, <2>7, <2>10
      <4>2. rev + (c + 1) - d = revision + 1
        BY <4>1
      <4> QED BY <4>1, <4>2
    <3>2. ASSUME NEW i \in d + 1..Len(clientEvents')
          PROVE  /\ clientEvents'[i].type = "APPLY" /\ clientEvents'[i].client = "B"
                 /\ clientEvents'[i].rev = rev + i - d
      <4>1. CASE i \in d + 1..c
        <5>1. i \in 1..c
          BY <4>1
        <5> QED BY <2>2, <2>10, <4>1, <5>1
      <4>2. CASE i \notin d + 1..c
        <5>1. i = c + 1
          BY <2>10, <4>2
        <5>2. revision + 1 = rev + i - d
          BY <1>6, <2>2, <5>1
        <5> QED BY <2>9, <2>10, <5>1, <5>2
      <4> QED BY <4>1, <4>2
    <3>3. Replays(document', Ops(toHost'), known')
      BY <1>1, <2>6, <2>7
    <3>4. Ops(toHost)' = Ops(toHost')
      BY DEF Ops
    <3> QED BY <1>1, <2>3, <3>1, <3>2, <3>3, <3>4 DEF AwaitsOwn
  <2>12. GuestInStep'
    <3>1. d \in 0..Len(clientEvents') /\ \A i \in 1..d : i \in 1..c
      BY <2>10
    <3> QED BY <2>1, <2>10, <2>11, <3>1 DEF GuestInStep
  <2>13. RoomInv'
    BY <1>1, <1>4, <2>7, <2>12 DEF RoomInv, GuestInv
  <2> QED BY <1>1, <1>2, <1>3, <2>6, <2>7, <2>13 DEF Polite
<1> QED BY <1>4, <1>7, <1>8

\* A sequence cut short after its first `kept` elements and continued with one more.
LEMMA CutShort ==
    ASSUME NEW S, NEW s \in Seq(S), NEW x \in S, NEW kept \in 0..Len(s)
    PROVE  /\ Len(Append(SubSeq(s, 1, kept), x)) = kept + 1
           /\ \A i \in 1..kept : Append(SubSeq(s, 1, kept), x)[i] = s[i]
           /\ Append(SubSeq(s, 1, kept), x)[kept + 1] = x
<1>1. Len(s) \in Nat /\ \A i \in 1..Len(s) : s[i] \in S
  BY LenProperties, ElementOfSeq
<1>2. kept \in Nat /\ kept <= Len(s)
  BY <1>1
<1>3. \A i \in 1..kept : s[i] \in S
  BY <1>1, <1>2
<1> DEFINE first == SubSeq(s, 1, kept)
<1>4. /\ first \in Seq(S)
      /\ Len(first) = IF 1 <= kept THEN kept - 1 + 1 ELSE 0
      /\ \A i \in 1..kept - 1 + 1 : first[i] = s[1 + i - 1]
  BY <1>2, <1>3, SubSeqProperties
<1> HIDE DEF first
<1>5. Len(first) = kept
  BY ONLY <1>2, <1>4
<1>6. ASSUME NEW i \in 1..kept PROVE first[i] = s[i]
  <2>1. i \in 1..kept - 1 + 1 /\ 1 + i - 1 = i
    BY <1>2
  <2> QED BY <1>4, <2>1
<1>7. /\ Len(Append(first, x)) = Len(first) + 1
      /\ \A i \in 1..Len(first) : Append(first, x)[i] = first[i]
      /\ Append(first, x)[Len(first) + 1] = x
  BY <1>4, AppendAt
<1> QED BY <1>5, <1>6, <1>7 DEF first

\* A guest that is cut off keeps some of what is on its way to it.
LEMMA LosesKeeps ==
    ASSUME TypeOK, Polite, LosesHost
    PROVE  Polite'
<1> DEFINE lost == [type |-> "Disconnected"]
<1>1. /\ known \in Text /\ document \in Text /\ PageInv /\ RoomInv
      /\ role = "Guest" /\ up' = FALSE /\ toHost' = <<>> /\ (Busy => Idle)
      /\ (Opening => role = "Offline" /\ disk \in Text)
      /\ UNCHANGED <<page, timer, loading, toNative, toPage, role, known, rev, chunks, disk,
                     document, revision, serverEvents>>
  BY DEF Polite, LosesHost, pageVars, nativeVars, diskVars
<1>2. PageInv' /\ (Busy' => Busy) /\ ~ Opening'
  BY <1>1 DEF PageInv, Shown, Follows, Opening, Busy
<1>3. clientEvents \in Seq(Event)
  BY TypeFacts
<1>5. PICK c \in Nat : c = Len(clientEvents)
  BY TypeFacts, LenProperties
<1>6. lost \in Event /\ lost.type = "Disconnected"
  BY DEF Event
<1>13. PICK kept \in 0..c : clientEvents' = Append(SubSeq(clientEvents, 1, kept), lost)
  BY <1>5 DEF LosesHost
<1> HIDE DEF lost
<1>7. /\ Len(clientEvents') = kept + 1
      /\ \A i \in 1..kept : clientEvents'[i] = clientEvents[i]
      /\ clientEvents'[kept + 1] = lost
  BY <1>3, <1>5, <1>6, <1>13, CutShort
<1>4. Idle => Idle'
  <2> SUFFICES ASSUME Idle PROVE Idle'
    OBVIOUS
  <2>1. \A i \in 1..c : clientEvents[i].type = "Disconnected"
    BY <1>5 DEF Idle, OnlyLost
  <2>2. ASSUME NEW i \in 1..kept + 1 PROVE clientEvents'[i].type = "Disconnected"
    <3>1. i \in 1..kept \/ i = kept + 1
      OBVIOUS
    <3> QED BY <1>6, <1>7, <2>1, <3>1
  <2>3. OnlyLost(clientEvents)'
    BY <1>7, <2>2 DEF OnlyLost
  <2> QED BY <1>1, <2>3 DEF Idle
<1>8. serverEvents = <<>> /\ (Receives \/ Asks \/ GuestInStep \/ GuestAlone)
  BY <1>1 DEF RoomInv, GuestInv
<1>9. Response' = Response /\ Len(Response) \in Nat \ {0}
  <2>1. Response' = Response
    BY <1>1 DEF Response
  <2> QED BY <2>1, ResponseFacts
<1>12. ASSUME \A i \in 1..kept : clientEvents[i].type # "SYNC_RESPONSE" PROVE Polite'
  <2>2. ASSUME NEW i \in 1..Len(clientEvents') PROVE clientEvents'[i].type # "SYNC_RESPONSE"
    <3>1. i \in 1..kept \/ i = kept + 1
      BY <1>7
    <3> QED BY <1>6, <1>7, <1>12, <3>1
  <2>3. GuestAlone'
    BY <1>1, <2>2 DEF GuestAlone
  <2> QED BY <1>1, <1>2, <1>4, <1>8, <2>3 DEF Polite, RoomInv, GuestInv
<1>10. CASE Receives
  <2>2. PICK n \in Nat \ {0} : n = Len(Response)
    BY <1>9
  <2>1. PICK k \in 0..n - 1, d \in 0..c, e \in 0..n : k + e <= n /\ ReceivesAt(k, d, e)
    BY <1>5, <1>10, <2>2 DEF Receives
  <2>3. /\ d + e <= c
        /\ \A i \in 1..c :
              IF i \in d + 1..d + e THEN clientEvents[i] = Response[i - d + k]
                                    ELSE clientEvents[i].type = "Disconnected"
    BY <1>5, <2>1 DEF ReceivesAt
  <2>7. CASE kept <= d
    <3>1. ASSUME NEW i \in 1..kept PROVE clientEvents[i].type = "Disconnected"
      <4>1. i \in 1..c /\ i \notin d + 1..d + e
        BY <2>7
      <4> QED BY <2>3, <4>1
    <3> QED BY <1>12, <3>1
  <2>8. CASE d < kept
    <3> DEFINE e2 == IF d + e <= kept THEN e ELSE kept - d
    <3>1. e2 \in 0..e /\ d + e2 <= kept /\ (e2 # e => d + e2 = kept)
      BY <2>8
    <3> HIDE DEF e2
    <3>2. ASSUME NEW i \in 1..kept + 1
          PROVE  IF i \in d + 1..d + e2 THEN clientEvents'[i] = Response[i - d + k]
                                        ELSE clientEvents'[i].type = "Disconnected"
      <4>1. CASE i \in d + 1..d + e2
        <5>1. i \in 1..kept /\ i \in 1..c /\ i \in d + 1..d + e
          BY <3>1, <4>1
        <5>2. clientEvents'[i] = clientEvents[i] /\ clientEvents[i] = Response[i - d + k]
          BY <1>7, <2>3, <5>1
        <5> QED BY <4>1, <5>2
      <4>2. CASE i \notin d + 1..d + e2 /\ i \in 1..kept
        <5>1. i \in 1..c /\ i \notin d + 1..d + e
          BY <3>1, <4>2
        <5>2. clientEvents'[i] = clientEvents[i] /\ clientEvents[i].type = "Disconnected"
          BY <1>7, <2>3, <4>2, <5>1
        <5> QED BY <4>2, <5>2
      <4>3. CASE i \notin d + 1..d + e2 /\ i \notin 1..kept
        <5>1. i = kept + 1
          BY <4>3
        <5> QED BY <1>6, <1>7, <4>3, <5>1
      <4> QED BY <4>1, <4>2, <4>3
    <3>3. ReceivesAt(k, d, e2)'
      <4>1. d + e2 <= Len(clientEvents')
        BY <1>7, <3>1
      <4>2. \A i \in 1..Len(clientEvents') :
               IF i \in d + 1..d + e2 THEN clientEvents'[i] = Response'[i - d + k]
                                      ELSE clientEvents'[i].type = "Disconnected"
        BY <1>7, <1>9, <3>2
      <4> QED BY <1>1, <1>9, <2>1, <4>1, <4>2 DEF ReceivesAt, NoChunks
    <3>4. d \in 0..Len(clientEvents') /\ e2 \in 0..n /\ k + e2 <= n
      BY <1>7, <2>1, <2>8, <3>1
    <3>5. Receives'
      BY <1>1, <1>9, <2>2, <3>3, <3>4 DEF Receives
    <3> QED BY <1>1, <1>2, <1>4, <1>8, <3>5 DEF Polite, RoomInv, GuestInv
  <2> QED BY <2>7, <2>8
<1>11. CASE Asks \/ GuestInStep \/ GuestAlone
  <2>1. ASSUME NEW i \in 1..c PROVE clientEvents[i].type # "SYNC_RESPONSE"
    <3>1. CASE Asks
      BY <1>5, <2>1, <3>1 DEF Asks, OnlyLost
    <3>2. CASE GuestInStep
      <4>1. PICK d \in 0..c : /\ \A j \in 1..d : clientEvents[j].type = "Disconnected"
                              /\ AwaitsOwn(d) \/ AwaitsPeers(d)
        BY <1>5, <3>2 DEF GuestInStep
      <4>2. i \in 1..d \/ i \in d + 1..c
        OBVIOUS
      <4>3. AwaitsOwn(d) => \A j \in d + 1..c : clientEvents[j].type = "APPLY"
        BY <1>5 DEF AwaitsOwn
      <4>4. AwaitsPeers(d) => c = d + 1 /\ clientEvents[d + 1].type = "APPLY"
        BY <1>5 DEF AwaitsPeers, Lacks
      <4> QED BY <4>1, <4>2, <4>3, <4>4
    <3>3. CASE GuestAlone
      BY <1>5, <3>3 DEF GuestAlone
    <3> QED BY <1>11, <3>1, <3>2, <3>3
  <2>2. \A i \in 1..kept : i \in 1..c
    OBVIOUS
  <2> QED BY <1>12, <2>1, <2>2
<1> QED BY <1>8, <1>10, <1>11

-----------------------------------------------------------------------------
(* What comes of the room is taken, one event at a time.                     *)

\* The page follows what the program shows; a notice changes nothing.
LEMMA NoticeKeeps ==
    ASSUME NEW m, NEW ok, HandleSyncEvent(m, ok), m.type # "APPLY", m.type # "SYNC_RESPONSE"
    PROVE  UNCHANGED <<page, timer, loading, toNative, toPage, role, known, rev, chunks, disk,
                       document, revision, up, toHost>>
BY DEF HandleSyncEvent, Keep, diskVars, pageVars

\* What stays whichever event is handled.
LEMMA EventKeeps ==
    ASSUME NEW m, NEW ok, HandleSyncEvent(m, ok)
    PROVE  UNCHANGED <<page, timer, loading, toNative, role, document, revision, up>>
BY DEF HandleSyncEvent, pageVars

\* A host takes what the peer changed.
LEMMA HostTakes ==
    ASSUME TypeOK, Polite, NEW ok \in BOOLEAN, serverEvents # <<>>,
           HandleSyncEvent(Head(serverEvents), ok), serverEvents' = Tail(serverEvents),
           UNCHANGED clientEvents
    PROVE  Polite'
<1> DEFINE m == Head(serverEvents)
<1>1. /\ known \in Text /\ document \in Text /\ PageInv /\ RoomInv /\ (Busy => Idle)
      /\ UNCHANGED <<page, timer, loading, toNative, role, document, revision, up>>
  BY EventKeeps DEF Polite
<1>2. ~ Idle /\ ~ Busy /\ ~ Busy' /\ ~ Opening'
  BY <1>1, OneMessage DEF Idle, Busy, Opening
<1>3. role = "Host"
  BY <1>1, <1>2, TypeFacts DEF RoomInv, GuestInv
<1>4. /\ Len(serverEvents) = 1 /\ Lacks(serverEvents[1], "B") /\ toHost = <<>>
      /\ OnlyLost(clientEvents)
  BY <1>1, <1>3 DEF RoomInv, HostInStep
<1>5. m = serverEvents[1] /\ serverEvents' \in Seq(Event) /\ Len(serverEvents') = 0
  BY <1>4, TypeFacts, HeadAndTail
<1>6. /\ m.type = "APPLY" /\ m.client = "B" /\ m.rev = rev + 1 /\ revision = rev + 1
      /\ ApplyStatus(known, m.op) = "applied" /\ document = Applied(known, m.op)
      /\ rev \in Nat
  BY <1>4, <1>5, TypeFacts DEF Lacks
<1> HIDE DEF m
<1>7. ApplyOutcome(m, LocalId, rev, known) = "apply"
  BY <1>3, <1>6 DEF ApplyOutcome, LocalId
<1>8. Show(document, revision, ok) /\ toHost' = toHost
  BY <1>6, <1>7 DEF HandleSyncEvent, ApplySyncApply, m
<1>9. known' = document /\ rev' = revision /\ toPage' = Append(toPage, known') /\ serverEvents' = <<>>
  BY <1>5, <1>8, EmptySeq DEF Show
<1>10. PageInv'
  BY <1>1, <1>2, <1>9, PageShows DEF Busy
<1>11. RoomInv'
  BY <1>1, <1>3, <1>4, <1>8, <1>9 DEF RoomInv, OnlyLost, HostInStep, Agree
<1> QED BY <1>1, <1>2, <1>9, <1>10, <1>11 DEF Polite

\* The queue of a guest's events without its head.
LEMMA EventsTail ==
    ASSUME TypeOK, clientEvents # <<>>, clientEvents' = Tail(clientEvents)
    PROVE  /\ Len(clientEvents) \in Nat \ {0} /\ Head(clientEvents) = clientEvents[1]
           /\ Head(clientEvents) \in Event
           /\ Len(clientEvents') = Len(clientEvents) - 1
           /\ \A i \in 1..Len(clientEvents) - 1 : clientEvents'[i] = clientEvents[i + 1]
BY TypeFacts, HeadAndTail

\* A guest hears of a lost connection or a refusal.
LEMMA GuestNoticed ==
    ASSUME TypeOK, GuestInv, clientEvents # <<>>, clientEvents' = Tail(clientEvents),
           Head(clientEvents).type \notin {"APPLY", "SYNC_RESPONSE"},
           UNCHANGED <<known, rev, chunks, document, revision, up, toHost, serverEvents>>
    PROVE  GuestInv'
<1>1. PICK c \in Nat \ {0} : c = Len(clientEvents)
  BY EventsTail
<1>2. /\ Head(clientEvents) = clientEvents[1] /\ Len(clientEvents') = c - 1
      /\ \A i \in 1..c - 1 : clientEvents'[i] = clientEvents[i + 1]
      /\ rev \in Nat /\ revision \in Nat
  BY <1>1, EventsTail, TypeFacts
<1>3. CASE Receives
  <2>1. PICK n \in Nat \ {0} : n = Len(Response)
    BY ResponseFacts
  <2>2. PICK k \in 0..n - 1, d \in 0..c, e \in 0..n :
           k + e <= n /\ (up => k + e = n) /\ ReceivesAt(k, d, e)
    BY <1>1, <1>3, <2>1 DEF Receives
  <2>3. /\ toHost = <<>> /\ d + e <= c
        /\ \A i \in 1..c :
              IF i \in d + 1..d + e THEN clientEvents[i] = Response[i - d + k]
                                    ELSE clientEvents[i].type = "Disconnected"
    BY <1>1, <2>1, <2>2 DEF ReceivesAt
  <2>9. CASE e = 0
    <3>1. ASSUME NEW i \in 1..c PROVE clientEvents[i].type = "Disconnected"
      <4>1. i \notin d + 1..d + e
        BY <2>9
      <4> QED BY <2>3, <4>1
    <3>2. ~ up
      BY <2>2, <2>9
    <3>3. ASSUME NEW i \in 1..c - 1 PROVE clientEvents'[i].type # "SYNC_RESPONSE"
      <4>1. clientEvents'[i] = clientEvents[i + 1] /\ i + 1 \in 1..c
        BY <1>2
      <4> QED BY <3>1, <4>1
    <3>4. GuestAlone'
      BY <1>2, <2>3, <3>2, <3>3 DEF GuestAlone
    <3> QED BY <3>4 DEF GuestInv
  <2>10. SUFFICES ASSUME e # 0 PROVE GuestInv'
    BY <2>9
  <2>4. d # 0
    <3> SUFFICES ASSUME d = 0 PROVE FALSE
      OBVIOUS
    <3>1. 1 \in 1..c /\ 1 \in d + 1..d + e /\ 1 - d + k \in 1..n
      BY <2>2, <2>10
    <3>2. clientEvents[1] = Response[1 - d + k]
      BY <2>3, <3>1
    <3>3. Response[1 - d + k].type = "SYNC_RESPONSE"
      BY <2>1, <3>1, ResponseFacts
    <3> QED BY <1>2, <3>2, <3>3
  <2>5. Response' = Response
    BY DEF Response
  <2>6. ReceivesAt(k, d - 1, e)'
    <3>1. d - 1 + e <= Len(clientEvents')
      BY <1>2, <2>1, <2>3, <2>5
    <3>2. \A i \in 1..Len(clientEvents') :
             IF i \in d - 1 + 1..d - 1 + e THEN clientEvents'[i] = Response'[i - (d - 1) + k]
                                           ELSE clientEvents'[i].type = "Disconnected"
      <4> SUFFICES ASSUME NEW i \in 1..c - 1
                   PROVE  IF i \in d - 1 + 1..d - 1 + e THEN clientEvents'[i] = Response[i - (d - 1) + k]
                                                        ELSE clientEvents'[i].type = "Disconnected"
        BY <1>2, <2>1, <2>5
      <4>1. /\ i + 1 \in 1..c /\ clientEvents'[i] = clientEvents[i + 1]
            /\ (i + 1 \in d + 1..d + e <=> i \in d - 1 + 1..d - 1 + e)
            /\ i + 1 - d + k = i - (d - 1) + k
        BY <1>2
      <4>2. IF i + 1 \in d + 1..d + e THEN clientEvents[i + 1] = Response[i + 1 - d + k]
                                      ELSE clientEvents[i + 1].type = "Disconnected"
        BY <2>3, <4>1
      <4>3. CASE i \in d - 1 + 1..d - 1 + e
        <5>1. clientEvents[i + 1] = Response[i + 1 - d + k]
          BY <4>1, <4>2, <4>3
        <5>2. clientEvents'[i] = Response[i - (d - 1) + k]
          BY <4>1, <5>1
        <5> QED BY <4>3, <5>2
      <4>4. CASE i \notin d - 1 + 1..d - 1 + e
        BY <4>1, <4>2, <4>4
      <4> QED BY <4>3, <4>4
    <3> QED BY <2>2, <2>5, <3>1, <3>2 DEF ReceivesAt, NoChunks
  <2>7. d - 1 \in 0..Len(clientEvents')
    BY <1>2, <2>4
  <2>8. Receives'
    BY <2>1, <2>2, <2>5, <2>6, <2>7 DEF Receives
  <2> QED BY <2>8 DEF GuestInv
<1>4. CASE up /\ Asks
  <2>1. OnlyLost(clientEvents)'
    BY <1>4, TypeFacts, OnlyLostTail DEF Asks, OnlyLost
  <2> QED BY <1>4, <2>1 DEF GuestInv, Asks, NoChunks
<1>5. CASE up /\ GuestInStep
  <2>1. PICK d \in 0..c : /\ \A i \in 1..d : clientEvents[i].type = "Disconnected"
                          /\ AwaitsOwn(d) \/ AwaitsPeers(d)
    BY <1>1, <1>5 DEF GuestInStep
  <2>2. d # 0
    <3> SUFFICES ASSUME d = 0 PROVE FALSE
      OBVIOUS
    <3>1. 1 \in d + 1..c
      OBVIOUS
    <3>2. clientEvents[1].type = "APPLY"
      BY <1>1, <2>1, <3>1 DEF AwaitsOwn, AwaitsPeers, Lacks
    <3> QED BY <1>2, <3>2
  <2>3. AwaitsOwn(d) => AwaitsOwn(d - 1)'
    <3> SUFFICES ASSUME AwaitsOwn(d) PROVE AwaitsOwn(d - 1)'
      OBVIOUS
    <3>1. /\ rev + c - d = revision
          /\ \A i \in d + 1..c :
                /\ clientEvents[i].type = "APPLY" /\ clientEvents[i].client = "B"
                /\ clientEvents[i].rev = rev + i - d
      BY <1>1 DEF AwaitsOwn
    <3>2. rev' + Len(clientEvents') - (d - 1) = revision'
      BY <1>2, <3>1
    <3>3. ASSUME NEW i \in d - 1 + 1..Len(clientEvents')
          PROVE  /\ clientEvents'[i].type = "APPLY" /\ clientEvents'[i].client = "B"
                 /\ clientEvents'[i].rev = rev' + i - (d - 1)
      <4>1. /\ i + 1 \in d + 1..c /\ i \in 1..c - 1 /\ rev + (i + 1) - d = rev + i - (d - 1)
        BY <1>2, <2>2
      <4> QED BY <1>2, <3>1, <4>1
    <3>4. Replays(document', Ops(toHost)', known') /\ \A i \in 1..Len(toHost') : toHost'[i].type = "EDIT"
      BY DEF AwaitsOwn, Ops
    <3> QED BY <3>2, <3>3, <3>4 DEF AwaitsOwn
  <2>4. AwaitsPeers(d) => AwaitsPeers(d - 1)'
    <3> SUFFICES ASSUME AwaitsPeers(d) PROVE AwaitsPeers(d - 1)'
      OBVIOUS
    <3>1. toHost = <<>> /\ c = d + 1 /\ Lacks(clientEvents[d + 1], "A")
      BY <1>1 DEF AwaitsPeers
    <3>2. /\ d - 1 + 1 = d /\ d \in 1..c - 1 /\ Len(clientEvents') = d - 1 + 1
          /\ clientEvents'[d] = clientEvents[d + 1]
      BY <1>2, <2>2, <3>1
    <3>3. toHost' = <<>> /\ clientEvents'[d - 1 + 1] = clientEvents[d + 1]
      BY <3>1, <3>2
    <3> QED BY <3>1, <3>2, <3>3 DEF AwaitsPeers, Lacks
  <2>5. d - 1 \in 0..Len(clientEvents') /\ \A i \in 1..d - 1 : i \in 1..c - 1 /\ i + 1 \in 1..d
    BY <1>2, <2>2
  <2>6. \A i \in 1..d - 1 : clientEvents'[i].type = "Disconnected"
    BY <1>2, <2>1, <2>5
  <2>7. GuestInStep'
    BY <2>1, <2>3, <2>4, <2>5, <2>6 DEF GuestInStep
  <2> QED BY <1>5, <2>7 DEF GuestInv
<1>6. CASE GuestAlone
  <2>1. \A i \in 1..c - 1 : i + 1 \in 1..c
    OBVIOUS
  <2>2. ~up' /\ toHost' = <<>> /\ \A i \in 1..c : clientEvents[i].type # "SYNC_RESPONSE"
    BY <1>1, <1>2, <1>6 DEF GuestAlone
  <2>3. ASSUME NEW i \in 1..c - 1 PROVE clientEvents'[i].type # "SYNC_RESPONSE"
    <3>1. clientEvents'[i] = clientEvents[i + 1] /\ i + 1 \in 1..c
      BY <1>2, <2>1
    <3> QED BY ONLY <3>1, <2>2
  <2>4. Len(clientEvents') = c - 1
    BY <1>2
  <2>5. GuestAlone'
    BY ONLY <2>2, <2>3, <2>4 DEF GuestAlone
  <2> QED BY <2>5, <1>1 DEF GuestInv
<1> QED BY <1>3, <1>4, <1>5, <1>6 DEF GuestInv

\* A guest hears an operation: its own is counted, another's is applied.
LEMMA GuestHears ==
    ASSUME TypeOK, Polite, NEW ok \in BOOLEAN, role = "Guest", clientEvents # <<>>,
           Head(clientEvents).type = "APPLY", HandleSyncEvent(Head(clientEvents), ok),
           clientEvents' = Tail(clientEvents), UNCHANGED serverEvents
    PROVE  Polite'
<1> DEFINE m == Head(clientEvents)
           outcome == ApplyOutcome(m, LocalId, rev, known)
<1>1. /\ known \in Text /\ document \in Text /\ PageInv /\ GuestInv /\ (Busy => Idle)
      /\ UNCHANGED <<page, timer, loading, toNative, role, document, revision, up>>
  BY EventKeeps DEF Polite, RoomInv
<1>2. PICK c \in Nat \ {0} : c = Len(clientEvents)
  BY EventsTail
<1>3. /\ m = clientEvents[1] /\ Len(clientEvents') = c - 1 /\ m \in Event
      /\ \A i \in 1..c - 1 : clientEvents'[i] = clientEvents[i + 1]
      /\ rev \in Nat /\ revision \in Nat /\ m.rev \in Nat /\ m.op \in Operation
  BY <1>2, EventsTail, EventKinds, TypeFacts
<1>4. clientEvents[1].type = "APPLY" /\ 1 \in 1..c
  BY <1>3
<1>5. ~ Idle /\ ~ Busy /\ ~ Busy' /\ ~ Opening' /\ ~timer
  BY <1>1, <1>2, <1>4, OneMessage DEF Idle, OnlyLost, Busy, Opening
<1>6. ApplySyncApply(m, ok) /\ chunks' = chunks /\ LocalId = "B"
  BY DEF HandleSyncEvent, ApplySyncApply, LocalId
<1>7. CASE up /\ GuestInStep
  <2>1. PICK d \in 0..c : /\ \A i \in 1..d : clientEvents[i].type = "Disconnected"
                          /\ AwaitsOwn(d) \/ AwaitsPeers(d)
    BY <1>2, <1>7 DEF GuestInStep
  <2>2. d = 0
    <3>1. SUFFICES ASSUME d # 0 PROVE FALSE
      OBVIOUS
    <3>2. 1 \in 1..d
      BY <3>1
    <3> QED BY <1>4, <2>1, <3>2
  <2>3. CASE AwaitsOwn(d)
    <3>1. /\ \A i \in 1..Len(toHost) : toHost[i].type = "EDIT"
          /\ Replays(document, Ops(toHost), known)
          /\ rev + c = revision
          /\ \A i \in 1..c :
                /\ clientEvents[i].type = "APPLY" /\ clientEvents[i].client = "B"
                /\ clientEvents[i].rev = rev + i
      <4>1. rev + c - d = rev + c /\ d + 1 = 1 /\ \A i \in 1..c : rev + i - d = rev + i
        BY <1>3, <2>2
      <4> QED BY <1>2, <2>2, <2>3, <4>1 DEF AwaitsOwn
    <3>2. m.rev = rev + 1 /\ m.client = "B"
      BY <1>3, <1>4, <3>1
    <3>3. outcome = "own"
      <4>1. ~ (m.rev <= rev) /\ m.rev > rev
        BY <1>3, <3>2
      <4> QED BY <1>6, <3>2, <4>1 DEF ApplyOutcome
    <3>4. rev' = rev + 1 /\ Keep(ok) /\ toHost' = toHost
      BY <1>6, <3>2, <3>3 DEF ApplySyncApply
    <3>5. known' = known /\ toPage' = toPage
      BY <3>4 DEF Keep
    <3>6. AwaitsOwn(0)'
      <4>1. rev' + Len(clientEvents') - 0 = revision'
        BY <1>1, <1>3, <3>1, <3>4
      <4>2. ASSUME NEW i \in 1..c - 1
            PROVE  /\ clientEvents'[i].type = "APPLY" /\ clientEvents'[i].client = "B"
                   /\ clientEvents'[i].rev = rev' + i - 0
        <5>1. i + 1 \in 1..c /\ rev + (i + 1) = (rev + 1) + i - 0
          BY <1>3
        <5> QED BY <1>3, <3>1, <3>4, <5>1
      <4>3. Replays(document', Ops(toHost)', known')
        BY <1>1, <3>1, <3>4, <3>5 DEF Ops
      <4>4. 0 + 1 = 1
        OBVIOUS
      <4> QED BY <1>3, <3>1, <3>4, <4>1, <4>2, <4>3, <4>4 DEF AwaitsOwn
    <3>7. GuestInStep'
      <4>1. 0 \in 0..Len(clientEvents') /\ 1..0 = {}
        BY <1>3
      <4> QED BY <3>6, <4>1 DEF GuestInStep
    <3>8. PageInv'
      BY <1>1, <3>5 DEF PageInv, Shown, Follows
    <3>9. RoomInv'
      BY <1>1, <1>7, <3>7 DEF RoomInv, GuestInv
    <3> QED BY <1>1, <1>5, <3>5, <3>8, <3>9 DEF Polite
  <2>4. CASE AwaitsPeers(d)
    <3>1. toHost = <<>> /\ c = 1 /\ Lacks(m, "A")
      BY <1>2, <1>3, <2>2, <2>4 DEF AwaitsPeers
    <3>2. /\ m.client = "A" /\ m.rev = rev + 1 /\ revision = rev + 1
          /\ ApplyStatus(known, m.op) = "applied" /\ document = Applied(known, m.op)
      BY <3>1 DEF Lacks
    <3>3. outcome = "apply"
      <4>1. ~ (m.rev <= rev) /\ ~ (m.rev > rev + 1)
        BY <1>3, <3>2
      <4> QED BY <1>6, <3>2, <4>1 DEF ApplyOutcome
    <3>4. Show(document, revision, ok) /\ toHost' = toHost
      BY <1>6, <3>2, <3>3 DEF ApplySyncApply
    <3>5. known' = document /\ rev' = revision /\ toPage' = Append(toPage, known')
      BY <3>4 DEF Show
    <3>6. Len(clientEvents') = 0 /\ toHost' = <<>>
      BY <1>3, <3>1, <3>4
    <3>7. AwaitsOwn(0)'
      <4>1. Ops(toHost)' = <<>>
        BY <3>6, OpsNothing DEF Ops
      <4>2. Replays(document', Ops(toHost)', known')
        BY <1>1, <3>5, <4>1, ReplaysNothing
      <4>3. rev' + Len(clientEvents') - 0 = revision' /\ 0 + 1..Len(clientEvents') = {}
        <5>1. rev' = revision' /\ revision' \in Nat
          BY <1>1, <1>3, <3>5
        <5>2. \A i \in Nat : i + 0 - 0 = i
          OBVIOUS
        <5>3. 0 + 1..0 = {}
          OBVIOUS
        <5>4. rev' + 0 - 0 = revision'
          BY <5>1, <5>2
        <5> QED BY <3>6, <5>3, <5>4
      <4>4. 1..Len(toHost') = {}
        BY <3>6, EmptySeq
      <4> QED BY <4>2, <4>3, <4>4 DEF AwaitsOwn
    <3>8. GuestInStep'
      <4>1. 0 \in 0..Len(clientEvents') /\ 1..0 = {}
        BY <3>6
      <4> QED BY <3>7, <4>1 DEF GuestInStep
    <3>9. PageInv'
      BY <1>1, <1>5, <3>5, PageShows DEF Busy
    <3>10. RoomInv'
      BY <1>1, <1>7, <3>8 DEF RoomInv, GuestInv
    <3> QED BY <1>1, <1>5, <3>5, <3>9, <3>10 DEF Polite
  <2> QED BY <2>1, <2>3, <2>4
<1>8. CASE GuestAlone
  <2>1. ~up /\ toHost = <<>> /\ \A i \in 1..c : clientEvents[i].type # "SYNC_RESPONSE"
    BY <1>2, <1>8 DEF GuestAlone
  <2>2. outcome \in {"ignore", "own", "resync", "apply"}
    BY DEF ApplyOutcome
  <2>3. /\ toHost' = toHost
        /\ \/ known' = known /\ toPage' = toPage
           \/ known' \in Text /\ toPage' = Append(toPage, known')
    <3>1. CASE outcome \in {"ignore", "own"}
      BY <1>6, <3>1 DEF ApplySyncApply, Keep
    <3>2. CASE outcome = "resync"
      BY <1>6, <2>1, <3>2 DEF ApplySyncApply, RequestFullSync, Keep
    <3>3. CASE outcome = "apply"
      <4>1. Show(Applied(known, m.op), m.rev, ok) /\ toHost' = toHost
        BY <1>6, <3>3 DEF ApplySyncApply
      <4>2. ApplyStatus(known, m.op) = "applied"
        BY <3>3 DEF ApplyOutcome
      <4> QED BY <1>1, <1>3, <4>1, <4>2, AppliedIsText DEF Show
    <3> QED BY <2>2, <3>1, <3>2, <3>3
  <2>4. GuestAlone'
    <3>1. \A i \in 1..c - 1 : i + 1 \in 1..c
      OBVIOUS
    <3> QED BY <1>1, <1>3, <2>1, <2>3, <3>1 DEF GuestAlone
  <2>5. RoomInv'
    BY <1>1, <2>4 DEF RoomInv, GuestInv
  <2>6. PageInv'
    <3>1. CASE known' = known /\ toPage' = toPage
      BY <1>1, <3>1 DEF PageInv, Shown, Follows
    <3>2. CASE known' \in Text /\ toPage' = Append(toPage, known')
      BY <1>1, <1>5, <3>2, PageShows DEF Busy
    <3> QED BY <2>3, <3>1, <3>2
  <2> QED BY <1>1, <1>5, <2>3, <2>5, <2>6 DEF Polite
<1>9. CASE Receives
  <2>1. PICK n \in Nat \ {0} : n = Len(Response)
    BY ResponseFacts
  <2>2. PICK k \in 0..n - 1, d \in 0..c, e \in 0..n : k + e <= n /\ ReceivesAt(k, d, e)
    BY <1>2, <1>9, <2>1 DEF Receives
  <2>3. IF 1 \in d + 1..d + e THEN clientEvents[1] = Response[1 - d + k]
                              ELSE clientEvents[1].type = "Disconnected"
    BY <1>2, <1>4, <2>1, <2>2 DEF ReceivesAt
  <2>4. 1 \in d + 1..d + e => 1 - d + k \in 1..n
    BY <2>2
  <2>5. \A j \in 1..n : Response[j].type = "SYNC_RESPONSE"
    BY <2>1, ResponseFacts
  <2> QED BY <1>4, <2>3, <2>4, <2>5
<1>10. CASE Asks
  BY <1>2, <1>4, <1>10 DEF Asks, OnlyLost
<1> QED BY <1>1, <1>7, <1>8, <1>9, <1>10 DEF GuestInv

\* A guest takes a chunk of the document; with the last one it has the document.
LEMMA GuestReceives ==
    ASSUME TypeOK, Polite, NEW ok \in BOOLEAN, role = "Guest", clientEvents # <<>>,
           Head(clientEvents).type = "SYNC_RESPONSE", HandleSyncEvent(Head(clientEvents), ok),
           clientEvents' = Tail(clientEvents), UNCHANGED serverEvents
    PROVE  Polite'
<1> DEFINE m == Head(clientEvents)
           parts == Collected(m).parts
<1>1. /\ known \in Text /\ document \in Text /\ PageInv /\ GuestInv /\ (Busy => Idle)
      /\ UNCHANGED <<page, timer, loading, toNative, role, document, revision, up>>
  BY EventKeeps DEF Polite, RoomInv
<1>2. PICK c \in Nat \ {0} : c = Len(clientEvents)
  BY EventsTail
<1>3. /\ m = clientEvents[1] /\ Len(clientEvents') = c - 1 /\ m \in Event /\ m.type = "SYNC_RESPONSE"
      /\ \A i \in 1..c - 1 : clientEvents'[i] = clientEvents[i + 1]
      /\ rev \in Nat /\ revision \in Nat /\ chunks \in ChunksType /\ document \in Seq(Char)
  BY <1>2, EventsTail, TypeFacts
<1>4. clientEvents[1].type = "SYNC_RESPONSE" /\ 1 \in 1..c
  BY <1>3
<1>5. ~ Idle /\ ~ Busy /\ ~ Busy' /\ ~ Opening' /\ ~timer
  BY <1>1, <1>2, <1>4, OneMessage DEF Idle, OnlyLost, Busy, Opening
<1>6. Receives
  <2>1. ~ Asks
    BY <1>2, <1>4 DEF Asks, OnlyLost
  <2>2. ~ GuestAlone
    BY <1>2, <1>4 DEF GuestAlone
  <2>3. ~ GuestInStep
    <3> SUFFICES ASSUME NEW d \in 0..c, \A i \in 1..d : clientEvents[i].type = "Disconnected",
                        AwaitsOwn(d) \/ AwaitsPeers(d)
                 PROVE  FALSE
      BY <1>2 DEF GuestInStep
    <3>1. d = 0
      <4>1. SUFFICES ASSUME d # 0 PROVE FALSE
        OBVIOUS
      <4>2. 1 \in 1..d
        BY <4>1
      <4> QED BY <1>4, <4>2
    <3>2. 1 \in d + 1..c /\ d + 1 = 1
      BY <3>1
    <3> QED BY <1>2, <1>4, <3>2 DEF AwaitsOwn, AwaitsPeers, Lacks
  <2> QED BY <1>1, <2>1, <2>2, <2>3 DEF GuestInv
<1>7. PICK n \in Nat \ {0} : n = Len(Response) /\ n = PieceCount(document, SyncChunkChars)
  BY <1>3, ResponseFacts, ResponseIs
<1>8. \A j \in 1..n :
         /\ Response[j].type = "SYNC_RESPONSE" /\ Response[j].rev = revision
         /\ Response[j].index = j /\ Response[j].count = n
         /\ Response[j].text = Piece(document, SyncChunkChars, j)
  BY <1>7, ResponseFacts
<1>9. PICK k \in 0..n - 1, d \in 0..c, e \in 0..n :
         k + e <= n /\ (up => k + e = n) /\ ReceivesAt(k, d, e)
  BY <1>2, <1>6, <1>7 DEF Receives
<1>10. /\ toHost = <<>> /\ d + e <= c
       /\ \A i \in 1..c :
             IF i \in d + 1..d + e THEN clientEvents[i] = Response[i - d + k]
                                   ELSE clientEvents[i].type = "Disconnected"
       /\ IF k = 0 THEN chunks = NoChunks
          ELSE /\ chunks.rev = revision /\ Len(chunks.parts) = n
               /\ \A i \in 1..n : chunks.parts[i] = IF i <= k THEN <<Response[i].text>> ELSE <<>>
  BY <1>2, <1>7, <1>9 DEF ReceivesAt
<1>11. d = 0 /\ e # 0
  <2>1. 1 \in d + 1..d + e
    <3>1. SUFFICES ASSUME 1 \notin d + 1..d + e PROVE FALSE
      OBVIOUS
    <3> QED BY <1>4, <1>10, <3>1
  <2> QED BY <2>1
<1>12. m = Response[k + 1] /\ k + 1 \in 1..n
  <2>1. 1 \in d + 1..d + e /\ 1 - d + k = k + 1 /\ k + 1 \in 1..n
    BY <1>11
  <2> QED BY <1>3, <1>4, <1>10, <2>1
<1>13. m.rev = revision /\ m.index = k + 1 /\ m.count = n
  BY <1>8, <1>12
<1> HIDE DEF m
<1>14. /\ Collected(m).rev = m.rev /\ Len(parts) = n
       /\ \A j \in 1..n : parts[j] = IF j <= k + 1 THEN <<Response[j].text>> ELSE <<>>
  <2>1. /\ Collected(m).rev = m.rev /\ Len(parts) = n
        /\ \A j \in 1..n :
              parts[j] = IF j = k + 1 THEN <<m.text>>
                         ELSE IF chunks.rev = m.rev /\ Len(chunks.parts) = n
                           THEN chunks.parts[j] ELSE <<>>
    <3>1. /\ Collected(m).rev = m.rev /\ Len(Collected(m).parts) = m.count
          /\ \A j \in 1..m.count :
                Collected(m).parts[j] =
                  IF j = m.index THEN <<m.text>>
                  ELSE IF chunks.rev = m.rev /\ Len(chunks.parts) = m.count
                    THEN chunks.parts[j] ELSE <<>>
      BY <1>3, CollectedIs
    <3> QED BY <1>13, <3>1
  <2> HIDE DEF parts
  <2>2. CASE k = 0
    <3>1. Len(chunks.parts) = 0
      BY <1>10, <2>2 DEF NoChunks
    <3>2. ASSUME NEW j \in 1..n PROVE parts[j] = IF j <= k + 1 THEN <<Response[j].text>> ELSE <<>>
      <4>1. j = k + 1 <=> j <= k + 1
        BY <2>2
      <4> QED BY <1>12, <2>1, <3>1, <4>1
    <3> QED BY <2>1, <3>2 DEF parts
  <2>3. CASE k # 0
    <3>1. chunks.rev = m.rev /\ Len(chunks.parts) = n
      BY <1>10, <1>13, <2>3
    <3>2. ASSUME NEW j \in 1..n PROVE parts[j] = IF j <= k + 1 THEN <<Response[j].text>> ELSE <<>>
      <4>1. CASE j = k + 1
        BY <1>12, <2>1, <4>1
      <4>2. CASE j # k + 1
        <5>1. j <= k <=> j <= k + 1
          BY <4>2
        <5> QED BY <1>10, <2>1, <2>3, <3>1, <4>2, <5>1
      <4> QED BY <4>1, <4>2
    <3> QED BY <2>1, <3>2 DEF parts
  <2> QED BY <2>2, <2>3
<1>15. ApplySyncResponse(m, ok) /\ toHost' = <<>>
  BY <1>3, <1>10 DEF HandleSyncEvent, ApplySyncResponse, m
<1>16. \A i \in 1..c - 1 :
          IF i \in 1..e - 1 THEN clientEvents'[i] = Response[i + k + 1]
                            ELSE clientEvents'[i].type = "Disconnected"
  <2> SUFFICES ASSUME NEW i \in 1..c - 1
               PROVE  IF i \in 1..e - 1 THEN clientEvents'[i] = Response[i + k + 1]
                                        ELSE clientEvents'[i].type = "Disconnected"
    OBVIOUS
  <2>1. i + 1 \in 1..c /\ clientEvents'[i] = clientEvents[i + 1]
        /\ (i + 1 \in d + 1..d + e <=> i \in 1..e - 1) /\ i + 1 - d + k = i + k + 1
    BY <1>3, <1>11
  <2> DEFINE j == i + 1
  <2>5. j \in 1..c
    BY <2>1
  <2> HIDE DEF j
  <2>6. IF j \in d + 1..d + e THEN clientEvents[j] = Response[j - d + k]
                              ELSE clientEvents[j].type = "Disconnected"
    BY <1>10, <2>5
  <2>2. IF i + 1 \in d + 1..d + e THEN clientEvents[i + 1] = Response[i + 1 - d + k]
                                  ELSE clientEvents[i + 1].type = "Disconnected"
    BY ONLY <2>6 DEF j
  <2>3. CASE i \in 1..e - 1
    <3>1. clientEvents[i + 1] = Response[i + 1 - d + k]
      BY <2>1, <2>2, <2>3
    <3>2. clientEvents'[i] = Response[i + k + 1]
      BY <2>1, <3>1
    <3> QED BY <2>3, <3>2
  <2>4. CASE i \notin 1..e - 1
    BY <2>1, <2>2, <2>4
  <2> QED BY <2>3, <2>4
<1>17. CASE k + 1 = n
  <2>1. \A j \in 1..n : parts[j] = <<Piece(document, SyncChunkChars, j)>>
    <3>1. \A j \in 1..n : j <= k + 1
      BY <1>17
    <3> HIDE DEF parts
    <3> QED BY <1>8, <1>14, <3>1
  <2>2. \A j \in 1..m.count : Collected(m).parts[j] # <<>>
    <3>1. \A j \in 1..n : parts[j] # <<>>
      BY <2>1, OneMessage
    <3> QED BY <1>13, <3>1
  <2>3. Show(Whole(m), m.rev, ok)
    BY <1>15, <2>2 DEF ApplySyncResponse, Whole
  <2>4. Whole(m) = document
    <3>1. n \in Nat \ {0} /\ m.count = n
      BY <1>13
    <3>2. PICK f : /\ Whole(m) = f[m.count]
                   /\ f[1] = Collected(m).parts[1][1]
                   /\ \A i \in 2..m.count : f[i] = f[i - 1] \o Collected(m).parts[i][1]
      BY ONLY <3>1, WholeSteps
    <3>3. /\ Whole(m) = f[n]
          /\ f[1] = parts[1][1]
          /\ \A i \in 2..n : f[i] = f[i - 1] \o parts[i][1]
      BY ONLY <3>1, <3>2
    <3> HIDE DEF parts
    <3>4. f[1] = Piece(document, SyncChunkChars, 1)
          /\ \A i \in 2..n : f[i] = f[i - 1] \o Piece(document, SyncChunkChars, i)
      <4>1. 1 \in 1..n /\ \A i \in 2..n : i \in 1..n
        OBVIOUS
      <4>2. \A j \in 1..n : parts[j][1] = Piece(document, SyncChunkChars, j)
        BY <2>1
      <4> QED BY <3>3, <4>1, <4>2
    <3>5. SyncChunkChars \in Nat \ {0}
      BY WebAssumption
    <3>6. f[PieceCount(document, SyncChunkChars)] = document
      <4>1. /\ f[1] = Piece(document, SyncChunkChars, 1)
            /\ \A i \in 2..PieceCount(document, SyncChunkChars) :
                  f[i] = f[i - 1] \o Piece(document, SyncChunkChars, i)
        BY <1>7, <3>4
      <4>2. document \in Seq(Char)
        BY <1>3
      <4> QED BY <3>5, <4>1, <4>2, PiecesJoin
    <3> QED BY <1>7, <3>3, <3>6
  <2>5. known' = document /\ rev' = revision /\ toPage' = Append(toPage, known')
    BY <1>13, <2>3, <2>4 DEF Show
  <2>6. \A i \in 1..c - 1 : clientEvents'[i].type = "Disconnected"
    <3>1. 1..e - 1 = {}
      BY <1>9, <1>17
    <3> QED BY <1>16, <3>1
  <2>7. GuestInv'
    <3>1. serverEvents' = <<>>
      BY <1>1 DEF GuestInv
    <3>2. CASE up
      <4>1. Ops(toHost)' = <<>>
        BY <1>15, OpsNothing DEF Ops
      <4>2. Replays(document', Ops(toHost)', known')
        BY <1>1, <2>5, <4>1, ReplaysNothing
      <4>3. rev' + (c - 1) - (c - 1) = revision' /\ (c - 1) + 1..c - 1 = {}
        BY <1>1, <1>3, <2>5
      <4>4. 1..Len(toHost') = {}
        BY <1>15, EmptySeq
      <4>5. AwaitsOwn(c - 1)'
        BY <1>3, <4>2, <4>3, <4>4 DEF AwaitsOwn
      <4>6. c - 1 \in 0..Len(clientEvents')
        BY <1>3
      <4>7. GuestInStep'
        BY <2>6, <4>5, <4>6 DEF GuestInStep
      <4> QED BY <1>1, <3>1, <3>2, <4>7 DEF GuestInv
    <3>3. CASE ~up
      BY <1>1, <1>3, <1>15, <2>6, <3>1, <3>3 DEF GuestInv, GuestAlone
    <3> QED BY <3>2, <3>3
  <2>8. PageInv'
    BY <1>1, <1>5, <2>5, PageShows DEF Busy
  <2>9. RoomInv'
    BY <1>1, <2>7 DEF RoomInv
  <2> QED BY <1>1, <1>5, <2>5, <2>8, <2>9 DEF Polite
<1>18. CASE k + 1 # n
  <2>1. ~ \A j \in 1..m.count : Collected(m).parts[j] # <<>>
    <3>1. n \in 1..n /\ ~ (n <= k + 1)
      BY <1>18
    <3>2. parts[n] = <<>>
      BY <1>14, <3>1
    <3> QED BY <1>13, <3>1, <3>2
  <2>2. Keep(ok) /\ rev' = rev /\ chunks' = Collected(m)
    BY <1>15, <2>1 DEF ApplySyncResponse
  <2>3. known' = known /\ toPage' = toPage
    BY <2>2 DEF Keep
  <2>4. Response' = Response
    BY <1>1 DEF Response
  <2>5. ReceivesAt(k + 1, 0, e - 1)'
    <3>1. 0 + (e - 1) <= c - 1
      BY <1>10, <1>11
    <3>2. 0 + 1..0 + (e - 1) = 1..e - 1 /\ \A i \in 1..c - 1 : i - 0 + (k + 1) = i + k + 1
      OBVIOUS
    <3>3. \A i \in 1..c - 1 :
             IF i \in 0 + 1..0 + (e - 1) THEN clientEvents'[i] = Response[i - 0 + (k + 1)]
                                         ELSE clientEvents'[i].type = "Disconnected"
      BY <1>16, <3>2
    <3>4. /\ chunks'.rev = revision /\ Len(chunks'.parts) = n
          /\ \A i \in 1..n : chunks'.parts[i] = IF i <= k + 1 THEN <<Response[i].text>> ELSE <<>>
      BY <1>13, <1>14, <2>2
    <3>5. k + 1 # 0
      OBVIOUS
    <3> QED BY <1>1, <1>3, <1>7, <1>15, <2>4, <3>1, <3>3, <3>4, <3>5 DEF ReceivesAt
  <2>6. /\ k + 1 \in 0..n - 1 /\ 0 \in 0..c - 1 /\ e - 1 \in 0..n
        /\ (k + 1) + (e - 1) <= n /\ (up => (k + 1) + (e - 1) = n)
    BY <1>9, <1>11, <1>18
  <2>7. Receives'
    BY <1>1, <1>3, <1>7, <2>4, <2>5, <2>6 DEF Receives
  <2>8. RoomInv'
    BY <1>1, <2>7 DEF RoomInv, GuestInv
  <2>9. PageInv'
    BY <1>1, <2>3 DEF PageInv, Shown, Follows
  <2> QED BY <1>1, <1>5, <2>3, <2>8, <2>9 DEF Polite
<1> QED BY <1>17, <1>18

\* An event that the program only notes.
LEMMA NoticeTaken ==
    ASSUME TypeOK, Polite, NEW ok \in BOOLEAN, clientEvents # <<>>,
           Head(clientEvents).type \notin {"APPLY", "SYNC_RESPONSE"},
           HandleSyncEvent(Head(clientEvents), ok),
           clientEvents' = Tail(clientEvents), UNCHANGED serverEvents
    PROVE  Polite'
<1>1. /\ known \in Text /\ document \in Text /\ PageInv /\ RoomInv /\ (Busy => Idle)
      /\ (Opening => role = "Offline" /\ disk \in Text)
      /\ UNCHANGED <<page, timer, loading, toNative, toPage, role, known, rev, chunks, disk,
                     document, revision, up, toHost>>
  BY NoticeKeeps DEF Polite
<1>2. PageInv' /\ (Busy' => Busy) /\ (Opening' => Opening)
  BY <1>1 DEF PageInv, Shown, Follows, Busy, Opening
<1>3. OnlyLost(clientEvents) => OnlyLost(clientEvents)'
  BY TypeFacts, OnlyLostTail DEF OnlyLost
<1>4. Idle => Idle'
  BY <1>1, <1>3 DEF Idle
<1>5. HostInStep => HostInStep'
  BY <1>1 DEF HostInStep, Agree, Lacks
<1>6. GuestInv => GuestInv'
  BY <1>1, GuestNoticed
<1>7. RoomInv'
  BY <1>1, <1>3, <1>4, <1>5, <1>6 DEF RoomInv
<1> QED BY <1>1, <1>2, <1>4, <1>7 DEF Polite

LEMMA DrainKeeps ==
    ASSUME TypeOK, Polite, NEW ok \in BOOLEAN, DrainSyncEvents(ok)
    PROVE  Polite'
<1>1. CASE /\ serverEvents # <<>> /\ HandleSyncEvent(Head(serverEvents), ok)
           /\ serverEvents' = Tail(serverEvents) /\ UNCHANGED clientEvents
  BY <1>1, HostTakes
<1>2. CASE /\ serverEvents = <<>> /\ clientEvents # <<>> /\ HandleSyncEvent(Head(clientEvents), ok)
           /\ clientEvents' = Tail(clientEvents) /\ UNCHANGED serverEvents
  <2>1. CASE role = "Guest"
    BY <1>2, <2>1, GuestHears, GuestReceives, NoticeTaken
  <2>2. CASE role # "Guest"
    <3>1. OnlyLost(clientEvents)
      BY <2>2, TypeFacts DEF Polite, RoomInv, Idle
    <3>2. Head(clientEvents).type = "Disconnected"
      BY <1>2, <3>1, TypeFacts, OnlyLostTail
    <3> QED BY <1>2, <3>2, NoticeTaken
  <2> QED BY <2>1, <2>2
<1> QED BY <1>1, <1>2 DEF DrainSyncEvents

\* What was not carried stays so.
LEMMA CarriedBefore ==
    ASSUME TypeOK, [Next]_vars, carried'
    PROVE  carried
<1>1. ASSUME NEW ok \in BOOLEAN, HandleEditorChanged(ok) PROVE carried
  <2> DEFINE text == Head(toNative).text
             ops == ComputeEditorDiff(known, text)
             before == [document |-> document, revision |-> revision, rev |-> rev, posts |-> toPage,
                        carried |-> carried]
  <2>1. text \in Seq(Char)
    BY <1>1, MessageTyped DEF HandleEditorChanged
  <2>2. ops \in Seq(Operation)
    BY <2>1, TypeFacts, DiffType
  <2>3. UNCHANGED carried \/ SendLocalOperations(ops)
    BY <1>1 DEF HandleEditorChanged
  <2> HIDE DEF ops
  <2>4. CASE role = "Host" /\ SendLocalOperations(ops)
    <3>1. HostAppliesAll(before, ops).carried
      BY <2>4 DEF SendLocalOperations
    <3>2. before \in HostState /\ before.carried = carried
      BY TypeFacts DEF HostState
    <3> HIDE DEF before
    <3> QED BY <2>2, <3>1, <3>2, HostAppliesAllCarries
  <2>5. CASE role # "Host" /\ SendLocalOperations(ops)
    BY <2>5 DEF SendLocalOperations
  <2> QED BY <2>3, <2>4, <2>5
<1>2. ASSUME NEW ok \in BOOLEAN, DrainSyncEvents(ok) PROVE carried
  BY <1>2 DEF DrainSyncEvents, HandleSyncEvent
<1>3. ASSUME NEW ok \in BOOLEAN, NEW started \in BOOLEAN, HandleCreateRoom(ok, started) PROVE carried
  BY <1>3 DEF HandleCreateRoom
<1>4. ASSUME NEW text \in TypedTexts \cap Text, PeerEdits(text) PROVE carried
  BY <1>4 DEF PeerEdits
<1>5. CASE HostServes
  BY <1>5 DEF HostServes
<1>6. CASE LosesHost \/ FindsNoRoom \/ SaveTimer \/ PageReceives \/ NavigationCompleted \/ HandleUiReady
  BY <1>6 DEF LosesHost, FindsNoRoom, SaveTimer, PageReceives, NavigationCompleted, HandleUiReady,
              PostInitialState
<1>7. ASSUME NEW text, Types(text) \/ AsksForRoom(text) \/ HandleJoinRoom(text) PROVE carried
  BY <1>7 DEF Types, AsksForRoom, HandleJoinRoom
<1>8. CASE UNCHANGED vars
  BY <1>8 DEF vars
<1> QED BY <1>1, <1>2, <1>3, <1>4, <1>5, <1>6, <1>7, <1>8 DEF Next

LEMMA NextPolite ==
    ASSUME TypeOK, PoliteInv, [Next]_vars
    PROVE  PoliteInv'
<1>1. polite' = polite
  BY DEF Next, vars, bounds, Types, SaveTimer, AsksForRoom, PageReceives, NavigationCompleted, HandleUiReady,
         PostInitialState, HandleEditorChanged, DrainSyncEvents, HandleSyncEvent, HandleCreateRoom,
         HandleJoinRoom, FindsNoRoom, PeerEdits, HostServes, LosesHost
<1>4. carried' => carried
  BY CarriedBefore
<1> SUFFICES ASSUME polite, Polite, carried' PROVE Polite'
  BY <1>1, <1>4 DEF PoliteInv
<1>2. CASE Next
  BY <1>2, PageKeeps, OpeningKeeps, EditorChangedKeeps, CreateKeeps, JoinKeeps, PeerKeeps,
     ServesKeeps, LosesKeeps, DrainKeeps DEF Next
<1>3. CASE UNCHANGED vars
  <2>1. RoomStays /\ UNCHANGED <<page, timer, loading, toNative, toPage, disk>>
    BY <1>3 DEF vars, pageVars, nativeVars, diskVars, roomVars, RoomStays
  <2>2. RoomInv' /\ (Idle => Idle') /\ known' = known /\ document' = document /\ role' = role
    BY <2>1, RoomInvStays DEF Polite, RoomStays
  <2> QED BY <2>1, <2>2 DEF Polite, PageInv, Shown, Follows, Busy, Opening
<1> QED BY <1>2, <1>3

\* With polite users, and as long as the server takes every operation, EnqueueMessage queues
\* them, a host's APPLY reaches its guest and no room begins over the limit (carried): the
\* page, the program and the room agree whenever nothing is under way. editorChanged,
\* createRoom and joinRoom, rooms that are refused, cut off or lost, an unreadable
\* current.txt, documents in chunks of any size and operations of either side never leave
\* WebViewWindow apart from its room, and its page shows the document or what parseMarkdown
\* and serializeEditor make of it. The invariant says what every message on its way will do.
THEOREM PoliteUsersAgree == Spec => []PoliteAgree
<1>1. Init => PoliteInv
  <2> SUFFICES ASSUME Init PROVE Polite
    BY DEF PoliteInv
  <2>1. /\ ~timer /\ page = known /\ toPage = <<>> /\ toNative = <<[type |-> "uiReady"]>>
        /\ known = <<>> /\ document = <<>> /\ role = "Offline" /\ ~up /\ disk \in Text
        /\ toHost = <<>> /\ serverEvents = <<>> /\ clientEvents = <<>>
    BY TextTypes DEF Init
  <2>2. <<>> \in Text
    BY EmptyIsText
  <2>3. Idle
    BY <2>1, EmptySeq DEF Idle, OnlyLost
  <2>4. PageInv
    BY <2>1 DEF PageInv, Shown, Follows
  <2> QED BY <2>1, <2>2, <2>3, <2>4 DEF Polite, RoomInv
<1>2. TypeOK /\ PoliteInv /\ [Next]_vars => PoliteInv'
  BY NextPolite
<1>3. TypeOK /\ PoliteInv => PoliteAgree
  BY PoliteMeansAgreed
<1> QED BY <1>1, <1>2, <1>3, TypeCorrect, PTL DEF Spec
=============================================================================
