-------------------------- MODULE EditorDiffProofs ---------------------------
(*****************************************************************************)
(* Facts about the operations of client/document_model.cpp and the diff of   *)
(* client/editor_diff.cpp, for every alphabet and every document limit, about *)
(* the sequences that queues are, and about texts sent in pieces.            *)
(*****************************************************************************)
EXTENDS EditorDiff, Functions, SequenceTheorems, WellFoundedInduction, TLAPS

\* Text is the set of the sequences of characters within the document limit.
LEMMA TextIsSeq ==
    ASSUME NEW t
    PROVE  t \in Text <=> t \in Seq(Char) /\ Len(t) <= MaxDocumentChars
<1>1. ASSUME t \in Text
      PROVE  t \in Seq(Char) /\ Len(t) <= MaxDocumentChars
  <2>1. PICK n \in 0..MaxDocumentChars : t \in [1..n -> Char]
    BY <1>1 DEF Text
  <2>2. n \in Nat
    BY DocumentAssumption
  <2>3. t \in Seq(Char)
    BY <2>1, <2>2, SeqDef
  <2>4. Len(t) = n
    BY <2>1, <2>2, <2>3, LenProperties
  <2> QED BY <2>1, <2>3, <2>4, DocumentAssumption
<1>2. ASSUME t \in Seq(Char), Len(t) <= MaxDocumentChars
      PROVE  t \in Text
  <2>1. t \in [1..Len(t) -> Char] /\ Len(t) \in 0..MaxDocumentChars
    BY <1>2, LenProperties, DocumentAssumption
  <2> QED BY <2>1 DEF Text
<1> QED BY <1>1, <1>2

\* A function on the first n positions is a sequence, and n is its length.
LEMMA FunctionIsSeq ==
    ASSUME NEW S, NEW n \in Nat, NEW f \in [1..n -> S]
    PROVE  f \in Seq(S) /\ Len(f) = n
<1>1. f \in Seq(S)
  BY SeqDef
<1> QED BY <1>1, LenProperties

\* Every non-empty set of natural numbers has a least element.
LEMMA LeastElement ==
    ASSUME NEW T \in SUBSET Nat, T # {}
    PROVE  \E x \in T : \A y \in T : x <= y
<1> DEFINE R == OpToRel(<, Nat)
<1>1. PICK x \in T : \A y \in T : ~ (<<y, x>> \in R)
  <2> HIDE DEF R
  <2>1. IsWellFoundedOn(R, Nat)
    BY NatLessThanWellFounded DEF R
  <2> QED BY <2>1, WFMin
<1>2. ASSUME NEW y \in T
      PROVE  x <= y
  <2>1. x \in Nat /\ y \in Nat
    OBVIOUS
  <2>2. ~ (y < x)
    BY <1>1, <2>1 DEF OpToRel
  <2> QED BY <2>1, <2>2
<1> QED BY <1>2
-----------------------------------------------------------------------------
(* What Append, Head, Tail, SubSeq and \o do to the elements of a queue. *)

\* An empty queue has no elements.
LEMMA RangeEmpty == Range(<<>>) = {}
BY DEF Range

\* Append adds one element.
LEMMA RangeAppend ==
    ASSUME NEW S, NEW s \in Seq(S), NEW e \in S
    PROVE  Append(s, e) \in Seq(S) /\ Range(Append(s, e)) = Range(s) \cup {e}
<1>1. /\ Append(s, e) \in Seq(S) /\ Len(Append(s, e)) = Len(s) + 1 /\ Len(s) \in Nat
      /\ \A i \in 1..Len(s) : Append(s, e)[i] = s[i]
      /\ Append(s, e)[Len(s) + 1] = e
  BY AppendProperties, LenProperties
<1>2. /\ Range(s) = {s[i] : i \in 1..Len(s)}
      /\ Range(Append(s, e)) = {Append(s, e)[i] : i \in 1..Len(Append(s, e))}
  BY <1>1, RangeEquality
<1>3. ASSUME NEW x \in Range(Append(s, e))
      PROVE  x \in Range(s) \cup {e}
  <2>1. PICK i \in 1..Len(s) + 1 : x = Append(s, e)[i]
    BY <1>1, <1>2
  <2>2. CASE i \in 1..Len(s)
    BY <2>1, <2>2, <1>1, <1>2
  <2>3. CASE i = Len(s) + 1
    BY <2>1, <2>3, <1>1
  <2> QED BY <2>2, <2>3, <1>1
<1>4. ASSUME NEW x \in Range(s)
      PROVE  x \in Range(Append(s, e))
  <2>1. PICK i \in 1..Len(s) : x = s[i]
    BY <1>2
  <2>2. i \in 1..Len(s) + 1 /\ x = Append(s, e)[i]
    BY <2>1, <1>1
  <2> QED BY <2>2, <1>1, <1>2
<1>5. e \in Range(Append(s, e))
  <2>1. Len(s) + 1 \in 1..Len(s) + 1
    BY <1>1
  <2> QED BY <2>1, <1>1, <1>2
<1> QED BY <1>1, <1>3, <1>4, <1>5

\* A part of a queue has no new elements.
LEMMA RangeSubSeq ==
    ASSUME NEW S, NEW s \in Seq(S), NEW m \in Nat \ {0}, NEW n \in Nat, n <= Len(s)
    PROVE  SubSeq(s, m, n) \in Seq(S) /\ Range(SubSeq(s, m, n)) \subseteq Range(s)
<1>1. /\ \A i \in m..n : s[i] \in S
      /\ Len(s) \in Nat
  BY LenProperties
<1> DEFINE t == SubSeq(s, m, n)
<1>2. /\ t \in Seq(S) /\ Len(t) = (IF m <= n THEN n - m + 1 ELSE 0)
      /\ \A i \in 1..n - m + 1 : t[i] = s[m + i - 1]
  BY <1>1, SubSeqProperties
<1> HIDE DEF t
<1>3. Range(s) = {s[i] : i \in 1..Len(s)} /\ Range(t) = {t[i] : i \in 1..Len(t)}
  BY <1>2, RangeEquality
<1>4. ASSUME NEW x \in Range(t)
      PROVE  x \in Range(s)
  <2>1. PICK i \in 1..Len(t) : x = t[i]
    BY <1>3
  <2>2. i \in 1..n - m + 1 /\ m + i - 1 \in 1..Len(s)
    BY <1>1, <1>2
  <2>3. x = s[m + i - 1]
    BY <2>1, <2>2, <1>2
  <2> QED BY <2>2, <2>3, <1>3
<1> QED BY <1>2, <1>4 DEF t

\* The elements are the head and those of the tail.
LEMMA RangeHeadTail ==
    ASSUME NEW S, NEW s \in Seq(S), s # <<>>
    PROVE  /\ Head(s) \in S /\ Head(s) \in Range(s)
           /\ Tail(s) \in Seq(S) /\ Range(Tail(s)) \subseteq Range(s)
           /\ Range(s) = {Head(s)} \cup Range(Tail(s))
<1>1. /\ Len(s) \in Nat \ {0} /\ Head(s) = s[1] /\ Head(s) \in S /\ Tail(s) \in Seq(S)
      /\ Tail(s) = SubSeq(s, 2, Len(s))
  BY EmptySeq, HeadTailProperties, TailIsSubSeq
<1>2. Range(s) = {s[i] : i \in 1..Len(s)}
  BY RangeEquality
<1>3. Head(s) \in Range(s)
  BY <1>1, <1>2
<1>4. Range(SubSeq(s, 2, Len(s))) \subseteq Range(s)
  BY <1>1, RangeSubSeq
<1>5. ASSUME NEW x \in Range(s), x # Head(s)
      PROVE  x \in Range(Tail(s))
  <2>1. PICK i \in 1..Len(s) : x = s[i]
    BY <1>2
  <2>2. /\ Len(Tail(s)) = Len(s) - 1
        /\ \A j \in 1..Len(Tail(s)) : Tail(s)[j] = s[j + 1]
    BY HeadTailProperties
  <2>3. i - 1 \in 1..Len(Tail(s)) /\ i - 1 + 1 = i
    BY <2>1, <2>2, <1>1, <1>5
  <2>4. x = Tail(s)[i - 1]
    BY <2>1, <2>2, <2>3
  <2>5. Range(Tail(s)) = {Tail(s)[j] : j \in 1..Len(Tail(s))}
    BY <1>1, RangeEquality
  <2> QED BY <2>3, <2>4, <2>5
<1> QED BY <1>1, <1>3, <1>4, <1>5

\* A queue put behind another adds only its own elements.
LEMMA RangeConcat ==
    ASSUME NEW S, NEW s \in Seq(S), NEW t \in Seq(S)
    PROVE  s \o t \in Seq(S) /\ Range(s \o t) \subseteq Range(s) \cup Range(t)
<1>1. /\ s \o t \in Seq(S) /\ Len(s \o t) = Len(s) + Len(t) /\ Len(s) \in Nat /\ Len(t) \in Nat
      /\ \A i \in 1..Len(s) + Len(t) :
           (s \o t)[i] = IF i <= Len(s) THEN s[i] ELSE t[i - Len(s)]
  BY ConcatProperties, LenProperties
<1>2. /\ Range(s) = {s[i] : i \in 1..Len(s)} /\ Range(t) = {t[i] : i \in 1..Len(t)}
      /\ Range(s \o t) = {(s \o t)[i] : i \in 1..Len(s \o t)}
  BY <1>1, RangeEquality
<1>3. ASSUME NEW x \in Range(s \o t)
      PROVE  x \in Range(s) \cup Range(t)
  <2>1. PICK i \in 1..Len(s) + Len(t) : x = (s \o t)[i]
    BY <1>1, <1>2
  <2>2. CASE i <= Len(s)
    <3>1. i \in 1..Len(s) /\ x = s[i]
      BY <2>1, <2>2, <1>1
    <3> QED BY <3>1, <1>2
  <2>3. CASE ~ (i <= Len(s))
    <3>1. i - Len(s) \in 1..Len(t) /\ x = t[i - Len(s)]
      BY <2>1, <2>3, <1>1
    <3> QED BY <3>1, <1>2
  <2> QED BY <2>2, <2>3
<1> QED BY <1>1, <1>3


\* What stands where in two sequences, one behind the other.
LEMMA ConcatAt ==
    ASSUME NEW S, NEW s \in Seq(S), NEW t \in Seq(S)
    PROVE  /\ s \o t \in Seq(S) /\ Len(s \o t) = Len(s) + Len(t)
           /\ Len(s) \in Nat /\ Len(t) \in Nat
           /\ \A i \in 1..Len(s) : (s \o t)[i] = s[i]
           /\ \A i \in 1..Len(t) : (s \o t)[Len(s) + i] = t[i]
<1>1. /\ s \o t \in Seq(S) /\ Len(s \o t) = Len(s) + Len(t) /\ Len(s) \in Nat /\ Len(t) \in Nat
      /\ \A i \in 1..Len(s) + Len(t) : (s \o t)[i] = IF i <= Len(s) THEN s[i] ELSE t[i - Len(s)]
  BY ConcatProperties, LenProperties
<1>2. ASSUME NEW i \in 1..Len(s) PROVE (s \o t)[i] = s[i]
  <2>1. i \in 1..Len(s) + Len(t) /\ i <= Len(s)
    BY <1>1
  <2> QED BY <2>1, <1>1
<1>3. ASSUME NEW i \in 1..Len(t) PROVE (s \o t)[Len(s) + i] = t[i]
  <2>1. Len(s) + i \in 1..Len(s) + Len(t) /\ ~(Len(s) + i <= Len(s)) /\ (Len(s) + i) - Len(s) = i
    BY <1>1
  <2> QED BY <2>1, <1>1
<1> QED BY <1>1, <1>2, <1>3
-----------------------------------------------------------------------------
\* What InsertAt and RemoveAt return: the length, and each character.
LEMMA InsertAtProperties ==
    ASSUME NEW content \in Seq(Char), NEW text \in Seq(Char), NEW pos \in 0..Len(content)
    PROVE  /\ InsertAt(content, pos, text) \in Seq(Char)
           /\ Len(InsertAt(content, pos, text)) = Len(content) + Len(text)
           /\ \A i \in 1..Len(content) + Len(text) :
                InsertAt(content, pos, text)[i] =
                  IF i <= pos THEN content[i]
                  ELSE IF i <= pos + Len(text) THEN text[i - pos]
                  ELSE content[i - Len(text)]
<1> DEFINE before == SubSeq(content, 1, pos)
           after  == SubSeq(content, pos + 1, Len(content))
<1>1. /\ before \in Seq(Char) /\ Len(before) = pos
      /\ \A i \in 1..pos : before[i] = content[i]
  BY SubSeqProperties, LenProperties
<1>2. /\ after \in Seq(Char) /\ Len(after) = Len(content) - pos
      /\ \A i \in 1..Len(content) - pos : after[i] = content[pos + i]
  BY SubSeqProperties, LenProperties
<1> HIDE DEF before, after
<1>3. /\ before \o text \in Seq(Char) /\ Len(before \o text) = Len(before) + Len(text)
      /\ \A i \in 1..Len(before) + Len(text) :
           (before \o text)[i] = IF i <= Len(before) THEN before[i] ELSE text[i - Len(before)]
  BY <1>1, ConcatProperties
<1> DEFINE front == before \o text
<1> HIDE DEF front
<1>4. /\ front \o after \in Seq(Char) /\ Len(front \o after) = Len(front) + Len(after)
      /\ \A i \in 1..Len(front) + Len(after) :
           (front \o after)[i] = IF i <= Len(front) THEN front[i] ELSE after[i - Len(front)]
  <2>1. front \in Seq(Char)
    BY <1>3 DEF front
  <2> QED BY <2>1, <1>2, ConcatProperties
<1>5. InsertAt(content, pos, text) = front \o after
  BY DEF InsertAt, before, after, front
<1>6. Len(content) \in Nat /\ Len(text) \in Nat
  BY LenProperties
<1>7. Len(front) = pos + Len(text)
  BY <1>1, <1>3 DEF front
<1>8. ASSUME NEW i \in 1..Len(content) + Len(text)
      PROVE  (front \o after)[i] =
               IF i <= pos THEN content[i]
               ELSE IF i <= pos + Len(text) THEN text[i - pos]
               ELSE content[i - Len(text)]
  <2>1. CASE i <= pos + Len(text)
    BY <2>1, <1>1, <1>2, <1>3, <1>4, <1>6, <1>7 DEF front
  <2>2. CASE ~ (i <= pos + Len(text))
    <3>5. i \in 1..Len(front) + Len(after) /\ ~ (i <= Len(front))
      BY <2>2, <1>2, <1>6, <1>7
    <3>1. (front \o after)[i] = after[i - (pos + Len(text))]
      BY ONLY <3>5, <1>4, <1>7
    <3>2. i - (pos + Len(text)) \in 1..Len(content) - pos
      BY <2>2, <1>6
    <3>3. after[i - (pos + Len(text))] = content[pos + (i - (pos + Len(text)))]
      BY <3>2, <1>2
    <3>4. pos + (i - (pos + Len(text))) = i - Len(text)
      BY <1>6
    <3> QED BY <2>2, <3>1, <3>3, <3>4, <1>6
  <2> QED BY <2>1, <2>2
<1>9. Len(front \o after) = Len(content) + Len(text)
  BY <1>2, <1>4, <1>6, <1>7
<1> QED BY <1>4, <1>5, <1>8, <1>9

LEMMA RemoveAtProperties ==
    ASSUME NEW content \in Seq(Char), NEW pos \in Nat, NEW len \in Nat,
           pos + len <= Len(content)
    PROVE  /\ RemoveAt(content, pos, len) \in Seq(Char)
           /\ Len(RemoveAt(content, pos, len)) = Len(content) - len
           /\ \A i \in 1..Len(content) - len :
                RemoveAt(content, pos, len)[i] =
                  IF i <= pos THEN content[i] ELSE content[i + len]
<1> DEFINE before == SubSeq(content, 1, pos)
           after  == SubSeq(content, pos + len + 1, Len(content))
<1>1. /\ before \in Seq(Char) /\ Len(before) = pos
      /\ \A i \in 1..pos : before[i] = content[i]
  BY SubSeqProperties, LenProperties
<1>2. /\ after \in Seq(Char) /\ Len(after) = Len(content) - pos - len
      /\ \A i \in 1..Len(content) - pos - len : after[i] = content[pos + len + i]
  BY SubSeqProperties, LenProperties
<1> HIDE DEF before, after
<1>3. RemoveAt(content, pos, len) = before \o after
  BY DEF RemoveAt, before, after
<1>4. /\ before \o after \in Seq(Char) /\ Len(before \o after) = Len(before) + Len(after)
      /\ \A i \in 1..Len(before) + Len(after) :
           (before \o after)[i] = IF i <= Len(before) THEN before[i] ELSE after[i - Len(before)]
  BY <1>1, <1>2, ConcatProperties
<1>5. Len(content) \in Nat
  BY LenProperties
<1>6. ASSUME NEW i \in 1..Len(content) - len
      PROVE  (before \o after)[i] = IF i <= pos THEN content[i] ELSE content[i + len]
  <2>1. CASE i <= pos
    BY <2>1, <1>1, <1>2, <1>4, <1>5
  <2>2. CASE ~ (i <= pos)
    <3>1. (before \o after)[i] = after[i - pos]
      BY <2>2, <1>1, <1>2, <1>4, <1>5
    <3>2. after[i - pos] = content[pos + len + (i - pos)]
      BY <2>2, <1>2, <1>5
    <3>3. pos + len + (i - pos) = i + len
      BY <1>5
    <3> QED BY <2>2, <3>1, <3>2, <3>3, <1>5
  <2> QED BY <2>1, <2>2
<1> QED BY <1>1, <1>2, <1>3, <1>4, <1>5, <1>6
-----------------------------------------------------------------------------
\* The two loops of ComputeEditorDiff stop at a longest common prefix and, short of it,
\* a longest common suffix: CHOOSE in CommonPrefix and CommonSuffix has something to choose.
LEMMA CommonPrefixProperties ==
    ASSUME NEW old \in Seq(Char), NEW new \in Seq(Char)
    PROVE  /\ CommonPrefix(old, new) \in 0..Len(old)
           /\ LongestPrefix(old, new, CommonPrefix(old, new))
<1> DEFINE T == {k \in Nat : ~ IsCommonPrefix(old, new, k + 1)}
<1>1. Len(old) \in Nat
  BY LenProperties
<1>2. Len(old) \in T
  BY <1>1 DEF IsCommonPrefix
<1>3. PICK p \in T : \A k \in T : p <= k
  <2> HIDE DEF T
  <2>1. T \in SUBSET Nat
    BY DEF T
  <2> QED BY <2>1, <1>2, LeastElement
<1>4. p \in 0..Len(old)
  BY <1>1, <1>2, <1>3
<1>5. IsCommonPrefix(old, new, p)
  <2>1. CASE p = 0
    BY <2>1, LenProperties DEF IsCommonPrefix
  <2>2. CASE p # 0
    <3>1. p - 1 \in Nat /\ p - 1 \notin T
      BY <2>2, <1>3
    <3>2. IsCommonPrefix(old, new, (p - 1) + 1)
      BY <3>1
    <3>3. (p - 1) + 1 = p
      BY <1>4, <1>1
    <3> QED BY <3>2, <3>3
  <2> QED BY <2>1, <2>2
<1>6. LongestPrefix(old, new, p)
  BY <1>5 DEF LongestPrefix
<1> QED BY <1>4, <1>6 DEF CommonPrefix

LEMMA CommonSuffixProperties ==
    ASSUME NEW old \in Seq(Char), NEW new \in Seq(Char)
    PROVE  /\ CommonSuffix(old, new) \in 0..Len(old)
           /\ LongestSuffix(old, new, CommonPrefix(old, new), CommonSuffix(old, new))
<1> DEFINE prefix == CommonPrefix(old, new)
           T == {k \in Nat : ~ IsCommonSuffix(old, new, prefix, k + 1)}
<1>1. Len(old) \in Nat /\ Len(new) \in Nat
  BY LenProperties
<1>2. /\ prefix \in 0..Len(old)
      /\ prefix <= Len(old) /\ prefix <= Len(new)
  BY CommonPrefixProperties DEF LongestPrefix, IsCommonPrefix
<1> HIDE DEF prefix
<1>3. Len(old) \in T
  BY <1>1, <1>2 DEF IsCommonSuffix
<1>4. PICK s \in T : \A k \in T : s <= k
  <2> HIDE DEF T
  <2>1. T \in SUBSET Nat
    BY DEF T
  <2> QED BY <2>1, <1>3, LeastElement
<1>5. s \in 0..Len(old)
  BY <1>1, <1>3, <1>4
<1>6. IsCommonSuffix(old, new, prefix, s)
  <2>1. CASE s = 0
    <3>1. /\ prefix + 0 <= Len(old) /\ prefix + 0 <= Len(new)
          /\ \A i \in 0..0 - 1 : old[Len(old) - i] = new[Len(new) - i]
      BY <1>1, <1>2
    <3>2. IsCommonSuffix(old, new, prefix, 0)
      BY <3>1 DEF IsCommonSuffix
    <3> QED BY <2>1, <3>2
  <2>2. CASE s # 0
    <3>1. s - 1 \in Nat /\ s - 1 \notin T
      <4>1. s \in Nat
        OBVIOUS
      <4>2. s - 1 \in Nat /\ ~ (s <= s - 1)
        BY <2>2, <4>1
      <4> HIDE DEF T
      <4> QED BY <4>2, <1>4
    <3>2. IsCommonSuffix(old, new, prefix, (s - 1) + 1)
      BY <3>1
    <3>3. (s - 1) + 1 = s
      BY <1>5, <1>1
    <3> QED BY <3>2, <3>3
  <2> QED BY <2>1, <2>2
<1>7. LongestSuffix(old, new, prefix, s)
  BY <1>6 DEF LongestSuffix
<1> QED BY <1>5, <1>7 DEF CommonSuffix, prefix
-----------------------------------------------------------------------------
\* Applying ops one after the other, each accepted, leads from the text from to the text to.
Replays(from, ops, to) ==
    \E texts \in [0..Len(ops) -> Text] :
        /\ texts[0] = from /\ texts[Len(ops)] = to
        /\ \A i \in 1..Len(ops) :
             /\ ApplyStatus(texts[i - 1], ops[i]) = "applied"
             /\ texts[i] = Applied(texts[i - 1], ops[i])

LEMMA ReplaysNothing ==
    ASSUME NEW text \in Text
    PROVE  Replays(text, <<>>, text)
<1> DEFINE texts == [i \in 0..0 |-> text]
<1>1. Len(<<>>) = 0
  OBVIOUS
<1>2. /\ texts \in [0..0 -> Text] /\ texts[0] = text
      /\ \A i \in 1..0 : FALSE
  OBVIOUS
<1> HIDE DEF texts
<1> QED BY <1>1, <1>2 DEF Replays

LEMMA ReplaysOne ==
    ASSUME NEW from \in Text, NEW op, ApplyStatus(from, op) = "applied",
           Applied(from, op) \in Text
    PROVE  Replays(from, <<op>>, Applied(from, op))
<1> DEFINE texts == [i \in 0..1 |-> IF i = 0 THEN from ELSE Applied(from, op)]
<1>1. Len(<<op>>) = 1 /\ <<op>>[1] = op
  OBVIOUS
<1>2. /\ texts \in [0..1 -> Text] /\ texts[0] = from /\ texts[1] = Applied(from, op)
      /\ \A i \in 1..1 : i = 1
  OBVIOUS
<1> HIDE DEF texts
<1>3. ASSUME NEW i \in 1..1
      PROVE  /\ ApplyStatus(texts[i - 1], <<op>>[i]) = "applied"
             /\ texts[i] = Applied(texts[i - 1], <<op>>[i])
  <2>1. i = 1 /\ i - 1 = 0
    BY <1>2
  <2> QED BY <2>1, <1>1, <1>2
<1> QED BY <1>1, <1>2, <1>3 DEF Replays

\* What is replayed first is accepted, and the rest is replayed from there.
LEMMA ReplaysHeadTail ==
    ASSUME NEW ops \in Seq(Operation), ops # <<>>, NEW from \in Text, NEW to \in Text,
           Replays(from, ops, to)
    PROVE  /\ ApplyStatus(from, Head(ops)) = "applied"
           /\ Applied(from, Head(ops)) \in Text
           /\ Replays(Applied(from, Head(ops)), Tail(ops), to)
<1>1. PICK texts \in [0..Len(ops) -> Text] :
        /\ texts[0] = from /\ texts[Len(ops)] = to
        /\ \A i \in 1..Len(ops) :
             /\ ApplyStatus(texts[i - 1], ops[i]) = "applied"
             /\ texts[i] = Applied(texts[i - 1], ops[i])
  BY DEF Replays
<1>2. /\ Len(ops) \in Nat \ {0} /\ Len(Tail(ops)) = Len(ops) - 1
      /\ \A i \in 1..Len(Tail(ops)) : Tail(ops)[i] = ops[i + 1]
      /\ Head(ops) = ops[1]
  BY EmptySeq, HeadTailProperties
<1>3. /\ ApplyStatus(from, Head(ops)) = "applied"
      /\ texts[1] = Applied(from, Head(ops)) /\ texts[1] \in Text
  <2>1. 1 \in 1..Len(ops) /\ 1 \in 0..Len(ops) /\ 1 - 1 = 0
    BY <1>2
  <2> QED BY <2>1, <1>1, <1>2
<1> DEFINE rest == [i \in 0..Len(ops) - 1 |-> texts[i + 1]]
<1>4. /\ rest \in [0..Len(Tail(ops)) -> Text]
      /\ rest[0] = texts[1] /\ rest[Len(Tail(ops))] = to
  BY <1>1, <1>2
<1>5. ASSUME NEW i \in 1..Len(Tail(ops))
      PROVE  /\ ApplyStatus(rest[i - 1], Tail(ops)[i]) = "applied"
             /\ rest[i] = Applied(rest[i - 1], Tail(ops)[i])
  <2>1. /\ i + 1 \in 1..Len(ops) /\ (i + 1) - 1 = i
        /\ rest[i - 1] = texts[i] /\ rest[i] = texts[i + 1]
    BY <1>2
  <2> HIDE DEF rest
  <2>2. Tail(ops)[i] = ops[i + 1]
    BY <1>2
  <2> QED BY <2>1, <2>2, <1>1
<1> HIDE DEF rest
<1>6. Replays(texts[1], Tail(ops), to)
  BY <1>4, <1>5 DEF Replays
<1> QED BY <1>3, <1>6

\* One replay after another.
LEMMA ReplaysConcat ==
    ASSUME NEW ops1 \in Seq(Operation), NEW ops2 \in Seq(Operation),
           NEW from \in Text, NEW mid \in Text, NEW to \in Text,
           Replays(from, ops1, mid), Replays(mid, ops2, to)
    PROVE  Replays(from, ops1 \o ops2, to)
<1> DEFINE n == Len(ops1)
           m == Len(ops2)
<1>1. PICK t1 \in [0..n -> Text] :
        /\ t1[0] = from /\ t1[n] = mid
        /\ \A i \in 1..n : /\ ApplyStatus(t1[i - 1], ops1[i]) = "applied"
                           /\ t1[i] = Applied(t1[i - 1], ops1[i])
  BY DEF Replays
<1>2. PICK t2 \in [0..m -> Text] :
        /\ t2[0] = mid /\ t2[m] = to
        /\ \A i \in 1..m : /\ ApplyStatus(t2[i - 1], ops2[i]) = "applied"
                           /\ t2[i] = Applied(t2[i - 1], ops2[i])
  BY DEF Replays
<1>3. /\ n \in Nat /\ m \in Nat /\ Len(ops1 \o ops2) = n + m
      /\ \A i \in 1..n + m : (ops1 \o ops2)[i] = IF i <= n THEN ops1[i] ELSE ops2[i - n]
  BY ConcatProperties, LenProperties
<1> DEFINE both == [i \in 0..n + m |-> IF i <= n THEN t1[i] ELSE t2[i - n]]
<1> HIDE DEF n, m
<1>4. ASSUME NEW i \in 0..n + m
      PROVE  /\ both[i] \in Text
             /\ both[i] = IF i <= n THEN t1[i] ELSE t2[i - n]
  <2>1. CASE i <= n
    BY <2>1, <1>1, <1>3
  <2>2. CASE ~ (i <= n)
    <3>1. i - n \in 0..m
      BY <2>2, <1>3
    <3> QED BY <2>2, <3>1, <1>2
  <2> QED BY <2>1, <2>2
<1>5. both \in [0..n + m -> Text]
  BY <1>4
<1>6. both[0] = from
  BY <1>1, <1>3, <1>4
<1>7. both[n + m] = to
  <2>1. CASE m = 0
    <3>1. n + m = n /\ n <= n
      BY <2>1, <1>3
    <3>2. both[n + m] = t1[n]
      BY <3>1, <1>3
    <3> QED BY <2>1, <3>2, <1>1, <1>2
  <2>2. CASE m # 0
    <3>1. n + m \in 0..n + m /\ ~ (n + m <= n) /\ (n + m) - n = m
      BY <2>2, <1>3
    <3> QED BY <3>1, <1>2
  <2> QED BY <2>1, <2>2
<1>8. ASSUME NEW i \in 1..n + m
      PROVE  /\ ApplyStatus(both[i - 1], (ops1 \o ops2)[i]) = "applied"
             /\ both[i] = Applied(both[i - 1], (ops1 \o ops2)[i])
  <2>1. CASE i <= n
    <3>1. i \in 1..n /\ both[i] = t1[i] /\ both[i - 1] = t1[i - 1] /\ (ops1 \o ops2)[i] = ops1[i]
      BY <2>1, <1>3
    <3> HIDE DEF both
    <3> QED BY <3>1, <1>1
  <2>2. CASE ~ (i <= n)
    <3>1. i - n \in 1..m /\ both[i] = t2[i - n] /\ (ops1 \o ops2)[i] = ops2[i - n]
      BY <2>2, <1>3
    <3>2. both[i - 1] = t2[(i - n) - 1]
      <4>1. CASE i = n + 1
        <5>1. i - 1 = n /\ (i - n) - 1 = 0 /\ n <= n /\ n \in 0..n + m
          BY <4>1, <1>3
        <5>2. both[i - 1] = t1[n]
          BY <5>1
        <5> QED BY <5>1, <5>2, <1>1, <1>2
      <4>2. CASE i # n + 1
        <5>1. i - 1 \in 0..n + m /\ ~ (i - 1 <= n) /\ (i - 1) - n = (i - n) - 1
          BY <2>2, <4>2, <1>3
        <5> QED BY <5>1
      <4> QED BY <4>1, <4>2
    <3> HIDE DEF both
    <3> QED BY <3>1, <3>2, <1>2
  <2> QED BY <2>1, <2>2
<1> HIDE DEF both
<1> QED BY <1>3, <1>5, <1>6, <1>7, <1>8 DEF Replays
-----------------------------------------------------------------------------
\* ApplyInsertToContent and ApplyDeleteToContent keep a document within its limit.
LEMMA AppliedIsSeq ==
    ASSUME NEW content \in Seq(Char), NEW op \in Operation, ApplyStatus(content, op) = "applied"
    PROVE  /\ Applied(content, op) \in Seq(Char)
           /\ Len(content) <= MaxDocumentChars => Len(Applied(content, op)) <= MaxDocumentChars
<1>1. Len(content) \in Nat
  BY LenProperties
<1>2. CASE op \in InsertOperation
  <2>1. op.type = "INSERT" /\ op.pos \in Nat /\ op.text \in Seq(Char) /\ Len(op.text) \in Nat
    BY <1>2, LenProperties DEF InsertOperation
  <2>2. InsertStatus(content, op.pos, op.text) = "applied"
    BY <2>1 DEF ApplyStatus
  <2>3. op.pos <= Len(content) /\ Len(content) + Len(op.text) <= MaxDocumentChars
    BY <2>1, <2>2, <1>1, DocumentAssumption DEF InsertStatus
  <2>4. op.pos \in 0..Len(content)
    BY <1>1, <2>1, <2>3
  <2>5. /\ InsertAt(content, op.pos, op.text) \in Seq(Char)
        /\ Len(InsertAt(content, op.pos, op.text)) = Len(content) + Len(op.text)
    BY <1>1, <2>1, <2>4, InsertAtProperties
  <2>6. Applied(content, op) = InsertAt(content, op.pos, op.text)
    BY <2>1 DEF Applied
  <2> QED BY <2>3, <2>5, <2>6
<1>3. CASE op \in DeleteOperation
  <2>1. op.type = "DELETE" /\ op.pos \in Nat /\ op.len \in Nat
    BY <1>3 DEF DeleteOperation
  <2>2. DeleteStatus(content, op.pos, op.len) = "applied"
    BY <2>1 DEF ApplyStatus
  <2>3. op.pos + op.len <= Len(content)
    BY <2>1, <2>2, <1>1 DEF DeleteStatus
  <2>4. /\ RemoveAt(content, op.pos, op.len) \in Seq(Char)
        /\ Len(RemoveAt(content, op.pos, op.len)) = Len(content) - op.len
    BY <1>1, <2>1, <2>3, RemoveAtProperties
  <2>5. Applied(content, op) = RemoveAt(content, op.pos, op.len)
    BY <2>1 DEF Applied
  <2>6. Len(content) <= MaxDocumentChars => Len(content) - op.len <= MaxDocumentChars
    BY <1>1, <2>1, DocumentAssumption
  <2> QED BY <2>4, <2>5, <2>6
<1> QED BY <1>2, <1>3 DEF Operation

LEMMA AppliedIsText ==
    ASSUME NEW content \in Text, NEW op \in Operation, ApplyStatus(content, op) = "applied"
    PROVE  Applied(content, op) \in Text
BY AppliedIsSeq, TextIsSeq

\* What ComputeEditorDiff finds: the common prefix and suffix, and what is only in new.
Split(old, new, prefix, suffix, inserted) ==
    /\ Len(old) \in Nat /\ Len(new) \in Nat /\ prefix \in Nat /\ suffix \in Nat
    /\ prefix + suffix <= Len(old) /\ prefix + suffix <= Len(new)
    /\ \A i \in 1..prefix : old[i] = new[i]
    /\ \A i \in 0..suffix - 1 : old[Len(old) - i] = new[Len(new) - i]
    /\ inserted \in Seq(Char) /\ Len(inserted) = Len(new) - suffix - prefix
    /\ \A i \in 1..Len(new) - suffix - prefix : inserted[i] = new[prefix + i]

LEMMA DiffSplits ==
    ASSUME NEW old \in Seq(Char), NEW new \in Seq(Char)
    PROVE  Split(old, new, CommonPrefix(old, new), CommonSuffix(old, new),
                 SubSeq(new, CommonPrefix(old, new) + 1, Len(new) - CommonSuffix(old, new)))
<1> DEFINE prefix == CommonPrefix(old, new)
           suffix == CommonSuffix(old, new)
<1>1. Len(old) \in Nat /\ Len(new) \in Nat
  BY LenProperties
<1>2. /\ prefix \in 0..Len(old) /\ IsCommonPrefix(old, new, prefix)
  BY CommonPrefixProperties DEF LongestPrefix
<1>3. /\ suffix \in 0..Len(old) /\ IsCommonSuffix(old, new, prefix, suffix)
  BY CommonSuffixProperties DEF LongestSuffix
<1> HIDE DEF prefix, suffix
<1>4. /\ prefix \in Nat /\ suffix \in Nat
      /\ prefix + suffix <= Len(old) /\ prefix + suffix <= Len(new)
  BY <1>1, <1>2, <1>3 DEF IsCommonSuffix
<1>5. \A i \in 1..prefix : old[i] = new[i]
  BY <1>2 DEF IsCommonPrefix
<1>6. \A i \in 0..suffix - 1 : old[Len(old) - i] = new[Len(new) - i]
  BY <1>3 DEF IsCommonSuffix
<1>7. \A i \in prefix + 1..Len(new) - suffix : new[i] \in Char
  BY <1>1, <1>4, LenProperties
<1> DEFINE inserted == SubSeq(new, prefix + 1, Len(new) - suffix)
           first == prefix + 1
           last  == Len(new) - suffix
<1>8. first \in Int /\ last \in Int
  BY <1>1, <1>4
<1>9. /\ inserted \in Seq(Char)
      /\ Len(inserted) = IF first <= last THEN last - first + 1 ELSE 0
      /\ \A i \in 1..last - first + 1 : inserted[i] = new[first + i - 1]
  <2> HIDE DEF first, last
  <2>1. inserted = SubSeq(new, first, last)
    BY DEF first, last
  <2>2. \A i \in first..last : new[i] \in Char
    BY <1>7 DEF first, last
  <2> HIDE DEF inserted
  <2> QED BY <2>1, <2>2, <1>8, SubSeqProperties
<1>10. Len(inserted) = Len(new) - suffix - prefix
  <2> HIDE DEF inserted
  <2>1. IF first <= last THEN last - first + 1 = Len(new) - suffix - prefix
                         ELSE Len(new) - suffix - prefix = 0
    BY <1>1, <1>4
  <2> HIDE DEF first, last
  <2> QED BY <2>1, <1>9
<1>11. ASSUME NEW i \in 1..Len(new) - suffix - prefix
       PROVE  inserted[i] = new[prefix + i]
  <2> HIDE DEF inserted
  <2>1. i \in 1..last - first + 1 /\ first + i - 1 = prefix + i
    BY <1>1, <1>4
  <2> QED BY <2>1, <1>9
<1> HIDE DEF inserted
<1>12. Split(old, new, prefix, suffix, inserted)
  BY <1>1, <1>4, <1>5, <1>6, <1>9, <1>10, <1>11 DEF Split
<1> QED BY <1>12 DEF prefix, suffix, inserted

\* ComputeEditorDiff returns operations of the protocol.
LEMMA DiffType ==
    ASSUME NEW old \in Seq(Char), NEW new \in Seq(Char)
    PROVE  ComputeEditorDiff(old, new) \in Seq(Operation)
<1> DEFINE prefix == CommonPrefix(old, new)
           suffix == CommonSuffix(old, new)
           deleted  == Len(old) - suffix - prefix
           inserted == SubSeq(new, prefix + 1, Len(new) - suffix)
           first  == IF deleted > 0 THEN <<Delete(prefix, deleted)>> ELSE <<>>
           second == IF inserted # <<>> THEN <<Insert(prefix, inserted)>> ELSE <<>>
<1>1. prefix \in Nat /\ deleted \in Nat /\ inserted \in Seq(Char)
  <2>1. Split(old, new, prefix, suffix, inserted)
    BY DiffSplits
  <2> HIDE DEF prefix, suffix, inserted
  <2> QED BY <2>1 DEF Split
<1>2. ComputeEditorDiff(old, new) = first \o second
  BY DEF ComputeEditorDiff
<1> HIDE DEF prefix, suffix, deleted, inserted
<1>3. Delete(prefix, deleted) \in Operation /\ Insert(prefix, inserted) \in Operation
  BY <1>1 DEF Delete, Insert, Operation, DeleteOperation, InsertOperation
<1>4. first \in Seq(Operation) /\ second \in Seq(Operation)
  BY <1>3
<1> HIDE DEF first, second
<1> QED BY <1>2, <1>4, ConcatProperties

\* The text between the DELETE and the INSERT of a diff.
Deleted(old, new)  == Len(old) - CommonSuffix(old, new) - CommonPrefix(old, new)
Inserted(old, new) == SubSeq(new, CommonPrefix(old, new) + 1, Len(new) - CommonSuffix(old, new))
Middle(old, new) ==
    IF Deleted(old, new) > 0 THEN RemoveAt(old, CommonPrefix(old, new), Deleted(old, new)) ELSE old

\* The DELETE leaves the common parts, and the INSERT between them makes the new text.
LEMMA DiffMeets ==
    ASSUME NEW old \in Seq(Char), NEW new \in Seq(Char)
    PROVE  /\ Middle(old, new) \in Seq(Char)
           /\ Len(Middle(old, new)) = CommonPrefix(old, new) + CommonSuffix(old, new)
           /\ Inserted(old, new) # <<>> =>
                  InsertAt(Middle(old, new), CommonPrefix(old, new), Inserted(old, new)) = new
           /\ Inserted(old, new) = <<>> => Middle(old, new) = new
<1> DEFINE prefix == CommonPrefix(old, new)
           suffix == CommonSuffix(old, new)
           deleted  == Deleted(old, new)
           inserted == Inserted(old, new)
           mid == Middle(old, new)
<1>1. old \in Seq(Char) /\ new \in Seq(Char)
  OBVIOUS
<1>2. Split(old, new, prefix, suffix, inserted)
  BY <1>1, DiffSplits DEF Inserted
<1>3. deleted = Len(old) - suffix - prefix
      /\ mid = IF deleted > 0 THEN RemoveAt(old, prefix, deleted) ELSE old
  BY DEF Deleted, Middle
<1> HIDE DEF prefix, suffix, inserted, deleted, mid
<1> USE DEF Split
<1>4. deleted \in Nat
  BY <1>2, <1>3
<1>5. /\ mid \in Seq(Char) /\ Len(mid) = prefix + suffix
      /\ \A i \in 1..prefix : mid[i] = old[i]
      /\ \A i \in prefix + 1..prefix + suffix : mid[i] = old[i + deleted]
  <2>1. CASE deleted > 0
    <3>1. prefix + deleted <= Len(old) /\ Len(old) - deleted = prefix + suffix
      BY <1>2, <1>3, <1>4, <2>1
    <3>2. mid = RemoveAt(old, prefix, deleted)
      BY <2>1, <1>3
    <3>3. /\ RemoveAt(old, prefix, deleted) \in Seq(Char)
          /\ Len(RemoveAt(old, prefix, deleted)) = Len(old) - deleted
          /\ \A i \in 1..Len(old) - deleted :
               RemoveAt(old, prefix, deleted)[i] =
                 IF i <= prefix THEN old[i] ELSE old[i + deleted]
      <4>1. prefix \in Nat /\ deleted \in Nat
        BY <1>2, <1>4
      <4> QED BY <3>1, <4>1, <1>1, RemoveAtProperties
    <3>4. ASSUME NEW i \in 1..prefix
          PROVE  mid[i] = old[i]
      <4>1. i \in 1..Len(old) - deleted /\ i <= prefix
        BY <3>1, <1>2
      <4> QED BY <4>1, <3>2, <3>3
    <3>5. ASSUME NEW i \in prefix + 1..prefix + suffix
          PROVE  mid[i] = old[i + deleted]
      <4>1. i \in 1..Len(old) - deleted /\ ~ (i <= prefix)
        BY <3>1, <1>2
      <4> QED BY <4>1, <3>2, <3>3
    <3> QED BY <3>1, <3>2, <3>3, <3>4, <3>5
  <2>2. CASE ~ (deleted > 0)
    <3>1. deleted = 0 /\ mid = old /\ Len(old) = prefix + suffix
      BY <2>2, <1>2, <1>3, <1>4
    <3>2. \A i \in prefix + 1..prefix + suffix : i + deleted = i
      BY <3>1, <1>2
    <3> QED BY <3>1, <3>2, <1>1
  <2> QED BY <2>1, <2>2
<1>6. \A i \in prefix + 1..prefix + suffix : mid[i] = new[i + Len(inserted)]
  <2> TAKE i \in prefix + 1..prefix + suffix
  <2>1. mid[i] = old[i + deleted]
    BY <1>5
  <2> DEFINE j == prefix + suffix - i
  <2>2. j \in 0..suffix - 1 /\ i + deleted = Len(old) - j /\ i + Len(inserted) = Len(new) - j
    BY <1>2, <1>3
  <2> HIDE DEF j
  <2> QED BY <2>1, <2>2, <1>2
<1>7. ASSUME inserted # <<>> PROVE InsertAt(mid, prefix, inserted) = new
  <2>1. prefix <= Len(mid) /\ prefix \in 0..Len(mid)
        /\ Len(mid) + Len(inserted) = Len(new)
    <3>1. prefix \in Nat /\ suffix \in Nat /\ Len(inserted) = Len(new) - suffix - prefix
      BY <1>2
    <3>2. Len(new) \in Nat
      BY <1>1
    <3>3. Len(mid) = prefix + suffix
      BY <1>5
    <3> HIDE DEF Split
    <3> QED BY <3>1, <3>2, <3>3
  <2> DEFINE result == InsertAt(mid, prefix, inserted)
  <2>4. /\ result \in Seq(Char)
        /\ Len(result) = Len(mid) + Len(inserted)
        /\ \A i \in 1..Len(mid) + Len(inserted) :
             result[i] = IF i <= prefix THEN mid[i]
                         ELSE IF i <= prefix + Len(inserted) THEN inserted[i - prefix]
                         ELSE mid[i - Len(inserted)]
    <3>1. mid \in Seq(Char) /\ inserted \in Seq(Char)
      BY <1>2, <1>5
    <3> QED BY <3>1, <2>1, InsertAtProperties
  <2> HIDE DEF result
  <2>5. ASSUME NEW i \in 1..Len(new)
        PROVE  result[i] = new[i]
    <3>1. result[i] = IF i <= prefix THEN mid[i]
                      ELSE IF i <= prefix + Len(inserted) THEN inserted[i - prefix]
                      ELSE mid[i - Len(inserted)]
      BY <2>1, <2>4
    <3>2. CASE i <= prefix
      <4>1. i \in 1..prefix
        BY <3>2, <1>2
      <4> QED BY <3>1, <3>2, <4>1, <1>2, <1>5
    <3>3. CASE ~ (i <= prefix) /\ i <= prefix + Len(inserted)
      <4>1. i - prefix \in 1..Len(new) - suffix - prefix /\ prefix + (i - prefix) = i
        BY <3>3, <1>2
      <4> QED BY <3>1, <3>3, <4>1, <1>2
    <3>4. CASE ~ (i <= prefix) /\ ~ (i <= prefix + Len(inserted))
      <4>1. /\ i - Len(inserted) \in prefix + 1..prefix + suffix
            /\ (i - Len(inserted)) + Len(inserted) = i
        BY <3>4, <1>2
      <4> QED BY <3>1, <3>4, <4>1, <1>6
    <3> QED BY <3>2, <3>3, <3>4
  <2>6. result = new
    BY <1>1, <2>1, <2>4, <2>5, SeqEqual
  <2> QED BY <2>6 DEF result
<1>8. ASSUME inserted = <<>> PROVE mid = new
  <2>1. Len(inserted) = 0 /\ Len(mid) = Len(new)
    BY <1>8, <1>2, <1>5
  <2>2. ASSUME NEW i \in 1..Len(mid)
        PROVE  mid[i] = new[i]
    <3>1. CASE i <= prefix
      BY <3>1, <1>2, <1>5
    <3>2. CASE ~ (i <= prefix)
      <4>1. i \in prefix + 1..prefix + suffix /\ i + Len(inserted) = i
        BY <3>2, <2>1, <1>2, <1>5
      <4> QED BY <4>1, <1>6
    <3> QED BY <3>1, <3>2
  <2>3. mid = new
    BY <1>1, <1>5, <2>1, <2>2, SeqEqual
  <2> QED BY <2>3
<1>9. mid \in Seq(Char) /\ Len(mid) = prefix + suffix
  BY <1>5
<1> QED BY <1>7, <1>8, <1>9 DEF mid, prefix, inserted, suffix

\* The diff of two texts leads from one to the other, each operation accepted: the
\* DELETE makes room for the INSERT, and the limit is met although both texts may be full.
THEOREM DiffReplays ==
    ASSUME NEW old \in Text, NEW new \in Text
    PROVE  Replays(old, ComputeEditorDiff(old, new), new)
<1> DEFINE prefix == CommonPrefix(old, new)
           suffix == CommonSuffix(old, new)
           deleted  == Len(old) - suffix - prefix
           inserted == SubSeq(new, prefix + 1, Len(new) - suffix)
           mid == IF deleted > 0 THEN RemoveAt(old, prefix, deleted) ELSE old
           first  == IF deleted > 0 THEN <<Delete(prefix, deleted)>> ELSE <<>>
           second == IF inserted # <<>> THEN <<Insert(prefix, inserted)>> ELSE <<>>
<1>1. old \in Seq(Char) /\ new \in Seq(Char) /\ Len(old) <= MaxDocumentChars
      /\ Len(new) <= MaxDocumentChars
  BY TextIsSeq
<1>2. Split(old, new, prefix, suffix, inserted)
  BY <1>1, DiffSplits
<1>3. ComputeEditorDiff(old, new) = first \o second
  BY DEF ComputeEditorDiff
<1>4. /\ mid \in Seq(Char) /\ Len(mid) = prefix + suffix
      /\ inserted # <<>> => InsertAt(mid, prefix, inserted) = new
      /\ inserted = <<>> => mid = new
  BY <1>1, DiffMeets DEF Middle, Deleted, Inserted
<1> HIDE DEF prefix, suffix, inserted
<1> USE DEF Split
<1>5. deleted \in Nat /\ Delete(prefix, deleted) \in Operation
      /\ Insert(prefix, inserted) \in Operation
  BY <1>2 DEF Delete, Insert, Operation, DeleteOperation, InsertOperation
<1>6. mid \in Text
  BY <1>1, <1>2, <1>4, TextIsSeq, DocumentAssumption
<1>7. Replays(old, first, mid)
  <2>1. CASE deleted > 0
    <3>1. prefix + deleted <= Len(old) /\ deleted # 0
      BY <1>2, <2>1
    <3>2. /\ ApplyStatus(old, Delete(prefix, deleted)) = DeleteStatus(old, prefix, deleted)
          /\ Applied(old, Delete(prefix, deleted)) = RemoveAt(old, prefix, deleted)
      BY DEF ApplyStatus, Applied, Delete
    <3>3. DeleteStatus(old, prefix, deleted) = "applied"
      BY <3>1, <1>2 DEF DeleteStatus
    <3>4. first = <<Delete(prefix, deleted)>> /\ mid = RemoveAt(old, prefix, deleted)
      BY <2>1
    <3> HIDE DEF first, mid, deleted
    <3> QED BY <3>2, <3>3, <3>4, <1>6, ReplaysOne
  <2>2. CASE ~ (deleted > 0)
    <3>1. first = <<>> /\ mid = old
      BY <2>2
    <3> QED BY <3>1, ReplaysNothing
  <2> QED BY <2>1, <2>2
<1> HIDE DEF deleted, mid
<1>8. Replays(mid, second, new)
  <2>1. CASE inserted # <<>>
    <3>1. prefix <= Len(mid) /\ prefix \in 0..Len(mid)
          /\ Len(mid) + Len(inserted) = Len(new)
      <4>1. prefix \in Nat /\ suffix \in Nat /\ Len(inserted) = Len(new) - suffix - prefix
        BY <1>2
      <4>2. Len(new) \in Nat
        BY <1>1
      <4>3. Len(mid) = prefix + suffix
        BY <1>4
      <4> HIDE DEF Split
      <4> QED BY <4>1, <4>2, <4>3
    <3>2. /\ ApplyStatus(mid, Insert(prefix, inserted)) = InsertStatus(mid, prefix, inserted)
          /\ Applied(mid, Insert(prefix, inserted)) = InsertAt(mid, prefix, inserted)
      BY DEF ApplyStatus, Applied, Insert
    <3>3. InsertStatus(mid, prefix, inserted) = "applied"
      <4>1. ~ (prefix > Len(mid)) /\ ~ (Len(mid) + Len(inserted) > MaxDocumentChars)
        <5>1. prefix \in Nat /\ Len(mid) \in Nat
          BY <1>2, <1>4
        <5>2. Len(new) \in Nat /\ Len(new) <= MaxDocumentChars
          BY <1>1
        <5> QED BY <3>1, <5>1, <5>2, DocumentAssumption
      <4> QED BY <2>1, <4>1 DEF InsertStatus
    <3>4. InsertAt(mid, prefix, inserted) = new
      BY <2>1, <1>4
    <3>5. second = <<Insert(prefix, inserted)>>
      BY <2>1
    <3> HIDE DEF second
    <3> QED BY <3>2, <3>3, <3>4, <3>5, <1>6, ReplaysOne
  <2>2. CASE inserted = <<>>
    <3>1. mid = new
      BY <2>2, <1>4
    <3>2. second = <<>>
      BY <2>2
    <3> HIDE DEF second
    <3> QED BY <3>1, <3>2, ReplaysNothing
  <2> QED BY <2>1, <2>2
<1>9. first \in Seq(Operation) /\ second \in Seq(Operation)
  BY <1>5
<1> HIDE DEF first, second
<1> QED BY <1>3, <1>6, <1>7, <1>8, <1>9, ReplaysConcat

\* A diff of one operation leads from one text to the other, also from a text over the limit.
LEMMA DiffOfOne ==
    ASSUME NEW old \in Seq(Char), NEW new \in Text, NEW ops,
           ops = ComputeEditorDiff(old, new), Len(ops) = 1
    PROVE  ApplyStatus(old, ops[1]) = "applied" /\ Applied(old, ops[1]) = new
<1> DEFINE prefix == CommonPrefix(old, new)
           suffix == CommonSuffix(old, new)
           deleted  == Deleted(old, new)
           inserted == Inserted(old, new)
           mid      == Middle(old, new)
           d == Delete(prefix, deleted)
           i == Insert(prefix, inserted)
           first  == IF deleted > 0 THEN <<d>> ELSE <<>>
           second == IF inserted # <<>> THEN <<i>> ELSE <<>>
<1>1. new \in Seq(Char) /\ Len(new) <= MaxDocumentChars
  BY TextIsSeq
<1>2. ops = first \o second
  BY DEF ComputeEditorDiff, Deleted, Inserted
<1>3. Split(old, new, prefix, suffix, inserted) /\ deleted = Len(old) - suffix - prefix
  BY <1>1, DiffSplits DEF Inserted, Deleted
<1>4. /\ mid \in Seq(Char) /\ Len(mid) = prefix + suffix
      /\ inserted # <<>> => InsertAt(mid, prefix, inserted) = new
      /\ inserted = <<>> => mid = new
      /\ mid = IF deleted > 0 THEN RemoveAt(old, prefix, deleted) ELSE old
  BY <1>1, DiffMeets DEF Middle
<1> HIDE DEF prefix, suffix, deleted, inserted, mid
<1>5. /\ prefix \in Nat /\ deleted \in Nat /\ Len(old) \in Nat /\ Len(new) \in Nat
      /\ prefix + deleted <= Len(old)
      /\ Len(inserted) = Len(new) - suffix - prefix /\ suffix \in Nat
  BY <1>3 DEF Split
<1>6. d \in Operation /\ i \in Operation
  BY <1>3, <1>5 DEF Delete, Insert, Operation, DeleteOperation, InsertOperation, Split
<1>7. CASE deleted > 0 /\ inserted # <<>>
  <2>1. first = <<d>> /\ second = <<i>>
    BY <1>7
  <2> HIDE DEF first, second, d, i
  <2>2. <<d>> \in Seq(Operation) /\ <<i>> \in Seq(Operation) /\ Len(<<d>>) = 1 /\ Len(<<i>>) = 1
    BY <1>6
  <2>3. Len(ops) = 2
    BY <1>2, <2>1, <2>2, ConcatProperties
  <2> QED BY <2>3
<1>8. CASE deleted > 0 /\ inserted = <<>>
  <2>1. ops = <<d>>
    BY <1>2, <1>8
  <2>2. ops[1] = d /\ mid = new /\ mid = RemoveAt(old, prefix, deleted)
    BY <2>1, <1>4, <1>8
  <2>3. DeleteStatus(old, prefix, deleted) = "applied"
    BY <1>5, <1>8 DEF DeleteStatus
  <2> QED BY <2>2, <2>3 DEF ApplyStatus, Applied, Delete
<1>9. CASE ~ (deleted > 0) /\ inserted # <<>>
  <2>1. ops = <<i>>
    BY <1>2, <1>9
  <2>2. ops[1] = i /\ mid = old /\ InsertAt(old, prefix, inserted) = new
    BY <2>1, <1>4, <1>9
  <2>3. ~ (prefix > Len(old)) /\ ~ (Len(old) + Len(inserted) > MaxDocumentChars)
    BY <2>2, <1>1, <1>4, <1>5, DocumentAssumption
  <2>4. InsertStatus(old, prefix, inserted) = "applied"
    BY <2>3, <1>9 DEF InsertStatus
  <2> QED BY <2>2, <2>4 DEF ApplyStatus, Applied, Insert
<1>10. CASE ~ (deleted > 0) /\ inserted = <<>>
  BY <1>2, <1>10
<1> QED BY <1>7, <1>8, <1>9, <1>10

-----------------------------------------------------------------------------
(* A text cut into pieces, and the pieces put together. *)

\* flatten of FlattenSeq is defined: its recursion is well-founded.
LEMMA FlattenExists ==
    ASSUME NEW seqs, NEW len \in Nat
    PROVE  \E f : f = [i \in 1..len |-> IF i = 1 THEN seqs[i] ELSE f[i - 1] \o seqs[i]]
<1> DEFINE Is(f, k) == f = [i \in 1..k |-> IF i = 1 THEN seqs[i] ELSE f[i - 1] \o seqs[i]]
           T == {k \in Nat : \A f : ~ Is(f, k)}
<1>1. SUFFICES ASSUME \A f : ~ Is(f, len) PROVE FALSE
  OBVIOUS
<1>2. len \in T
  BY <1>1
<1>3. PICK k \in T : \A y \in T : k <= y
  <2> HIDE DEF T
  <2>1. T \in SUBSET Nat
    BY DEF T
  <2> QED BY <2>1, <1>2, LeastElement
<1>4. k \in Nat /\ \A f : ~ Is(f, k)
  OBVIOUS
<1>5. k # 0
  <2> DEFINE f == [i \in 1..0 |-> <<>>]
  <2>1. Is(f, 0)
    OBVIOUS
  <2> HIDE DEF f, Is
  <2> QED BY <1>4, <2>1
<1>6. PICK f : Is(f, k - 1)
  <2>1. k - 1 \in Nat /\ ~ (k <= k - 1)
    BY <1>4, <1>5
  <2>2. k - 1 \notin T
    <3> HIDE DEF T
    <3> QED BY <2>1, <1>3
  <2> QED BY <2>1, <2>2
<1> DEFINE g == [i \in 1..k |-> IF i = k THEN (IF k = 1 THEN seqs[1] ELSE f[k - 1] \o seqs[k])
                                ELSE f[i]]
<1>7. ASSUME NEW i \in 1..k
      PROVE  g[i] = IF i = 1 THEN seqs[i] ELSE g[i - 1] \o seqs[i]
  <2>1. CASE i # k
    <3>1. i \in 1..k - 1 /\ i \in 1..k /\ (i # 1 => i - 1 \in 1..k /\ i - 1 # k)
      BY <2>1, <1>4
    <3>2. g[i] = f[i] /\ (i # 1 => g[i - 1] = f[i - 1])
      BY <2>1, <3>1
    <3> HIDE DEF g
    <3>3. f[i] = IF i = 1 THEN seqs[i] ELSE f[i - 1] \o seqs[i]
      BY <3>1, <1>6
    <3> QED BY <3>2, <3>3
  <2>2. CASE i = k
    <3>1. k \in 1..k /\ (k # 1 => k - 1 \in 1..k /\ k - 1 # k)
      BY <1>4, <1>5
    <3>2. g[k] = (IF k = 1 THEN seqs[1] ELSE f[k - 1] \o seqs[k]) /\ (k # 1 => g[k - 1] = f[k - 1])
      BY <3>1
    <3> HIDE DEF g
    <3> QED BY <2>2, <3>2
  <2> QED BY <2>1, <2>2
<1>8. g = [i \in 1..k |-> g[i]]
  OBVIOUS
<1> HIDE DEF g
<1>9. Is(g, k)
  BY <1>7, <1>8
<1> HIDE DEF Is
<1> QED BY <1>4, <1>9

\* What flatten of FlattenSeq computes, step by step.
FlattenFun(seqs, len) ==
    CHOOSE f : f = [i \in 1..len |-> IF i = 1 THEN seqs[i] ELSE f[i - 1] \o seqs[i]]

LEMMA FlattenSteps ==
    ASSUME NEW seqs, NEW len \in Nat \ {0}
    PROVE  /\ FlattenFun(seqs, len)[1] = seqs[1]
           /\ \A i \in 2..len : FlattenFun(seqs, len)[i] = FlattenFun(seqs, len)[i - 1] \o seqs[i]
<1> DEFINE f == FlattenFun(seqs, len)
<1>1. f = [i \in 1..len |-> IF i = 1 THEN seqs[i] ELSE f[i - 1] \o seqs[i]]
  BY FlattenExists DEF FlattenFun
<1> HIDE DEF f
<1>2. f[1] = seqs[1]
  <2>1. 1 \in 1..len
    OBVIOUS
  <2> QED BY <2>1, <1>1
<1>3. ASSUME NEW i \in 2..len PROVE f[i] = f[i - 1] \o seqs[i]
  <2>1. i \in 1..len /\ i # 1
    OBVIOUS
  <2> QED BY <2>1, <1>1
<1> QED BY <1>2, <1>3 DEF f

\* Texts put together are a text.
LEMMA FlattenType ==
    ASSUME NEW S, NEW seqs, NEW len \in Nat \ {0}, NEW f, \A k \in 1..len : seqs[k] \in Seq(S),
           f[1] = seqs[1], \A i \in 2..len : f[i] = f[i - 1] \o seqs[i]
    PROVE  f[len] \in Seq(S)
<1> DEFINE T == {n \in 1..len : f[n] \notin Seq(S)}
<1>1. T = {}
  <2>1. SUFFICES ASSUME T # {} PROVE FALSE
    OBVIOUS
  <2>2. PICK k \in T : \A y \in T : k <= y
    <3>1. T \in SUBSET Nat
      OBVIOUS
    <3> HIDE DEF T
    <3> QED BY <3>1, <2>1, LeastElement
  <2>3. k \in 1..len /\ f[k] \notin Seq(S) /\ seqs[k] \in Seq(S)
    OBVIOUS
  <2>4. k # 1
    BY <2>3
  <2>5. k - 1 \in 1..len /\ ~ (k <= k - 1) /\ k \in 2..len
    BY <2>3, <2>4
  <2>6. f[k - 1] \in Seq(S)
    BY <2>2, <2>5
  <2>7. f[k - 1] \o seqs[k] \in Seq(S)
    BY <2>3, <2>6, ConcatProperties
  <2> QED BY <2>3, <2>5, <2>7
<1> QED BY <1>1

\* SendSyncResponse and chunkText: how many pieces there are, and what is in each.
PieceCount(text, size) == IF text = <<>> THEN 1 ELSE (Len(text) + size - 1) \div size
PieceEnd(text, size, k) == IF k < PieceCount(text, size) THEN k * size ELSE Len(text)
Piece(text, size, k) == SubSeq(text, (k - 1) * size + 1, PieceEnd(text, size, k))

\* Every piece begins within the text and the last one ends with it.
LEMMA PieceCountProperties ==
    ASSUME NEW text \in Seq(Char), NEW size \in Nat \ {0}
    PROVE  /\ PieceCount(text, size) \in Nat \ {0}
           /\ \A k \in 1..PieceCount(text, size) - 1 : k * size <= Len(text)
<1> DEFINE c == size
           L == Len(text)
           q == (L + c - 1) \div c
<1>1. CASE text = <<>>
  BY <1>1 DEF PieceCount
<1>2. CASE text # <<>>
  <2>1. L \in Nat \ {0} /\ c \in Nat \ {0}
    BY <1>2, EmptySeq, LenProperties
  <2>2. PieceCount(text, size) = q
    BY <1>2 DEF PieceCount
  <2> HIDE DEF c, L
  <2>3. L + c - 1 = c * q + ((L + c - 1) % c) /\ (L + c - 1) % c \in 0..c - 1 /\ q \in Int
    BY <2>1
  <2> HIDE DEF q
  <2>4. c * q >= L /\ c * q <= L + c - 1
    BY <2>1, <2>3
  <2>5. q > 0
    <3>1. q <= 0 => c * q <= 0
      BY <2>1, <2>3
    <3> QED BY <2>1, <2>3, <2>4, <3>1
  <2>6. ASSUME NEW k \in 1..q - 1 PROVE k * c <= L
    <3>1. k + 1 <= q /\ k \in Nat
      BY <2>3
    <3>2. c * (k + 1) <= c * q
      BY <3>1, <2>1, <2>3
    <3>3. c * (k + 1) = k * c + c /\ k * c \in Nat
      BY <3>1, <2>1
    <3>4. c * q \in Int
      BY <2>1, <2>3
    <3> DEFINE x == k * c
               y == c * q
    <3>5. x + c <= y /\ y <= L + c - 1 /\ x \in Nat /\ y \in Int
      BY <3>2, <3>3, <3>4, <2>4
    <3> HIDE DEF x, y
    <3>6. x <= L
      BY <3>5, <2>1
    <3> QED BY <3>6 DEF x
  <2> QED BY <2>2, <2>3, <2>5, <2>6 DEF c, L
<1> QED BY <1>1, <1>2

\* A piece is a text.
LEMMA PieceType ==
    ASSUME NEW text \in Seq(Char), NEW size \in Nat \ {0}, NEW k \in 1..PieceCount(text, size)
    PROVE  Piece(text, size, k) \in Seq(Char)
<1> DEFINE c == size
           first == (k - 1) * c + 1
           last  == PieceEnd(text, size, k)
<1>1. c \in Nat \ {0} /\ Len(text) \in Nat /\ PieceCount(text, size) \in Nat /\ k \in Nat /\ k - 1 \in Nat
  BY PieceCountProperties, LenProperties
<1>2. first \in Nat \ {0} /\ last \in Nat /\ last <= Len(text)
  <2>1. k < PieceCount(text, size) => k * c <= Len(text)
    <3>1. k < PieceCount(text, size) => k \in 1..PieceCount(text, size) - 1
      BY <1>1
    <3> QED BY <3>1, PieceCountProperties
  <2>2. (k - 1) * c \in Nat /\ k * c \in Nat
    BY <1>1
  <2>3. first \in Nat \ {0}
    <3> DEFINE x == (k - 1) * c
    <3>1. x \in Nat
      BY <2>2
    <3> HIDE DEF x, c
    <3>2. x + 1 \in Nat \ {0}
      BY <3>1
    <3> QED BY <3>2 DEF x
  <2> QED BY <2>1, <2>2, <2>3, <1>1 DEF PieceEnd
<1>3. Piece(text, size, k) = SubSeq(text, first, last)
  BY DEF Piece
<1> HIDE DEF first, last
<1> QED BY <1>2, <1>3, RangeSubSeq

\* The pieces of a text put together are the text, wherever it was cut.
LEMMA PiecesJoin ==
    ASSUME NEW text \in Seq(Char), NEW size \in Nat \ {0}, NEW f,
           f[1] = Piece(text, size, 1),
           \A i \in 2..PieceCount(text, size) : f[i] = f[i - 1] \o Piece(text, size, i)
    PROVE  f[PieceCount(text, size)] = text
<1> DEFINE count == PieceCount(text, size)
           c     == size
           L     == Len(text)
           End(n) == PieceEnd(text, size, n)
           seqs  == [k \in 1..count |-> Piece(text, size, k)]
<1>1. /\ L \in Nat /\ c \in Nat \ {0} /\ count \in Nat \ {0}
      /\ \A k \in 1..count - 1 : k * c <= L
  BY LenProperties, PieceCountProperties
<1>4. /\ f[1] = seqs[1]
      /\ \A i \in 2..count : f[i] = f[i - 1] \o seqs[i]
  <2>1. 1 \in 1..count /\ \A i \in 2..count : i \in 1..count
    BY <1>1
  <2>2. \A i \in 1..count : seqs[i] = Piece(text, size, i)
    OBVIOUS
  <2> HIDE DEF seqs
  <2> QED BY <2>1, <2>2
<1>5. \A k \in 1..count : seqs[k] = SubSeq(text, (k - 1) * c + 1, End(k))
  BY DEF Piece
<1> HIDE DEF seqs
<1>6. \A n \in 1..count : End(n) \in 0..L /\ (n # count => End(n) = n * c)
  <2> TAKE n \in 1..count
  <2>1. n \in Nat /\ n * c \in Nat /\ (n < count => n \in 1..count - 1) /\ (n # count => n < count)
    BY <1>1
  <2> QED BY <2>1, <1>1 DEF PieceEnd
<1> HIDE DEF End
<1> DEFINE T == {n \in 1..count : f[n] # SubSeq(text, 1, End(n))}
<1>7. T = {}
  <2>1. SUFFICES ASSUME T # {} PROVE FALSE
    OBVIOUS
  <2>2. PICK k \in T : \A y \in T : k <= y
    <3>1. T \in SUBSET Nat
      BY <1>1
    <3> HIDE DEF T
    <3> QED BY <3>1, <2>1, LeastElement
  <2>3. k \in 1..count /\ f[k] # SubSeq(text, 1, End(k))
    OBVIOUS
  <2>4. k # 1
    <3>1. (1 - 1) * c + 1 = 1 /\ 1 \in 1..count
      BY <1>1
    <3>2. f[1] = SubSeq(text, 1, End(1))
      BY <3>1, <1>4, <1>5
    <3> QED BY <3>2, <2>3
  <2>5. k - 1 \in 1..count /\ ~ (k <= k - 1) /\ k \in 2..count /\ k - 1 # count
    BY <2>3, <2>4, <1>1
  <2>6. f[k - 1] = SubSeq(text, 1, End(k - 1))
    BY <2>2, <2>5
  <2>7. End(k - 1) = (k - 1) * c /\ End(k - 1) \in 0..L
    BY <2>5, <1>6
  <2>8. seqs[k] = SubSeq(text, End(k - 1) + 1, End(k))
    BY <2>3, <2>7, <1>5
  <2>9. End(k) \in End(k - 1)..L
    <3>1. CASE k = count
      <4>1. End(k) = L
        BY <3>1, <1>1 DEF End, PieceEnd
      <4> QED BY <4>1, <2>7, <1>1
    <3>2. CASE k # count
      <4>1. End(k) = k * c /\ End(k) \in 0..L /\ k * c = (k - 1) * c + c
        BY <3>2, <2>3, <1>1, <1>6
      <4> DEFINE x == (k - 1) * c
      <4>2. End(k) = x + c /\ End(k - 1) = x /\ x \in 0..L
        BY <4>1, <2>7
      <4> HIDE DEF x, c
      <4>3. x \in Nat /\ x + c \in x..L
        BY <4>1, <4>2, <1>1
      <4> QED BY <4>2, <4>3
    <3> QED BY <3>1, <3>2
  <2>10. SubSeq(text, 1, End(k - 1)) \o SubSeq(text, End(k - 1) + 1, End(k)) = SubSeq(text, 1, End(k))
    <3> DEFINE m == End(k - 1)
               n == End(k)
    <3>1. m \in 0..L /\ n \in m..L
      BY <2>7, <2>9
    <3> HIDE DEF m, n
    <3>2. 1 \in 1..L + 1 /\ m \in 1 - 1..L /\ n \in m..L
      BY <3>1, <1>1
    <3>3. SubSeq(text, 1, m) \o SubSeq(text, m + 1, n) = SubSeq(text, 1, n)
      BY <3>2, ConcatAdjacentSubSeq
    <3> QED BY <3>3 DEF m, n
  <2> QED BY <2>3, <2>5, <2>6, <2>8, <2>10, <1>4
<1>8. count \in 1..count /\ End(count) = L
  BY <1>1 DEF End, PieceEnd
<1>9. f[count] = SubSeq(text, 1, L)
  BY <1>7, <1>8
<1> QED BY <1>9, SubSeqFull
=============================================================================
