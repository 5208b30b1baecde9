-------------------------- MODULE SyncSessionProofs --------------------------
(***************************************************************************)
(* What SyncSession promises for every alphabet, every document, chunk and *)
(* insert size, any number of edits and of broken connections, and users   *)
(* that type at the same time as well as in turn.                          *)
(*                                                                         *)
(* The last two theorems are about what the windows show.  They hold for   *)
(* users who take turns, and for changes the server does not refuse for    *)
(* their length (HostChangesFit, GuestChangesFit).                         *)
(***************************************************************************)
EXTENDS SyncSession, EditorDiffProofs

-----------------------------------------------------------------------------
(* The chunks of a full synchronisation put together are a text. *)

\* merged of Merged is defined: its recursion is well-founded.
LEMMA MergedExists ==
    ASSUME NEW parts, NEW len \in Nat
    PROVE  \E f : f = [n \in 0..len |-> IF n = 0 THEN <<>> ELSE f[n - 1] \o parts[n][1]]
<1> DEFINE Is(f, k) == f = [n \in 0..k |-> IF n = 0 THEN <<>> ELSE f[n - 1] \o parts[n][1]]
           T == {k \in Nat : \A f : ~ Is(f, k)}
<1>1. SUFFICES ASSUME \A f : ~ Is(f, len) PROVE FALSE
  OBVIOUS
<1>2. len \in T
  BY <1>1
<1>3. PICK k \in T : \A y \in T : k <= y
  <2> HIDE DEF T
  <2>1. T \in SUBSET Nat
    BY DEF T
  <2> QED BY <2>1, <1>2, LeastElement
<1>4. k \in Nat /\ \A f : ~ Is(f, k)
  OBVIOUS
<1>5. k # 0
  <2> DEFINE f == [n \in 0..0 |-> <<>>]
  <2>1. Is(f, 0)
    OBVIOUS
  <2> HIDE DEF f, Is
  <2> QED BY <1>4, <2>1
<1>6. PICK f : Is(f, k - 1)
  <2>1. k - 1 \in Nat /\ ~ (k <= k - 1)
    BY <1>4, <1>5
  <2>2. k - 1 \notin T
    <3> HIDE DEF T
    <3> QED BY <2>1, <1>3
  <2> QED BY <2>1, <2>2
<1> DEFINE g == [n \in 0..k |-> IF n = k THEN f[k - 1] \o parts[k][1] ELSE f[n]]
<1>7. ASSUME NEW n \in 0..k
      PROVE  g[n] = IF n = 0 THEN <<>> ELSE g[n - 1] \o parts[n][1]
  <2>1. CASE n = 0
    BY <2>1, <1>4, <1>5, <1>6
  <2>2. CASE n # 0 /\ n # k
    <3>1. n \in 0..k - 1 /\ n - 1 \in 0..k /\ n - 1 # k
      BY <2>2, <1>4
    <3>2. g[n] = f[n] /\ g[n - 1] = f[n - 1]
      BY <2>2, <3>1
    <3> HIDE DEF g
    <3>3. f[n] = IF n = 0 THEN <<>> ELSE f[n - 1] \o parts[n][1]
      BY <3>1, <1>6
    <3> QED BY <2>2, <3>2, <3>3
  <2>3. CASE n = k
    <3>1. k - 1 \in 0..k /\ k - 1 # k /\ n # 0 /\ k \in 0..k
      BY <1>4, <1>5, <2>3
    <3>2. g[k] = f[k - 1] \o parts[k][1] /\ g[k - 1] = f[k - 1]
      BY <3>1
    <3> HIDE DEF g
    <3> QED BY <2>3, <3>1, <3>2
  <2> QED BY <2>1, <2>2, <2>3
<1>8. g = [n \in 0..k |-> g[n]]
  OBVIOUS
<1> HIDE DEF g
<1>9. Is(g, k)
  BY <1>7, <1>8
<1> HIDE DEF Is
<1> QED BY <1>4, <1>9

LEMMA MergedType ==
    ASSUME NEW chunks \in [rev : Nat, parts : Seq(Seq(Seq(Char)))], Complete(chunks)
    PROVE  Merged(chunks) \in Seq(Char)
<1> DEFINE parts == chunks.parts
           len   == Len(chunks.parts)
<1>1. parts \in Seq(Seq(Seq(Char))) /\ len \in Nat
  BY LenProperties
<1>2. ASSUME NEW n \in 1..len
      PROVE  parts[n][1] \in Seq(Char)
  <2>1. parts[n] \in Seq(Seq(Char)) /\ parts[n] # <<>>
    BY <1>1, LenProperties DEF Complete
  <2>2. Len(parts[n]) \in Nat \ {0}
    BY <2>1, EmptySeq
  <2>3. 1 \in 1..Len(parts[n])
    BY <2>2
  <2> QED BY <2>1, <2>3, LenProperties
<1> DEFINE merged == CHOOSE f :
             f = [n \in 0..len |-> IF n = 0 THEN <<>> ELSE f[n - 1] \o parts[n][1]]
<1>3. Merged(chunks) = merged[len]
  BY DEF Merged
<1>4. merged = [n \in 0..len |-> IF n = 0 THEN <<>> ELSE merged[n - 1] \o parts[n][1]]
  <2> HIDE DEF parts, len
  <2>1. \E f : f = [n \in 0..len |-> IF n = 0 THEN <<>> ELSE f[n - 1] \o parts[n][1]]
    BY <1>1, MergedExists
  <2> QED BY <2>1
<1> HIDE DEF merged, parts, len
<1> DEFINE T == {n \in 0..len : merged[n] \notin Seq(Char)}
<1>5. T = {}
  <2>1. SUFFICES ASSUME T # {} PROVE FALSE
    OBVIOUS
  <2>2. PICK k \in T : \A y \in T : k <= y
    <3>1. T \in SUBSET Nat
      BY <1>1
    <3> HIDE DEF T
    <3> QED BY <3>1, <2>1, LeastElement
  <2>3. k \in 0..len /\ merged[k] \notin Seq(Char)
    OBVIOUS
  <2>4. merged[k] = IF k = 0 THEN <<>> ELSE merged[k - 1] \o parts[k][1]
    BY <2>3, <1>4
  <2>5. k # 0
    BY <2>3, <2>4
  <2>6. k - 1 \in 0..len /\ ~ (k <= k - 1) /\ k \in 1..len
    BY <2>3, <2>5, <1>1
  <2>7. merged[k - 1] \in Seq(Char)
    BY <2>2, <2>6
  <2>8. merged[k - 1] \o parts[k][1] \in Seq(Char)
    BY <2>6, <2>7, <1>2, ConcatProperties
  <2> QED BY <2>3, <2>4, <2>5, <2>8
<1>6. len \in 0..len
  BY <1>1
<1> QED BY <1>3, <1>5, <1>6

\* The chunks of a document are numbered from 0 to its ChunkCount, and the last one
\* reaches its end.
LEMMA ChunksCover ==
    ASSUME NEW text \in Text
    PROVE  /\ ChunkCount(text) \in Nat \ {0}
           /\ ChunkCount(text) * SyncChunkChars >= Len(text)
<1>1. text \in Seq(Char) /\ Len(text) \in Nat /\ SyncChunkChars \in Nat \ {0}
  BY TextIsSeq, LenProperties, SessionAssumption
<1>2. CASE text = <<>>
  BY <1>1, <1>2 DEF ChunkCount
<1>3. CASE text # <<>>
  <2> DEFINE c == SyncChunkChars
             L == Len(text)
             q == (L + c - 1) \div c
  <2>1. L \in Nat \ {0} /\ c \in Nat \ {0}
    BY <1>1, <1>3, EmptySeq
  <2>2. ChunkCount(text) = q
    BY <1>3 DEF ChunkCount
  <2> HIDE DEF c, L
  <2>3. L + c - 1 = c * q + ((L + c - 1) % c) /\ (L + c - 1) % c \in 0..c - 1 /\ q \in Int
    BY <2>1
  <2> HIDE DEF q
  <2>4. c * q >= L
    BY <2>1, <2>3
  <2>5. q > 0
    <3>1. q <= 0 => c * q <= 0
      BY <2>1, <2>3
    <3> QED BY <2>1, <2>3, <2>4, <3>1
  <2>6. q * c >= L /\ q \in Nat \ {0}
    BY <2>1, <2>3, <2>4, <2>5
  <2> QED BY <2>2, <2>6 DEF c, L
<1> QED BY <1>2, <1>3

\* The chunks of a document put together are the document, however it was cut.
LEMMA MergedChunks ==
    ASSUME NEW text \in Text, NEW chunks,
           Len(chunks.parts) = ChunkCount(text),
           \A i \in 1..ChunkCount(text) : chunks.parts[i] = <<Chunk(text, i - 1)>>
    PROVE  Merged(chunks) = text
<1> DEFINE parts == chunks.parts
           count == ChunkCount(text)
           L     == Len(text)
           c     == SyncChunkChars
           End(n) == IF n * c < L THEN n * c ELSE L
<1>1. /\ text \in Seq(Char) /\ L \in Nat /\ c \in Nat \ {0} /\ count \in Nat \ {0}
      /\ count * c >= L
  BY TextIsSeq, LenProperties, SessionAssumption, ChunksCover
<1> DEFINE merged == CHOOSE f :
             f = [n \in 0..count |-> IF n = 0 THEN <<>> ELSE f[n - 1] \o parts[n][1]]
<1>2. Merged(chunks) = merged[count]
  BY DEF Merged
<1>3. merged = [n \in 0..count |-> IF n = 0 THEN <<>> ELSE merged[n - 1] \o parts[n][1]]
  <2> HIDE DEF parts, count
  <2>1. \E f : f = [n \in 0..count |-> IF n = 0 THEN <<>> ELSE f[n - 1] \o parts[n][1]]
    BY <1>1, MergedExists
  <2> QED BY <2>1
<1>4. ASSUME NEW n \in 1..count
      PROVE  parts[n][1] = SubSeq(text, (n - 1) * c + 1, End(n))
  <2>1. n \in Int /\ n - 1 + 1 = n
    BY <1>1
  <2>2. parts[n] = <<Chunk(text, n - 1)>>
    OBVIOUS
  <2>3. Chunk(text, n - 1) = SubSeq(text, (n - 1) * c + 1, End(n))
    BY <2>1 DEF Chunk, ChunkEnd
  <2> QED BY <2>2, <2>3
<1> HIDE DEF merged, parts, count
<1>5. \A n \in 0..count : n * c \in Nat /\ End(n) \in 0..L
  BY <1>1
<1>6. ASSUME NEW n \in 1..count
      PROVE  SubSeq(text, 1, End(n - 1)) \o SubSeq(text, (n - 1) * c + 1, End(n))
                = SubSeq(text, 1, End(n))
  <2>0. n \in Nat /\ n - 1 \in 0..count /\ n \in 0..count /\ n * c = (n - 1) * c + c
    BY <1>1
  <2>1. CASE (n - 1) * c < L
    <3>1. End(n - 1) = (n - 1) * c /\ End(n - 1) \in 0..L /\ End(n) \in End(n - 1)..L
      BY <2>0, <2>1, <1>1, <1>5
    <3> HIDE DEF End, c, L
    <3>2. SubSeq(text, 1, End(n - 1)) \o SubSeq(text, End(n - 1) + 1, End(n))
             = SubSeq(text, 1, End(n))
      <4>1. 1 \in 1..L + 1 /\ End(n - 1) \in 1 - 1..L
        BY <3>1, <1>1
      <4> QED BY <3>1, <4>1, <1>1, ConcatAdjacentSubSeq DEF L
    <3> QED BY <3>1, <3>2
  <2>2. CASE ~ ((n - 1) * c < L)
    <3>1. End(n - 1) = L /\ End(n) = L /\ (n - 1) * c \in Nat
      BY <2>0, <2>2, <1>1, <1>5
    <3>2. SubSeq(text, (n - 1) * c + 1, L) = <<>>
      <4> DEFINE start == (n - 1) * c
      <4>1. start \in Nat /\ ~ (start < L)
        BY <3>1, <2>2
      <4> HIDE DEF start, c, L
      <4>2. start + 1 \in Int /\ L < start + 1
        BY <4>1, <1>1
      <4>3. SubSeq(text, start + 1, L) = <<>>
        BY <4>2, <1>1, SubSeqEmpty
      <4> QED BY <4>3 DEF start
    <3>3. SubSeq(text, 1, L) = text
      BY <1>1, SubSeqFull
    <3> HIDE DEF End, c, L
    <3>4. text \o <<>> = text
      BY <1>1, ConcatEmptySeq
    <3> QED BY <3>1, <3>2, <3>3, <3>4
  <2> QED BY <2>1, <2>2
<1>7. SubSeq(text, 1, End(0)) = <<>>
  <2>1. 0 * c = 0 /\ End(0) = 0
    BY <1>1
  <2> HIDE DEF End, c, L
  <2> QED BY <2>1, <1>1, SubSeqEmpty
<1> HIDE DEF End
<1> DEFINE T == {n \in 0..count : merged[n] # SubSeq(text, 1, End(n))}
<1>8. T = {}
  <2>1. SUFFICES ASSUME T # {} PROVE FALSE
    OBVIOUS
  <2>2. PICK k \in T : \A y \in T : k <= y
    <3>1. T \in SUBSET Nat
      BY <1>1
    <3> HIDE DEF T
    <3> QED BY <3>1, <2>1, LeastElement
  <2>3. k \in 0..count /\ merged[k] # SubSeq(text, 1, End(k))
    OBVIOUS
  <2>4. merged[k] = IF k = 0 THEN <<>> ELSE merged[k - 1] \o parts[k][1]
    BY <2>3, <1>3
  <2>5. k # 0
    BY <2>3, <2>4, <1>7
  <2>6. k - 1 \in 0..count /\ ~ (k <= k - 1) /\ k \in 1..count
    BY <2>3, <2>5, <1>1
  <2>7. merged[k - 1] = SubSeq(text, 1, End(k - 1))
    BY <2>2, <2>6
  <2>8. merged[k] = SubSeq(text, 1, End(k - 1)) \o SubSeq(text, (k - 1) * c + 1, End(k))
    BY <2>4, <2>5, <2>6, <2>7, <1>4
  <2> QED BY <2>3, <2>6, <2>8, <1>6
<1>9. merged[count] = SubSeq(text, 1, End(count))
  BY <1>1, <1>8
<1>10. End(count) = L
  BY <1>1 DEF End
<1> QED BY <1>1, <1>2, <1>9, <1>10, SubSeqFull
-----------------------------------------------------------------------------
(* The inductive invariant. *)

\* What a thread is about to send is there, and a host that is about to broadcast has
\* not yet counted the revision it committed.
PcOK ==
    /\ hostPc = "broadcast" => hostApply \in ApplyMessage /\ hostRev < hostApply.rev
    /\ sessionPc \in {"push", "sendApply"} => sessionApply \in ApplyMessage
    /\ sessionPc = "chunks" => snapshot \in Snapshot

\* No window, no copy of the document and no chunk is ahead of the server.
RevsOK ==
    /\ WindowsNeverAhead
    /\ \A m \in Range(toGuest) \cup Range(backlog) :
         m.type = "SYNC_RESPONSE" => m.rev <= revision
    /\ snapshot \in Snapshot => snapshot.rev <= revision

IInv ==
    /\ TypeOK
    /\ PcOK
    /\ RevsOK
    /\ LogExplainsDocument
    /\ AppliesMatchLog

LEMMA NoTextIsText == <<>> \in Text
<1>1. <<>> \in Seq(Char) /\ Len(<<>>) = 0
  OBVIOUS
<1>2. Len(<<>>) <= MaxDocumentChars
  BY <1>1, DocumentAssumption
<1> QED BY <1>1, <1>2, TextIsSeq

LEMMA InitEstablishes == Init => IInv
<1> SUFFICES ASSUME Init PROVE IInv
  OBVIOUS
<1>1. document \in Text /\ <<>> \in Text /\ guestText \in Seq(Char)
  <2>1. document \in Text /\ guestText \in Text
    BY SessionAssumption DEF Init
  <2> QED BY <2>1, TextIsSeq, NoTextIsText
<1>2. TypeOK
  <2>1. [rev |-> 0, parts |-> <<>>] \in [rev : Nat, parts : Seq(Seq(Seq(Char)))]
    OBVIOUS
  <2>2. <<document>> \in Seq(Text)
    BY <1>1
  <2>3. sessionApply \in ApplyMessage \cup {NoApply} /\ snapshot \in Snapshot \cup {NoSnapshot}
        /\ hostApply \in ApplyMessage \cup {NoApply}
    BY DEF Init
  <2>4. /\ serverEvents \in Seq(ApplyMessage) /\ hostOps \in Seq(Operation)
        /\ backlog \in Seq(ServerMessage) /\ toGuest \in Seq(ServerMessage)
        /\ toServer \in Seq(ClientMessage) /\ committed \in Seq(ApplyMessage)
        /\ history \in Seq(Text)
    BY <2>2 DEF Init
  <2>5. guestChunks \in [rev : Nat, parts : Seq(Seq(Seq(Char)))]
    BY <2>1 DEF Init, NoChunks
  <2> QED BY <1>1, <2>3, <2>4, <2>5 DEF Init, TypeOK
<1>3. PcOK
  BY DEF Init, PcOK
<1>4. RevsOK
  BY RangeEmpty DEF Init, RevsOK, WindowsNeverAhead, NoSnapshot, Snapshot
<1>5. LogExplainsDocument
  BY <1>1 DEF Init, LogExplainsDocument
<1>6. AppliesMatchLog
  BY RangeEmpty DEF Init, AppliesMatchLog, AppliesUnderWay, NoApply
<1> QED BY <1>2, <1>3, <1>4, <1>5, <1>6 DEF IInv

\* A step that commits nothing and sends no APPLY that was not under way keeps the log.
LEMMA LogKept ==
    ASSUME LogExplainsDocument, AppliesMatchLog,
           UNCHANGED <<document, revision, committed, history>>,
           \A m \in AppliesUnderWay' : m \in AppliesUnderWay
    PROVE  LogExplainsDocument' /\ AppliesMatchLog'
<1>1. document' = document /\ revision' = revision /\ committed' = committed /\ history' = history
  OBVIOUS
<1>2. LogExplainsDocument'
  BY <1>1 DEF LogExplainsDocument
<1>3. AppliesMatchLog'
  BY <1>1 DEF AppliesMatchLog
<1> QED BY <1>2, <1>3

\* The messages under way stay what they are.
QueuesUnchanged ==
    UNCHANGED <<hostApply, sessionApply, serverEvents, toGuest, backlog>>

LEMMA QuietKept ==
    ASSUME IInv, QueuesUnchanged, UNCHANGED <<document, revision, committed, history>>,
           TypeOK', PcOK', WindowsNeverAhead', snapshot' \in Snapshot => snapshot'.rev <= revision
    PROVE  IInv'
<1>1. AppliesUnderWay' = AppliesUnderWay
  BY DEF QueuesUnchanged, AppliesUnderWay
<1>2. LogExplainsDocument' /\ AppliesMatchLog'
  BY <1>1, LogKept DEF IInv
<1>3. RevsOK'
  BY DEF RevsOK, QueuesUnchanged, IInv
<1> QED BY <1>2, <1>3 DEF IInv

\* What ApplyMessageToDocument does once its checks passed: the log stays an explanation
\* of the document, the APPLYs under way stay true, and one more becomes so.
LEMMA CommitFacts ==
    ASSUME IInv, NEW client \in {"A", "B"}, NEW op \in Operation,
           ServerStatus(op) = "applied", Commit(client, op),
           \A m \in AppliesUnderWay' : m \in AppliesUnderWay \/ m = CommitMessage(client, op)
    PROVE  /\ document' \in Text /\ revision' = revision + 1 /\ revision \in Nat
           /\ committed' \in Seq(ApplyMessage) /\ history' \in Seq(Text)
           /\ CommitMessage(client, op) \in ApplyMessage
           /\ CommitMessage(client, op).rev = revision + 1
           /\ LogExplainsDocument' /\ AppliesMatchLog' /\ unsent' = unsent
<1> DEFINE message == CommitMessage(client, op)
<1>1. /\ document \in Text /\ revision \in Nat
      /\ committed \in Seq(ApplyMessage) /\ history \in Seq(Text)
  BY DEF IInv, TypeOK
<1>2. ApplyStatus(document, op) = "applied"
  BY DEF ServerStatus
<1>3. Applied(document, op) \in Text
  BY <1>1, <1>2, AppliedIsText
<1>4. /\ document' = Applied(document, op) /\ revision' = revision + 1
      /\ committed' = Append(committed, message)
      /\ history' = Append(history, document')
  BY DEF Commit
<1>5. message \in ApplyMessage /\ message.rev = revision + 1 /\ message.op = op
  BY <1>1 DEF CommitMessage, ApplyMessage
<1> HIDE DEF message
<1>6. /\ revision = Len(committed) /\ Len(history) = revision + 1
      /\ history[revision + 1] = document
      /\ \A r \in 1..revision :
           /\ committed[r].rev = r
           /\ history[r + 1] = Applied(history[r], committed[r].op)
  BY DEF IInv, LogExplainsDocument
<1>7. /\ committed' \in Seq(ApplyMessage) /\ Len(committed') = revision + 1
      /\ \A r \in 1..revision : committed'[r] = committed[r]
      /\ committed'[revision + 1] = message
  BY <1>1, <1>4, <1>5, <1>6, AppendProperties
<1>8. /\ history' \in Seq(Text) /\ Len(history') = revision + 2
      /\ \A r \in 1..revision + 1 : history'[r] = history[r]
      /\ history'[revision + 2] = document'
  <2>1. document' \in Text
    BY <1>3, <1>4
  <2>2. /\ Append(history, document') \in Seq(Text)
        /\ Len(Append(history, document')) = Len(history) + 1
        /\ \A r \in 1..Len(history) : Append(history, document')[r] = history[r]
        /\ Append(history, document')[Len(history) + 1] = document'
    BY <1>1, <2>1, AppendProperties
  <2>3. Len(history) + 1 = revision + 2
    BY <1>1, <1>6
  <2> QED BY <1>4, <1>6, <2>2, <2>3
<1>9. ASSUME NEW r \in 1..revision + 1
      PROVE  /\ committed'[r].rev = r
             /\ history'[r + 1] = Applied(history'[r], committed'[r].op)
  <2>1. CASE r = revision + 1
    <3>1. r + 1 = revision + 2 /\ r \in 1..revision + 1
      BY <2>1, <1>1
    <3>2. history'[r] = document /\ history'[r + 1] = document'
      BY <2>1, <3>1, <1>6, <1>8
    <3> QED BY <2>1, <3>2, <1>4, <1>5, <1>7
  <2>2. CASE r # revision + 1
    <3>1. r \in 1..revision /\ r + 1 \in 1..revision + 1
      BY <2>2, <1>1
    <3>2. history'[r] = history[r] /\ history'[r + 1] = history[r + 1]
      BY <3>1, <1>8
    <3>3. committed'[r] = committed[r]
      BY <3>1, <1>7
    <3> QED BY <3>1, <3>2, <3>3, <1>6
  <2> QED BY <2>1, <2>2
<1>10. LogExplainsDocument'
  <2>1. Len(history') = revision' + 1 /\ revision' + 1 = revision + 2
    BY <1>1, <1>4, <1>8
  <2>2. history'[revision' + 1] = document'
    BY <1>8, <2>1
  <2> QED BY <1>4, <1>7, <1>9, <2>1, <2>2 DEF LogExplainsDocument
<1>11. AppliesMatchLog'
  <2>1. ASSUME NEW m \in AppliesUnderWay'
        PROVE  m.rev \in 1..revision' /\ committed'[m.rev] = m
    <3>1. CASE m \in AppliesUnderWay
      <4>1. m.rev \in 1..revision /\ committed[m.rev] = m
        BY <3>1 DEF IInv, AppliesMatchLog
      <4> QED BY <4>1, <1>1, <1>4, <1>7
    <3>2. CASE m = message
      BY <3>2, <1>1, <1>4, <1>5, <1>7
    <3> QED BY <3>1, <3>2 DEF message
  <2> QED BY <2>1 DEF AppliesMatchLog
<1>12. unsent' = unsent
  BY DEF Commit
<1> QED BY <1>1, <1>3, <1>4, <1>5, <1>7, <1>8, <1>10, <1>11, <1>12 DEF message

\* A commit puts no copy, chunk or window ahead of the server.
LEMMA CommitKeepsRevs ==
    ASSUME IInv, revision' = revision + 1,
           UNCHANGED <<toGuest, backlog, snapshot, hostRev, guestRev>>
    PROVE  RevsOK'
<1>1. revision \in Nat /\ hostRev \in Nat /\ guestRev \in Nat
  BY DEF IInv, TypeOK
<1>2. WindowsNeverAhead' /\ (snapshot' \in Snapshot => snapshot'.rev <= revision')
  BY <1>1 DEF IInv, RevsOK, WindowsNeverAhead, Snapshot
<1>3. ASSUME NEW m \in Range(toGuest') \cup Range(backlog'), m.type = "SYNC_RESPONSE"
      PROVE  m.rev <= revision'
  <2>1. m \in Range(toGuest) \cup Range(backlog)
    BY <1>3
  <2>2. Range(toGuest) \subseteq ServerMessage /\ Range(backlog) \subseteq ServerMessage
    BY RangeOfSeq DEF IInv, TypeOK
  <2>3. m.rev <= revision /\ m \in ServerMessage
    BY <2>1, <2>2, <1>3 DEF IInv, RevsOK
  <2>4. m.rev \in Nat
    BY <2>3, <1>3 DEF ServerMessage, SyncChunk, ApplyMessage, Notice
  <2> QED BY <2>3, <2>4, <1>1
<1> QED BY <1>2, <1>3 DEF RevsOK

\* What a send of message does to the wire: something of it gets there, or nothing.
Sends(message) == toGuest' = toGuest \/ toGuest' = Transmit(toGuest, message)

\* Sending a message puts at most that message on the wire.
LEMMA TransmitFacts ==
    ASSUME IInv, NEW message \in ServerMessage, Sends(message)
    PROVE  toGuest' \in Seq(ServerMessage) /\ Range(toGuest') \subseteq Range(toGuest) \cup {message}
<1>1. toGuest \in Seq(ServerMessage)
  BY DEF IInv, TypeOK
<1>2. CASE linkUp /\ toGuest' # toGuest
  <2>1. toGuest' = Append(toGuest, message)
    BY <1>2 DEF Transmit, Sends
  <2> QED BY <1>1, <2>1, RangeAppend, AppendProperties
<1>3. CASE ~ linkUp \/ toGuest' = toGuest
  BY <1>1, <1>3 DEF Transmit, Sends
<1> QED BY <1>2, <1>3

\* The send that ignores a failure is a send, and keeps the two variables it may change.
LEMMA IgnoringFacts ==
    ASSUME IInv, NEW message, SendIgnoringFailure(message)
    PROVE  /\ Sends(message) /\ failures' \in Nat /\ unsent' \in {"nothing", "operation", "rest"}
           /\ unsent' = "nothing" => unsent = "nothing" /\ toGuest' = Transmit(toGuest, message)
<1>1. failures \in Nat /\ unsent \in {"nothing", "operation", "rest"}
  BY DEF IInv, TypeOK
<1>2. CASE toGuest' = ToGuest(message) /\ UNCHANGED <<failures, unsent>>
  BY <1>1, <1>2 DEF Sends, ToGuest
<1>3. CASE /\ failures' = failures + 1 /\ toGuest' = toGuest
           /\ unsent' \in {IF unsent = "rest" THEN "rest" ELSE "operation", "rest"}
  <2>1. failures' \in Nat
    BY <1>1, <1>3
  <2>2. unsent' \in {"operation", "rest"}
    BY <1>3
  <2> QED BY <1>3, <2>1, <2>2 DEF Sends
<1> QED BY <1>2, <1>3 DEF SendIgnoringFailure
-----------------------------------------------------------------------------
(* The host's window thread. *)

LEMMA HostTypesPreserves ==
    ASSUME IInv, NEW text \in Text, HostTypes(text)
    PROVE  IInv'
<1>1. ComputeEditorDiff(hostKnown, text) \in Seq(Operation)
  BY TextIsSeq, DiffType DEF IInv, TypeOK
<1> USE DEF HostTypes, sessionVars, guestVars, linkVars, logVars
<1>2. TypeOK'
  BY <1>1 DEF IInv, TypeOK
<1>3. PcOK'
  BY DEF IInv, PcOK
<1>4. WindowsNeverAhead' /\ (snapshot' \in Snapshot => snapshot'.rev <= revision)
  BY DEF IInv, RevsOK, WindowsNeverAhead
<1>5. QueuesUnchanged /\ UNCHANGED <<document, revision, logVars>>
  BY DEF QueuesUnchanged
<1> QED BY <1>2, <1>3, <1>4, <1>5, QuietKept

LEMMA HostRefusedPreserves == IInv /\ HostRefused => IInv'
<1> SUFFICES ASSUME IInv, HostRefused PROVE IInv'
  OBVIOUS
<1> USE DEF HostRefused, sessionVars, guestVars, linkVars, logVars
<1>1. TypeOK' /\ PcOK'
  BY DEF IInv, TypeOK, PcOK
<1>2. WindowsNeverAhead' /\ (snapshot' \in Snapshot => snapshot'.rev <= revision)
  BY DEF IInv, RevsOK, WindowsNeverAhead
<1>3. QueuesUnchanged /\ UNCHANGED <<document, revision, logVars>>
  BY DEF QueuesUnchanged
<1> QED BY <1>1, <1>2, <1>3, QuietKept

LEMMA HostFinishesChangePreserves == IInv /\ HostFinishesChange => IInv'
<1> SUFFICES ASSUME IInv, HostFinishesChange PROVE IInv'
  OBVIOUS
<1>1. <<>> \in Text
  BY NoTextIsText
<1> USE DEF HostFinishesChange, sessionVars, guestVars, linkVars, logVars
<1>2. TypeOK' /\ PcOK'
  BY <1>1 DEF IInv, TypeOK, PcOK
<1>3. WindowsNeverAhead' /\ (snapshot' \in Snapshot => snapshot'.rev <= revision)
  BY DEF IInv, RevsOK, WindowsNeverAhead
<1>4. QueuesUnchanged /\ UNCHANGED <<document, revision, logVars>>
  BY DEF QueuesUnchanged
<1> QED BY <1>2, <1>3, <1>4, QuietKept

LEMMA HostCommitsPreserves == IInv /\ HostCommits => IInv'
<1> SUFFICES ASSUME IInv, HostCommits PROVE IInv'
  OBVIOUS
<1> DEFINE op == Head(hostOps)
           message == CommitMessage("A", op)
<1> USE DEF HostCommits, sessionVars, guestVars, linkVars
<1>1. op \in Operation
  BY HeadTailProperties DEF IInv, TypeOK
<1>2. Commit("A", op) /\ ServerStatus(op) = "applied" /\ hostApply' = message
  OBVIOUS
<1>3. \A m \in AppliesUnderWay' : m \in AppliesUnderWay \/ m = message
  BY <1>2 DEF AppliesUnderWay
<1>4. /\ document' \in Text /\ revision' = revision + 1 /\ revision \in Nat
      /\ committed' \in Seq(ApplyMessage) /\ history' \in Seq(Text)
      /\ message \in ApplyMessage /\ message.rev = revision + 1
      /\ LogExplainsDocument' /\ AppliesMatchLog' /\ unsent' = unsent
  BY <1>1, <1>2, <1>3, CommitFacts
<1> HIDE DEF op, message
<1>5. TypeOK'
  BY <1>2, <1>4 DEF IInv, TypeOK
<1>6. PcOK'
  BY <1>2, <1>4 DEF IInv, PcOK, TypeOK, RevsOK, WindowsNeverAhead
<1>7. RevsOK'
  BY <1>4, CommitKeepsRevs
<1> QED BY <1>4, <1>5, <1>6, <1>7 DEF IInv

LEMMA HostBroadcastsPreserves == IInv /\ HostBroadcasts => IInv' /\ hostRev <= hostRev'
<1> SUFFICES ASSUME IInv, HostBroadcasts PROVE IInv' /\ hostRev <= hostRev'
  OBVIOUS
<1> USE DEF HostBroadcasts, sessionVars, guestVars, linkVars
<1>0. /\ Sends(hostApply) /\ failures' \in Nat /\ unsent' \in {"nothing", "operation", "rest"}
      /\ UNCHANGED <<committed, history>>
  <2>1. CASE sessionPc = "none"
    BY <2>1 DEF Sends, IInv, TypeOK
  <2>2. CASE sessionPc # "none"
    BY <2>2, IgnoringFacts
  <2> QED BY <2>1, <2>2
<1>1. /\ hostApply \in ApplyMessage /\ hostRev < hostApply.rev /\ hostApply.type = "APPLY"
      /\ hostApply.rev \in Nat /\ hostRev \in Nat /\ hostApply \in ServerMessage
  BY DEF IInv, PcOK, TypeOK, ApplyMessage, ServerMessage
<1>2. hostApply.rev <= revision
  <2>1. hostApply \in AppliesUnderWay
    BY <1>1 DEF AppliesUnderWay
  <2>2. hostApply.rev \in 1..revision
    BY <2>1 DEF IInv, AppliesMatchLog
  <2> QED BY <2>2
<1>3. /\ toGuest' \in Seq(ServerMessage)
      /\ Range(toGuest') \subseteq Range(toGuest) \cup {hostApply}
  BY <1>0, <1>1, TransmitFacts
<1>4. Tail(hostOps) \in Seq(Operation)
  <2>1. CASE hostOps = <<>>
    BY <2>1
  <2>2. CASE hostOps # <<>>
    BY <2>2, HeadTailProperties DEF IInv, TypeOK
  <2> QED BY <2>1, <2>2
<1>5. TypeOK'
  BY <1>0, <1>1, <1>3, <1>4 DEF IInv, TypeOK
<1>6. PcOK'
  BY DEF IInv, PcOK
<1>7. WindowsNeverAhead' /\ (snapshot' \in Snapshot => snapshot'.rev <= revision')
  BY <1>2 DEF IInv, RevsOK, WindowsNeverAhead
<1>8. RevsOK'
  BY <1>1, <1>3, <1>7 DEF IInv, RevsOK
<1>9. \A m \in AppliesUnderWay' : m \in AppliesUnderWay
  BY <1>3 DEF AppliesUnderWay, NoApply
<1>10. LogExplainsDocument' /\ AppliesMatchLog'
  BY <1>0, <1>9, LogKept DEF IInv
<1> QED BY <1>1, <1>5, <1>6, <1>8, <1>10 DEF IInv

LEMMA HostCopiesDocumentPreserves == IInv /\ HostCopiesDocument => IInv'
<1> SUFFICES ASSUME IInv, HostCopiesDocument PROVE IInv'
  OBVIOUS
<1> USE DEF HostCopiesDocument, sessionVars, guestVars, linkVars, logVars
<1>1. TypeOK' /\ PcOK'
  BY DEF IInv, TypeOK, PcOK
<1>2. WindowsNeverAhead' /\ (snapshot' \in Snapshot => snapshot'.rev <= revision)
  BY DEF IInv, RevsOK, WindowsNeverAhead
<1>3. QueuesUnchanged /\ UNCHANGED <<document, revision, logVars>>
  BY DEF QueuesUnchanged
<1> QED BY <1>1, <1>2, <1>3, QuietKept

LEMMA HostCopiesRevisionPreserves == IInv /\ HostCopiesRevision => IInv'
<1> SUFFICES ASSUME IInv, HostCopiesRevision PROVE IInv'
  OBVIOUS
<1> USE DEF HostCopiesRevision, sessionVars, guestVars, linkVars, logVars
<1>1. hostOps' \in Seq(Operation)
  <2>1. CASE hostOps = <<>>
    BY <2>1
  <2>2. CASE hostOps # <<>>
    BY <2>2, HeadTailProperties DEF IInv, TypeOK
  <2> QED BY <2>1, <2>2
<1>2. hostPc' \in {"drain", "apply"}
  OBVIOUS
<1>3. TypeOK' /\ PcOK'
  BY <1>1, <1>2, NoTextIsText DEF IInv, TypeOK, PcOK
<1>4. WindowsNeverAhead' /\ (snapshot' \in Snapshot => snapshot'.rev <= revision)
  BY DEF IInv, RevsOK, WindowsNeverAhead, TypeOK
<1>5. QueuesUnchanged /\ UNCHANGED <<document, revision, logVars>>
  BY DEF QueuesUnchanged
<1> QED BY <1>3, <1>4, <1>5, QuietKept

LEMMA HostStartsDrainPreserves == IInv /\ HostStartsDrain => IInv'
<1> SUFFICES ASSUME IInv, HostStartsDrain PROVE IInv'
  OBVIOUS
<1> USE DEF HostStartsDrain, sessionVars, guestVars, linkVars, logVars
<1>1. TypeOK' /\ PcOK'
  BY DEF IInv, TypeOK, PcOK
<1>2. WindowsNeverAhead' /\ (snapshot' \in Snapshot => snapshot'.rev <= revision)
  BY DEF IInv, RevsOK, WindowsNeverAhead
<1>3. QueuesUnchanged /\ UNCHANGED <<document, revision, logVars>>
  BY DEF QueuesUnchanged
<1> QED BY <1>1, <1>2, <1>3, QuietKept

LEMMA HostFinishesDrainPreserves == IInv /\ HostFinishesDrain => IInv'
<1> SUFFICES ASSUME IInv, HostFinishesDrain PROVE IInv'
  OBVIOUS
<1> USE DEF HostFinishesDrain, sessionVars, guestVars, linkVars, logVars
<1>1. TypeOK' /\ PcOK'
  BY DEF IInv, TypeOK, PcOK
<1>2. WindowsNeverAhead' /\ (snapshot' \in Snapshot => snapshot'.rev <= revision)
  BY DEF IInv, RevsOK, WindowsNeverAhead
<1>3. QueuesUnchanged /\ UNCHANGED <<document, revision, logVars>>
  BY DEF QueuesUnchanged
<1> QED BY <1>1, <1>2, <1>3, QuietKept

LEMMA HostHandlesEventPreserves == IInv /\ HostHandlesEvent => IInv' /\ hostRev <= hostRev'
<1> SUFFICES ASSUME IInv, HostHandlesEvent PROVE IInv' /\ hostRev <= hostRev'
  OBVIOUS
<1> DEFINE message == Head(serverEvents)
           outcome == ApplyOutcome(message, "A", hostRev, hostText)
<1> USE DEF sessionVars, guestVars, linkVars, logVars
<1>1. /\ message \in ApplyMessage /\ message \in Range(serverEvents)
      /\ serverEvents' \in Seq(ApplyMessage) /\ Range(serverEvents') \subseteq Range(serverEvents)
  BY RangeHeadTail DEF IInv, TypeOK, HostHandlesEvent
<1>2. /\ message.rev \in Nat /\ message.op \in Operation /\ message.type = "APPLY"
  BY <1>1 DEF ApplyMessage
<1>3. message.rev <= revision
  <2>1. message \in AppliesUnderWay
    BY <1>1, <1>2 DEF AppliesUnderWay
  <2>2. message.rev \in 1..revision
    BY <2>1 DEF IInv, AppliesMatchLog
  <2> QED BY <2>2
<1>4. hostRev \in Nat /\ revision \in Nat /\ hostText \in Text /\ hostKnown \in Text
  BY DEF IInv, TypeOK
<1> HIDE DEF message
<1>5. /\ outcome \in {"own", "apply"} => hostRev < message.rev
      /\ outcome = "apply" => Applied(hostText, message.op) \in Text
  <2>1. outcome \in {"own", "apply"} => hostRev < message.rev
    BY <1>2, <1>4 DEF ApplyOutcome
  <2>2. outcome = "apply" => ApplyStatus(hostText, message.op) = "applied"
    BY DEF ApplyOutcome
  <2> HIDE DEF outcome
  <2> QED BY <2>1, <2>2, <1>2, <1>4, AppliedIsText
<1> HIDE DEF outcome
<1>6. /\ hostPc = "drain"
      /\ hostRev' = IF outcome \in {"own", "apply"} THEN message.rev ELSE hostRev
      /\ hostText' = IF outcome = "apply" THEN Applied(hostText, message.op) ELSE hostText
      /\ hostKnown' = IF outcome = "apply" THEN hostText' ELSE hostKnown
      /\ hostPc' \in {"copyDocument", "drain"}
      /\ UNCHANGED <<document, revision, sessionVars, hostTyped, hostOps, hostApply, hostCopy,
                     guestVars, linkVars, edits, failures, logVars>>
  BY DEF HostHandlesEvent, message, outcome
<1>7. hostRev' \in Nat /\ hostText' \in Text /\ hostKnown' \in Text /\ hostRev <= hostRev'
      /\ hostRev' <= revision
  <2>1. hostRev <= revision
    BY DEF IInv, RevsOK, WindowsNeverAhead
  <2> QED BY <2>1, <1>2, <1>3, <1>4, <1>5, <1>6
<1>8. TypeOK' /\ PcOK'
  BY <1>1, <1>6, <1>7 DEF IInv, TypeOK, PcOK
<1>9. RevsOK'
  BY <1>6, <1>7 DEF IInv, RevsOK, WindowsNeverAhead
<1>10. \A m \in AppliesUnderWay' : m \in AppliesUnderWay
  BY <1>1, <1>6 DEF AppliesUnderWay
<1>11. LogExplainsDocument' /\ AppliesMatchLog'
  BY <1>6, <1>10, LogKept DEF IInv
<1> QED BY <1>7, <1>8, <1>9, <1>11 DEF IInv
-----------------------------------------------------------------------------
(* The session thread of the server. *)

\* A chunk of a text is a message of the protocol.
LEMMA ChunkMessageType ==
    ASSUME NEW text \in Text, NEW rev \in Nat, NEW index \in Nat
    PROVE  ChunkMessage(text, rev, index) \in SyncChunk
<1>1. text \in Seq(Char) /\ Len(text) \in Nat /\ SyncChunkChars \in Nat \ {0}
  BY TextIsSeq, LenProperties, SessionAssumption
<1>2. ChunkCount(text) \in Nat
  <2>1. Len(text) + SyncChunkChars - 1 \in Nat
    BY <1>1
  <2>2. (Len(text) + SyncChunkChars - 1) \div SyncChunkChars \in Nat
    BY <1>1, <2>1
  <2> QED BY <2>2 DEF ChunkCount
<1>3. index * SyncChunkChars + 1 \in Nat \ {0} /\ (index + 1) * SyncChunkChars \in Nat
  BY <1>1
<1>4. ChunkEnd(text, index) \in Nat /\ ChunkEnd(text, index) <= Len(text)
  BY <1>1, <1>3 DEF ChunkEnd
<1>5. Chunk(text, index) \in Seq(Char)
  <2> DEFINE first == index * SyncChunkChars + 1
             last  == ChunkEnd(text, index)
  <2>1. first \in Nat \ {0} /\ last \in Nat /\ last <= Len(text)
    BY <1>3, <1>4
  <2>2. Chunk(text, index) = SubSeq(text, first, last)
    BY DEF Chunk
  <2> HIDE DEF first, last
  <2> QED BY <2>1, <2>2, <1>1, RangeSubSeq
<1> QED BY <1>2, <1>5 DEF ChunkMessage, SyncChunk

\* Receiving takes the first frame of the guest off the wire.
LEMMA ReceiveFacts ==
    ASSUME IInv, toServer # <<>>
    PROVE  /\ Head(toServer) \in ClientMessage /\ Tail(toServer) \in Seq(ClientMessage)
           /\ Head(toServer).type = "EDIT" => Head(toServer).op \in Operation
<1>1. Head(toServer) \in ClientMessage /\ Tail(toServer) \in Seq(ClientMessage)
  BY HeadTailProperties DEF IInv, TypeOK
<1> QED BY <1>1 DEF ClientMessage, EditMessage, SyncRequest

LEMMA SessionAdmitsPreserves == IInv /\ SessionAdmits => IInv'
<1> SUFFICES ASSUME IInv, SessionAdmits PROVE IInv'
  OBVIOUS
<1> USE DEF SessionAdmits, sessionRest, hostVars, guestVars, linkVars, logVars
<1>1. TypeOK' /\ PcOK'
  BY DEF IInv, TypeOK, PcOK
<1>2. WindowsNeverAhead' /\ (snapshot' \in Snapshot => snapshot'.rev <= revision)
  BY DEF IInv, RevsOK, WindowsNeverAhead
<1>3. QueuesUnchanged /\ UNCHANGED <<document, revision, logVars>>
  BY DEF QueuesUnchanged
<1> QED BY <1>1, <1>2, <1>3, QuietKept

LEMMA SessionSendsJoinOkPreserves == IInv /\ SessionSendsJoinOk => IInv'
<1> SUFFICES ASSUME IInv, SessionSendsJoinOk PROVE IInv'
  OBVIOUS
<1> DEFINE message == [type |-> "JOIN_OK"]
<1> USE DEF SessionSendsJoinOk, sessionRest, hostVars, guestVars, linkVars, logVars
<1>1. message \in ServerMessage /\ message.type = "JOIN_OK"
  BY DEF ServerMessage, Notice
<1> HIDE DEF message
<1>2. Sends(message)
  BY DEF ToGuest, Sends, message
<1>3. toGuest' \in Seq(ServerMessage) /\ Range(toGuest') \subseteq Range(toGuest) \cup {message}
  BY <1>1, <1>2, TransmitFacts
<1>4. TypeOK' /\ PcOK'
  BY <1>3 DEF IInv, TypeOK, PcOK
<1>5. RevsOK'
  BY <1>1, <1>3 DEF IInv, RevsOK, WindowsNeverAhead
<1>6. \A m \in AppliesUnderWay' : m \in AppliesUnderWay
  BY <1>1, <1>3 DEF AppliesUnderWay
<1>7. LogExplainsDocument' /\ AppliesMatchLog'
  BY <1>6, LogKept DEF IInv
<1> QED BY <1>4, <1>5, <1>7 DEF IInv

LEMMA SessionCommitsPreserves == IInv /\ SessionCommits => IInv'
<1> SUFFICES ASSUME IInv, SessionCommits PROVE IInv'
  OBVIOUS
<1> DEFINE op == Head(toServer).op
           message == CommitMessage("B", op)
<1> USE DEF SessionCommits, sessionRest, hostVars, guestVars, linkVars
<1>1. op \in Operation /\ toServer' \in Seq(ClientMessage)
  BY ReceiveFacts
<1>2. Commit("B", op) /\ ServerStatus(op) = "applied" /\ sessionApply' = message
  OBVIOUS
<1>3. \A m \in AppliesUnderWay' : m \in AppliesUnderWay \/ m = message
  BY <1>2 DEF AppliesUnderWay
<1>4. /\ document' \in Text /\ revision' = revision + 1 /\ revision \in Nat
      /\ committed' \in Seq(ApplyMessage) /\ history' \in Seq(Text)
      /\ message \in ApplyMessage
      /\ LogExplainsDocument' /\ AppliesMatchLog' /\ unsent' = unsent
  BY <1>1, <1>2, <1>3, CommitFacts
<1> HIDE DEF op, message
<1>5. TypeOK' /\ PcOK'
  BY <1>1, <1>2, <1>4 DEF IInv, TypeOK, PcOK
<1>6. RevsOK'
  BY <1>4, CommitKeepsRevs
<1> QED BY <1>4, <1>5, <1>6 DEF IInv

LEMMA SessionRefusesPreserves == IInv /\ SessionRefuses => IInv'
<1> SUFFICES ASSUME IInv, SessionRefuses PROVE IInv'
  OBVIOUS
<1> DEFINE message == [type |-> "ERROR"]
<1> USE DEF SessionRefuses, sessionVars, hostVars, guestVars, linkVars
<1>1. message \in ServerMessage /\ message.type = "ERROR"
  BY DEF ServerMessage, Notice
<1> HIDE DEF message
<1>2. Sends(message) /\ failures' \in Nat /\ unsent' \in {"nothing", "operation", "rest"}
  BY IgnoringFacts DEF message
<1>3. toGuest' \in Seq(ServerMessage) /\ Range(toGuest') \subseteq Range(toGuest) \cup {message}
  BY <1>1, <1>2, TransmitFacts
<1>4. toServer' \in Seq(ClientMessage)
  BY ReceiveFacts
<1>5. TypeOK' /\ PcOK'
  BY <1>2, <1>3, <1>4 DEF IInv, TypeOK, PcOK
<1>6. RevsOK'
  BY <1>1, <1>3 DEF IInv, RevsOK, WindowsNeverAhead
<1>7. \A m \in AppliesUnderWay' : m \in AppliesUnderWay
  BY <1>1, <1>3 DEF AppliesUnderWay
<1>8. LogExplainsDocument' /\ AppliesMatchLog'
  BY <1>7, LogKept DEF IInv
<1> QED BY <1>5, <1>6, <1>8 DEF IInv

LEMMA SessionPushesEventPreserves == IInv /\ SessionPushesEvent => IInv'
<1> SUFFICES ASSUME IInv, SessionPushesEvent PROVE IInv'
  OBVIOUS
<1> USE DEF SessionPushesEvent, sessionRest, hostVars, guestVars, linkVars, logVars
<1>1. sessionApply \in ApplyMessage
  BY DEF IInv, PcOK
<1>2. /\ serverEvents' \in Seq(ApplyMessage)
      /\ Range(serverEvents') = Range(serverEvents) \cup {sessionApply}
  BY <1>1, RangeAppend DEF IInv, TypeOK
<1>3. TypeOK' /\ PcOK'
  BY <1>1, <1>2 DEF IInv, TypeOK, PcOK
<1>4. RevsOK'
  BY DEF IInv, RevsOK, WindowsNeverAhead
<1>5. \A m \in AppliesUnderWay' : m \in AppliesUnderWay
  BY <1>2 DEF AppliesUnderWay
<1>6. LogExplainsDocument' /\ AppliesMatchLog'
  BY <1>5, LogKept DEF IInv
<1> QED BY <1>3, <1>4, <1>6 DEF IInv

LEMMA SessionSendsApplyPreserves == IInv /\ SessionSendsApply => IInv'
<1> SUFFICES ASSUME IInv, SessionSendsApply PROVE IInv'
  OBVIOUS
<1> USE DEF SessionSendsApply, sessionRest, hostVars, guestVars, linkVars, logVars
<1>1. sessionApply \in ApplyMessage /\ sessionApply \in ServerMessage
      /\ sessionApply.type = "APPLY"
  BY DEF IInv, PcOK, ServerMessage, ApplyMessage
<1>2. /\ toGuest' \in Seq(ServerMessage)
      /\ Range(toGuest') \subseteq Range(toGuest) \cup {sessionApply}
  <2>1. Sends(sessionApply)
    BY DEF ToGuest, Sends
  <2> QED BY <1>1, <2>1, TransmitFacts
<1>3. TypeOK' /\ PcOK'
  BY <1>2 DEF IInv, TypeOK, PcOK
<1>4. RevsOK'
  BY <1>1, <1>2 DEF IInv, RevsOK, WindowsNeverAhead
<1>5. \A m \in AppliesUnderWay' : m \in AppliesUnderWay
  BY <1>2 DEF AppliesUnderWay, NoApply
<1>6. LogExplainsDocument' /\ AppliesMatchLog'
  BY <1>5, LogKept DEF IInv
<1> QED BY <1>3, <1>4, <1>6 DEF IInv

LEMMA SessionTakesSnapshotPreserves == IInv /\ SessionTakesSnapshot => IInv'
<1> SUFFICES ASSUME IInv, SessionTakesSnapshot PROVE IInv'
  OBVIOUS
<1> USE DEF SessionTakesSnapshot, sessionRest, hostVars, guestVars, linkVars, logVars
<1>1. toServer' \in Seq(ClientMessage)
  BY ReceiveFacts
<1>2. snapshot' \in Snapshot /\ snapshot'.rev = revision /\ revision \in Nat
  BY DEF Snapshot, IInv, TypeOK
<1>3. TypeOK' /\ PcOK'
  BY <1>1, <1>2 DEF IInv, TypeOK, PcOK
<1>4. WindowsNeverAhead' /\ (snapshot' \in Snapshot => snapshot'.rev <= revision)
  BY <1>2 DEF IInv, RevsOK, WindowsNeverAhead
<1>5. QueuesUnchanged /\ UNCHANGED <<document, revision, logVars>>
  BY DEF QueuesUnchanged
<1> QED BY <1>3, <1>4, <1>5, QuietKept

LEMMA SessionSendsChunkPreserves == IInv /\ SessionSendsChunk => IInv'
<1> SUFFICES ASSUME IInv, SessionSendsChunk PROVE IInv'
  OBVIOUS
<1> DEFINE message == ChunkMessage(snapshot.text, snapshot.rev, snapshot.next)
<1> USE DEF sessionRest, hostVars, guestVars, linkVars, logVars
<1>1. /\ snapshot \in Snapshot /\ snapshot.text \in Text /\ snapshot.rev \in Nat
      /\ snapshot.next \in Nat /\ snapshot.rev <= revision
  BY DEF SessionSendsChunk, IInv, PcOK, RevsOK, Snapshot
<1>2. message \in ServerMessage /\ message.type = "SYNC_RESPONSE" /\ message.rev = snapshot.rev
  <2>1. message \in SyncChunk
    BY <1>1, ChunkMessageType
  <2> QED BY <2>1 DEF ServerMessage, ChunkMessage
<1> HIDE DEF message
<1>3. Sends(message)
  BY DEF SessionSendsChunk, message, ToGuest, Sends
<1>4. toGuest' \in Seq(ServerMessage) /\ Range(toGuest') \subseteq Range(toGuest) \cup {message}
  BY <1>2, <1>3, TransmitFacts
<1>5. /\ \/ snapshot' \in Snapshot /\ snapshot'.rev = snapshot.rev /\ sessionPc' = sessionPc
         \/ snapshot' = NoSnapshot /\ sessionPc' = "receive"
      /\ sessionPc = "chunks"
      /\ UNCHANGED <<document, revision, sessionApply, serverEvents, sessionRest, linkUp,
                     toServer, logVars>>
  <2>1. [snapshot EXCEPT !.next = @ + 1] \in Snapshot
        /\ [snapshot EXCEPT !.next = @ + 1].rev = snapshot.rev
    BY <1>1 DEF Snapshot
  <2> QED BY <2>1 DEF SessionSendsChunk
<1>6. TypeOK' /\ PcOK'
  BY <1>4, <1>5 DEF IInv, TypeOK, PcOK
<1>7. RevsOK'
  BY <1>1, <1>2, <1>4, <1>5 DEF IInv, RevsOK, WindowsNeverAhead, Snapshot, NoSnapshot
<1>8. \A m \in AppliesUnderWay' : m \in AppliesUnderWay
  BY <1>2, <1>4, <1>5 DEF AppliesUnderWay
<1>9. LogExplainsDocument' /\ AppliesMatchLog'
  BY <1>5, <1>8, LogKept DEF IInv
<1> QED BY <1>6, <1>7, <1>9 DEF IInv

LEMMA SessionEndsPreserves == IInv /\ SessionEnds => IInv'
<1> SUFFICES ASSUME IInv, SessionEnds PROVE IInv'
  OBVIOUS
<1> USE DEF SessionEnds, sessionRest, hostVars, guestVars, linkVars, logVars
<1>1. TypeOK' /\ PcOK'
  BY DEF IInv, TypeOK, PcOK
<1>2. RevsOK'
  BY DEF IInv, RevsOK, WindowsNeverAhead, Snapshot, NoSnapshot
<1>3. \A m \in AppliesUnderWay' : m \in AppliesUnderWay
  BY DEF AppliesUnderWay, NoApply
<1>4. LogExplainsDocument' /\ AppliesMatchLog'
  BY <1>3, LogKept DEF IInv
<1> QED BY <1>1, <1>2, <1>4 DEF IInv
-----------------------------------------------------------------------------
(* The connection and the guest. *)

LEMMA LinkBreaksPreserves == IInv /\ LinkBreaks => IInv'
<1> SUFFICES ASSUME IInv, LinkBreaks PROVE IInv'
  OBVIOUS
<1> USE DEF guestRest, sessionVars, hostVars, logVars
<1>1. /\ toServer \in Seq(ClientMessage) /\ toGuest \in Seq(ServerMessage)
      /\ backlog \in Seq(ServerMessage) /\ Len(toServer) \in Nat /\ Len(toGuest) \in Nat
  BY LenProperties DEF IInv, TypeOK
<1>2. toServer' \in Seq(ClientMessage)
  <2>1. PICK k \in 0..Len(toServer) : toServer' = SubSeq(toServer, 1, k)
    BY DEF LinkBreaks
  <2>2. k \in Nat /\ k <= Len(toServer)
    BY <1>1
  <2> QED BY <1>1, <2>1, <2>2, RangeSubSeq
<1>3. backlog' \in Seq(ServerMessage) /\ Range(backlog') \subseteq Range(backlog) \cup Range(toGuest)
  <2>1. CASE guestPc \in {"joined", "online"}
    <3>1. PICK k \in 0..Len(toGuest) : backlog' = backlog \o SubSeq(toGuest, 1, k)
      BY <2>1 DEF LinkBreaks
    <3>2. /\ SubSeq(toGuest, 1, k) \in Seq(ServerMessage)
          /\ Range(SubSeq(toGuest, 1, k)) \subseteq Range(toGuest)
      BY <1>1, RangeSubSeq
    <3> DEFINE kept == SubSeq(toGuest, 1, k)
    <3> HIDE DEF kept
    <3>3. kept \in Seq(ServerMessage) /\ Range(kept) \subseteq Range(toGuest)
      BY <3>2 DEF kept
    <3>4. /\ backlog \o kept \in Seq(ServerMessage)
          /\ Range(backlog \o kept) \subseteq Range(backlog) \cup Range(kept)
      BY <1>1, <3>3, RangeConcat
    <3> QED BY <3>1, <3>3, <3>4 DEF kept
  <2>2. CASE ~ (guestPc \in {"joined", "online"})
    BY <1>1, <2>2 DEF LinkBreaks
  <2> QED BY <2>1, <2>2
<1>4. /\ toGuest' \in Seq(ServerMessage) /\ Range(toGuest') = {}
      /\ linkUp' = FALSE /\ failures' = failures + 1
      /\ UNCHANGED <<guestRest, guestPc, guestRole, guestText, guestRev, guestChunks, edits>>
  <2>1. toGuest' = <<>>
    BY DEF LinkBreaks
  <2>2. Range(toGuest') = {}
    BY <2>1, RangeEmpty
  <2>3. toGuest' \in Seq(ServerMessage)
    BY <2>1
  <2>4. linkUp' = FALSE /\ failures' = failures + 1
    BY DEF LinkBreaks
  <2>5. UNCHANGED <<guestRest, guestPc, guestRole, guestText, guestRev, guestChunks, edits>>
    BY DEF LinkBreaks
  <2> QED BY <2>2, <2>3, <2>4, <2>5
<1>5. TypeOK' /\ PcOK'
  <2>1. failures' \in Nat /\ linkUp' \in BOOLEAN
    <3>1. failures \in Nat
      BY DEF IInv, TypeOK
    <3>2. failures' = failures + 1
      BY <1>4
    <3>3. failures' \in Nat
      BY <3>1, <3>2
    <3>4. linkUp' \in BOOLEAN
      BY <1>4
    <3> QED BY <3>3, <3>4
  <2>2. TypeOK'
    BY <1>2, <1>3, <1>4, <2>1 DEF IInv, TypeOK
  <2>3. PcOK'
    BY <1>4 DEF IInv, PcOK
  <2> QED BY <2>2, <2>3
<1>6. RevsOK'
  BY <1>3, <1>4 DEF IInv, RevsOK, WindowsNeverAhead
<1>7. \A m \in AppliesUnderWay' : m \in AppliesUnderWay
  BY <1>3, <1>4 DEF AppliesUnderWay
<1>8. LogExplainsDocument' /\ AppliesMatchLog'
  BY <1>4, <1>7, LogKept DEF IInv
<1> QED BY <1>5, <1>6, <1>8 DEF IInv

LEMMA GuestConnectsPreserves == IInv /\ GuestConnects => IInv'
<1> SUFFICES ASSUME IInv, GuestConnects PROVE IInv'
  OBVIOUS
<1> USE DEF GuestConnects, serverAndHost, sessionVars, hostVars
<1>1. TypeOK' /\ PcOK'
  BY DEF IInv, TypeOK, PcOK
<1>2. WindowsNeverAhead' /\ (snapshot' \in Snapshot => snapshot'.rev <= revision)
  BY DEF IInv, RevsOK, WindowsNeverAhead
<1>3. QueuesUnchanged /\ UNCHANGED <<document, revision, committed, history>>
  BY DEF QueuesUnchanged
<1> QED BY <1>1, <1>2, <1>3, QuietKept

\* Whether or not it gets through, a SYNC_REQUEST leaves the wire well-formed.
LEMMA SyncRequestFacts ==
    ASSUME IInv
    PROVE  Transmit(toServer, [type |-> "SYNC_REQUEST"]) \in Seq(ClientMessage)
<1>1. toServer \in Seq(ClientMessage) /\ [type |-> "SYNC_REQUEST"] \in ClientMessage
  BY DEF IInv, TypeOK, ClientMessage, SyncRequest
<1> QED BY <1>1, AppendProperties DEF Transmit

LEMMA GuestJoinsPreserves == IInv /\ GuestJoins => IInv'
<1> SUFFICES ASSUME IInv, GuestJoins PROVE IInv'
  OBVIOUS
<1> USE DEF guestRest, sessionVars, hostVars, logVars
<1>1. toGuest \in Seq(ServerMessage) /\ Len(toGuest) \in Nat
  BY LenProperties DEF IInv, TypeOK
<1>2. toGuest' \in Seq(ServerMessage) /\ Range(toGuest') \subseteq Range(toGuest)
  <2>1. PICK lost \in 0..Len(toGuest) - 1 : toGuest' = SubSeq(toGuest, lost + 2, Len(toGuest))
    BY DEF GuestJoins
  <2>2. lost + 2 \in Nat \ {0}
    BY <1>1
  <2> QED BY <1>1, <2>1, <2>2, RangeSubSeq
<1>4. /\ guestPc' = "joined"
      /\ UNCHANGED <<guestRest, guestRole, guestText, guestRev, guestChunks, backlog, linkUp,
                     toServer, edits, failures>>
  BY DEF GuestJoins
<1>5. TypeOK' /\ PcOK'
  BY <1>2, <1>4 DEF IInv, TypeOK, PcOK
<1>6. RevsOK'
  BY <1>2, <1>4 DEF IInv, RevsOK, WindowsNeverAhead, TypeOK
<1>7. \A m \in AppliesUnderWay' : m \in AppliesUnderWay
  BY <1>2, <1>4 DEF AppliesUnderWay
<1>8. LogExplainsDocument' /\ AppliesMatchLog'
  BY <1>4, <1>7, LogKept DEF IInv
<1> QED BY <1>5, <1>6, <1>8 DEF IInv

LEMMA GuestStartsPreserves == IInv /\ GuestStarts => IInv'
<1> SUFFICES ASSUME IInv, GuestStarts PROVE IInv'
  OBVIOUS
<1> USE DEF guestRest, sessionVars, hostVars, logVars
<1>1. toServer' \in Seq(ClientMessage)
  BY SyncRequestFacts DEF GuestStarts
<1>2. /\ guestPc' = "online" /\ guestRole' = "Guest" /\ guestRev' \in {0, guestRev}
      /\ UNCHANGED <<guestRest, guestText, guestChunks, backlog, linkUp, toGuest, edits, failures>>
  BY DEF GuestStarts
<1>3. TypeOK' /\ PcOK'
  BY <1>1, <1>2 DEF IInv, TypeOK, PcOK
<1>4. RevsOK'
  BY <1>2 DEF IInv, RevsOK, WindowsNeverAhead, TypeOK
<1>5. \A m \in AppliesUnderWay' : m \in AppliesUnderWay
  BY <1>2 DEF AppliesUnderWay
<1>6. LogExplainsDocument' /\ AppliesMatchLog'
  BY <1>2, <1>5, LogKept DEF IInv
<1> QED BY <1>3, <1>4, <1>6 DEF IInv

LEMMA GuestJoinFailsPreserves == IInv /\ GuestJoinFails => IInv'
<1> SUFFICES ASSUME IInv, GuestJoinFails PROVE IInv'
  OBVIOUS
<1> USE DEF guestRest, sessionVars, hostVars, logVars
<1>1. toGuest' \in Seq(ServerMessage) /\ Range(toGuest') = {}
  BY RangeEmpty DEF GuestJoinFails
<1>2. /\ guestPc' = "offline" /\ linkUp' \in BOOLEAN
      /\ UNCHANGED <<guestRest, guestRole, guestText, guestRev, guestChunks, backlog, toServer,
                     edits, failures>>
  BY DEF GuestJoinFails
<1>3. TypeOK' /\ PcOK'
  BY <1>1, <1>2 DEF IInv, TypeOK, PcOK
<1>4. RevsOK'
  BY <1>1, <1>2 DEF IInv, RevsOK, WindowsNeverAhead
<1>5. \A m \in AppliesUnderWay' : m \in AppliesUnderWay
  BY <1>1, <1>2 DEF AppliesUnderWay
<1>6. LogExplainsDocument' /\ AppliesMatchLog'
  BY <1>2, <1>5, LogKept DEF IInv
<1> QED BY <1>3, <1>4, <1>6 DEF IInv

LEMMA GuestNoticesLossPreserves == IInv /\ GuestNoticesLoss => IInv'
<1> SUFFICES ASSUME IInv, GuestNoticesLoss PROVE IInv'
  OBVIOUS
<1> USE DEF GuestNoticesLoss, guestRest, sessionVars, hostVars, linkVars, logVars
<1>1. TypeOK' /\ PcOK'
  BY DEF IInv, TypeOK, PcOK
<1>2. WindowsNeverAhead' /\ (snapshot' \in Snapshot => snapshot'.rev <= revision)
  BY DEF IInv, RevsOK, WindowsNeverAhead
<1>3. QueuesUnchanged /\ UNCHANGED <<document, revision, logVars>>
  BY DEF QueuesUnchanged
<1> QED BY <1>1, <1>2, <1>3, QuietKept

LEMMA EditFramesType ==
    ASSUME NEW old \in Seq(Char), NEW new \in Seq(Char)
    PROVE  EditFrames(old, new) \in Seq(ClientMessage)
<1> DEFINE ops == ComputeEditorDiff(old, new)
<1>1. ops \in Seq(Operation)
  BY DiffType
<1>2. EditFrames(old, new) = [i \in 1..Len(ops) |-> [type |-> "EDIT", op |-> ops[i]]]
  BY DEF EditFrames
<1> HIDE DEF ops
<1>3. Len(ops) \in Nat /\ \A i \in 1..Len(ops) : ops[i] \in Operation
  BY <1>1, LenProperties
<1>4. \A i \in 1..Len(ops) : [type |-> "EDIT", op |-> ops[i]] \in ClientMessage
  BY <1>3 DEF ClientMessage, EditMessage
<1>5. EditFrames(old, new) \in [1..Len(ops) -> ClientMessage]
  BY <1>2, <1>4
<1> HIDE DEF EditFrames
<1> QED BY <1>3, <1>5, SeqDef

LEMMA WithoutInsertType ==
    ASSUME NEW frames \in Seq(ClientMessage)
    PROVE  /\ WithoutInsert(frames) \in Seq(ClientMessage)
           /\ \A i \in 1..Len(WithoutInsert(frames)) :
                 i \in 1..Len(frames) /\ WithoutInsert(frames)[i] = frames[i]
<1>1. CASE frames # <<>> /\ frames[Len(frames)].op.type = "INSERT"
  <2> DEFINE n == Len(frames) - 1
  <2>1. n \in Nat /\ n <= Len(frames) /\ n + 1 = Len(frames)
    BY <1>1, EmptySeq, LenProperties
  <2>2. WithoutInsert(frames) = SubSeq(frames, 1, n)
    BY <1>1 DEF WithoutInsert
  <2> HIDE DEF n
  <2>3. /\ SubSeq(frames, 1, n) \in Seq(ClientMessage) /\ Len(SubSeq(frames, 1, n)) = n
        /\ \A i \in 1..n : SubSeq(frames, 1, n)[i] = frames[i]
    BY <2>1, SubSeqProperties
  <2> QED BY <2>1, <2>2, <2>3
<1>2. CASE ~ (frames # <<>> /\ frames[Len(frames)].op.type = "INSERT")
  BY <1>2 DEF WithoutInsert
<1> QED BY <1>1, <1>2

LEMMA GuestTypesPreserves ==
    ASSUME IInv, NEW text \in Text, GuestTypes(text)
    PROVE  IInv'
<1> USE DEF GuestTypes, serverAndHost, sessionVars, hostVars, linkVars
<1>1. text \in Seq(Char) /\ guestText \in Seq(Char)
  BY TextIsSeq DEF IInv, TypeOK
<1>2. toServer' \in Seq(ClientMessage) /\ failures' \in Nat /\ unsent' \in {"nothing", "operation", "rest"}
  <2> DEFINE frames == EditFrames(guestText, text)
  <2>1. frames \in Seq(ClientMessage) /\ toServer \in Seq(ClientMessage)
    BY <1>1, EditFramesType DEF IInv, TypeOK
  <2>2. failures \in Nat /\ unsent \in {"nothing", "operation", "rest"}
    BY DEF IInv, TypeOK
  <2>3. \/ toServer' = toServer /\ UNCHANGED <<failures, unsent>>
        \/ toServer' = toServer \o frames /\ UNCHANGED <<failures, unsent>>
        \/ /\ toServer' = toServer \o WithoutInsert(frames) /\ failures' = failures + 1
           /\ unsent' \in {"rest", "operation"}
    OBVIOUS
  <2> HIDE DEF frames
  <2>4. WithoutInsert(frames) \in Seq(ClientMessage)
    BY <2>1, WithoutInsertType
  <2>5. toServer \o frames \in Seq(ClientMessage) /\ toServer \o WithoutInsert(frames) \in Seq(ClientMessage)
    BY <2>1, <2>4, ConcatProperties
  <2>6. toServer' \in Seq(ClientMessage)
    BY <2>1, <2>3, <2>5
  <2>7. failures' \in Nat /\ unsent' \in {"nothing", "operation", "rest"}
    BY <2>2, <2>3
  <2> QED BY <2>6, <2>7
<1>3. TypeOK' /\ PcOK'
  BY <1>1, <1>2 DEF IInv, TypeOK, PcOK
<1>4. WindowsNeverAhead' /\ (snapshot' \in Snapshot => snapshot'.rev <= revision)
  BY DEF IInv, RevsOK, WindowsNeverAhead
<1>5. QueuesUnchanged /\ UNCHANGED <<document, revision, committed, history>>
  BY DEF QueuesUnchanged
<1> QED BY <1>3, <1>4, <1>5, QuietKept
-----------------------------------------------------------------------------
(* The guest's window handles an event. *)

\* Storing a chunk gives well-formed chunks of the chunk's revision.
LEMMA ChunksWithType ==
    ASSUME IInv, NEW message \in SyncChunk
    PROVE  ChunksWith(message) \in [rev : Nat, parts : Seq(Seq(Seq(Char)))]
<1> DEFINE Part  == Seq(Seq(Char))
           empty == [i \in 1..message.count |-> <<>>]
           kept  == IF guestChunks.rev = message.rev /\ Len(guestChunks.parts) = message.count
                    THEN guestChunks.parts ELSE empty
           parts == [kept EXCEPT ![message.index + 1] = <<message.text>>]
<1>1. /\ message.count \in Nat /\ message.rev \in Nat /\ message.text \in Seq(Char)
      /\ guestChunks.parts \in Seq(Part)
  BY DEF SyncChunk, IInv, TypeOK
<1>2. <<message.text>> \in Part /\ <<>> \in Part
  BY <1>1
<1>3. ChunksWith(message) = [rev |-> message.rev, parts |-> parts]
  BY DEF ChunksWith
<1> HIDE DEF Part
<1>4. empty \in [1..message.count -> Part]
  BY <1>2
<1>5. guestChunks.parts \in [1..Len(guestChunks.parts) -> Part] /\ Len(guestChunks.parts) \in Nat
  BY <1>1, LenProperties
<1>6. PICK n \in Nat : kept \in [1..n -> Part]
  <2> HIDE DEF empty
  <2>1. kept \in {guestChunks.parts, empty}
    OBVIOUS
  <2> HIDE DEF kept
  <2> QED BY <2>1, <1>1, <1>4, <1>5
<1> HIDE DEF kept
<1>7. parts \in [1..n -> Part]
  BY <1>2, <1>6
<1> HIDE DEF parts
<1>8. parts \in Seq(Part)
  BY <1>7, SeqDef
<1> QED BY <1>1, <1>3, <1>8 DEF Part

\* What any event leaves of the guest's window: a text, and a revision that the server
\* has given out.
LEMMA GuestHandlesFacts ==
    ASSUME IInv, NEW message \in ServerMessage, message \in Range(toGuest) \cup Range(backlog),
           GuestHandles(message)
    PROVE  /\ guestText' \in Seq(Char) /\ guestRev' \in Nat /\ guestRev' <= revision
           /\ guestChunks' \in [rev : Nat, parts : Seq(Seq(Seq(Char)))]
           /\ toServer' \in Seq(ClientMessage)
<1>1. /\ guestText \in Seq(Char) /\ guestRev \in Nat /\ revision \in Nat /\ guestRev <= revision
      /\ guestChunks \in [rev : Nat, parts : Seq(Seq(Seq(Char)))]
      /\ toServer \in Seq(ClientMessage)
  BY DEF IInv, TypeOK, RevsOK, WindowsNeverAhead
<1>2. CASE message.type = "APPLY" /\ GuestHandlesApply(message)
  <2> DEFINE outcome == ApplyOutcome(message, "B", guestRev, guestText)
  <2>1. message.rev \in Nat /\ message.op \in Operation
    BY <1>2 DEF ServerMessage, ApplyMessage, SyncChunk, Notice
  <2>2. message.rev <= revision
    <3>1. message \in AppliesUnderWay
      BY <1>2 DEF AppliesUnderWay
    <3>2. message.rev \in 1..revision
      BY <3>1 DEF IInv, AppliesMatchLog
    <3> QED BY <3>2
  <2>3. outcome = "apply" => ApplyStatus(guestText, message.op) = "applied"
    BY DEF ApplyOutcome
  <2> HIDE DEF outcome
  <2>4. outcome = "apply" => Applied(guestText, message.op) \in Seq(Char)
    BY <2>1, <2>3, <1>1, AppliedIsSeq
  <2>5. /\ guestRev' = IF outcome \in {"own", "apply"} THEN message.rev ELSE guestRev
        /\ guestText' = IF outcome = "apply" THEN Applied(guestText, message.op) ELSE guestText
        /\ guestChunks' = guestChunks
        /\ SendSyncRequest(outcome = "resync")
    BY <1>2 DEF GuestHandlesApply, outcome
  <2>6. toServer' \in Seq(ClientMessage)
    BY <2>5, <1>1, SyncRequestFacts DEF SendSyncRequest
  <2> QED BY <2>1, <2>2, <2>4, <2>5, <2>6, <1>1
<1>3. CASE message.type = "SYNC_RESPONSE" /\ GuestHandlesChunk(message)
  <2>1. /\ message \in SyncChunk /\ message.rev \in Nat /\ message.text \in Seq(Char)
        /\ toServer' = toServer
    BY <1>3 DEF ServerMessage, ApplyMessage, SyncChunk, Notice, GuestHandlesChunk
  <2>2. message.rev <= revision
    BY <1>3 DEF IInv, RevsOK
  <2> DEFINE chunks == ChunksWith(message)
  <2>3. chunks \in [rev : Nat, parts : Seq(Seq(Seq(Char)))]
    BY <2>1, ChunksWithType
  <2> HIDE DEF chunks
  <2>4. CASE message.count = 1
    <3>1. /\ guestText' = message.text /\ guestRev' = message.rev
          /\ guestChunks' = [guestChunks EXCEPT !.parts = <<>>]
      BY <1>3, <2>4 DEF GuestHandlesChunk
    <3>2. <<>> \in Seq(Seq(Seq(Char)))
      OBVIOUS
    <3>3. guestChunks' \in [rev : Nat, parts : Seq(Seq(Seq(Char)))]
      BY <3>1, <3>2, <1>1
    <3> QED BY <3>1, <3>3, <2>1, <2>2, <1>1
  <2>5. CASE message.count # 1 /\ Complete(chunks)
    <3>1. /\ guestText' = Merged(chunks) /\ guestRev' = message.rev
          /\ guestChunks' = [rev |-> message.rev, parts |-> <<>>]
      BY <1>3, <2>5 DEF GuestHandlesChunk, chunks
    <3>2. Merged(chunks) \in Seq(Char)
      BY <2>3, <2>5, MergedType
    <3>3. guestChunks' \in [rev : Nat, parts : Seq(Seq(Seq(Char)))]
      BY <3>1, <2>1
    <3> QED BY <3>1, <3>2, <3>3, <2>1, <2>2, <1>1
  <2>6. CASE message.count # 1 /\ ~ Complete(chunks)
    <3>1. guestText' = guestText /\ guestRev' = guestRev /\ guestChunks' = chunks
      BY <1>3, <2>6 DEF GuestHandlesChunk, chunks
    <3> QED BY <3>1, <2>1, <2>3, <1>1
  <2> QED BY <2>4, <2>5, <2>6
<1>4. CASE message.type = "ERROR" /\ UNCHANGED <<guestText, guestRev, guestChunks, toServer>>
  BY <1>1, <1>4
<1> QED BY <1>2, <1>3, <1>4 DEF GuestHandles

LEMMA GuestHandlesBacklogPreserves == IInv /\ GuestHandlesBacklog => IInv'
<1> SUFFICES ASSUME IInv, GuestHandlesBacklog PROVE IInv'
  OBVIOUS
<1> DEFINE message == Head(backlog)
<1> USE DEF guestRest, sessionVars, hostVars, logVars
<1>1. /\ message \in ServerMessage /\ message \in Range(backlog)
      /\ backlog' \in Seq(ServerMessage) /\ Range(backlog') \subseteq Range(backlog)
  BY RangeHeadTail DEF IInv, TypeOK, GuestHandlesBacklog
<1>2. /\ GuestHandles(message)
      /\ UNCHANGED <<guestRest, guestPc, guestRole, linkUp, toGuest, edits, failures>>
  BY DEF GuestHandlesBacklog
<1> HIDE DEF message
<1>3. /\ guestText' \in Seq(Char) /\ guestRev' \in Nat /\ guestRev' <= revision
      /\ guestChunks' \in [rev : Nat, parts : Seq(Seq(Seq(Char)))]
      /\ toServer' \in Seq(ClientMessage)
  BY <1>1, <1>2, GuestHandlesFacts
<1>4. TypeOK' /\ PcOK'
  BY <1>1, <1>2, <1>3 DEF IInv, TypeOK, PcOK
<1>5. RevsOK'
  BY <1>1, <1>2, <1>3 DEF IInv, RevsOK, WindowsNeverAhead
<1>6. \A m \in AppliesUnderWay' : m \in AppliesUnderWay
  BY <1>1, <1>2 DEF AppliesUnderWay
<1>7. LogExplainsDocument' /\ AppliesMatchLog'
  BY <1>2, <1>6, LogKept DEF IInv
<1> QED BY <1>4, <1>5, <1>7 DEF IInv

LEMMA GuestHandlesEventPreserves == IInv /\ GuestHandlesEvent => IInv'
<1> SUFFICES ASSUME IInv, GuestHandlesEvent PROVE IInv'
  OBVIOUS
<1> DEFINE message == Head(toGuest)
<1> USE DEF guestRest, sessionVars, hostVars, logVars
<1>1. /\ message \in ServerMessage /\ message \in Range(toGuest)
      /\ toGuest' \in Seq(ServerMessage) /\ Range(toGuest') \subseteq Range(toGuest)
  BY RangeHeadTail DEF IInv, TypeOK, GuestHandlesEvent
<1>2. /\ GuestHandles(message)
      /\ UNCHANGED <<guestRest, guestPc, guestRole, backlog, linkUp, edits, failures>>
  BY DEF GuestHandlesEvent
<1> HIDE DEF message
<1>3. /\ guestText' \in Seq(Char) /\ guestRev' \in Nat /\ guestRev' <= revision
      /\ guestChunks' \in [rev : Nat, parts : Seq(Seq(Seq(Char)))]
      /\ toServer' \in Seq(ClientMessage)
  BY <1>1, <1>2, GuestHandlesFacts
<1>4. TypeOK' /\ PcOK'
  BY <1>1, <1>2, <1>3 DEF IInv, TypeOK, PcOK
<1>5. RevsOK'
  BY <1>1, <1>2, <1>3 DEF IInv, RevsOK, WindowsNeverAhead
<1>6. \A m \in AppliesUnderWay' : m \in AppliesUnderWay
  BY <1>1, <1>2 DEF AppliesUnderWay
<1>7. LogExplainsDocument' /\ AppliesMatchLog'
  BY <1>2, <1>6, LogKept DEF IInv
<1> QED BY <1>4, <1>5, <1>7 DEF IInv
-----------------------------------------------------------------------------
\* Every step of either user, of either window, of the session thread or of the
\* connection keeps the invariant.
LEMMA NextPreserves == IInv /\ [Next]_vars => IInv'
<1> SUFFICES ASSUME IInv, [Next]_vars PROVE IInv'
  OBVIOUS
<1>1. ASSUME NEW text \in Text, HostTypes(text) \/ GuestTypes(text) PROVE IInv'
  BY <1>1, HostTypesPreserves, GuestTypesPreserves
<1>2. CASE Host
  BY <1>2, HostCommitsPreserves, HostRefusedPreserves, HostBroadcastsPreserves,
     HostFinishesChangePreserves, HostCopiesDocumentPreserves, HostCopiesRevisionPreserves,
     HostStartsDrainPreserves, HostHandlesEventPreserves, HostFinishesDrainPreserves DEF Host
<1>3. CASE Session
  BY <1>3, SessionAdmitsPreserves, SessionSendsJoinOkPreserves, SessionEndsPreserves,
     SessionCommitsPreserves, SessionRefusesPreserves, SessionPushesEventPreserves,
     SessionSendsApplyPreserves, SessionTakesSnapshotPreserves, SessionSendsChunkPreserves
     DEF Session, SessionServes
<1>4. CASE Guest
  BY <1>4, GuestConnectsPreserves, GuestJoinsPreserves, GuestStartsPreserves, GuestJoinFailsPreserves,
     GuestNoticesLossPreserves, GuestHandlesBacklogPreserves, GuestHandlesEventPreserves
     DEF Guest, GuestHandlesFrames
<1>5. CASE LinkBreaks
  BY <1>5, LinkBreaksPreserves
<1>6. CASE UNCHANGED vars
  <2> USE <1>6 DEF vars, sessionVars, hostVars, guestVars, linkVars, logVars
  <2>1. TypeOK' /\ PcOK'
    BY DEF IInv, TypeOK, PcOK
  <2>2. WindowsNeverAhead' /\ (snapshot' \in Snapshot => snapshot'.rev <= revision)
    BY DEF IInv, RevsOK, WindowsNeverAhead
  <2>3. QueuesUnchanged /\ UNCHANGED <<document, revision, logVars>>
    BY DEF QueuesUnchanged
  <2> QED BY <2>1, <2>2, <2>3, QuietKept
<1> QED BY <1>1, <1>2, <1>3, <1>4, <1>5, <1>6 DEF Next, Users

\* Whoever types, in whatever order the two threads of the host and the guest run, and
\* however often the connection breaks: the invariant holds.
THEOREM Invariance == Spec => []IInv
BY InitEstablishes, NextPreserves, PTL DEF Spec

\* Documents, editors, revisions, queues and frames stay what they should be.
THEOREM TypeCorrect == Spec => []TypeOK
<1>1. IInv => TypeOK
  BY DEF IInv
<1> QED BY <1>1, Invariance, PTL

\* The two threads that call ApplyMessageToDocument never give one revision to two
\* operations, and the operations explain the document.
THEOREM ServerLog == Spec => []LogExplainsDocument
<1>1. IInv => LogExplainsDocument
  BY DEF IInv
<1> QED BY <1>1, Invariance, PTL

\* No APPLY that a thread is about to send, that is queued, on the wire or left over from
\* an earlier connection differs from what was committed under its revision.
THEOREM OneOperationPerRevision == Spec => []AppliesMatchLog
<1>1. IInv => AppliesMatchLog
  BY DEF IInv
<1> QED BY <1>1, Invariance, PTL

\* Neither window counts a revision the server has not given out.
THEOREM NeverAhead == Spec => []WindowsNeverAhead
<1>1. IInv => WindowsNeverAhead
  BY DEF IInv, RevsOK
<1> QED BY <1>1, Invariance, PTL

\* current_revision_ of the host never decreases: not when it broadcasts its own edit, not
\* when it handles the guest's and not when it reloads the document.
THEOREM HostNeverGoesBack == Spec => HostRevisionMonotone
<1> DEFINE Forward == hostRev' >= hostRev
<1>1. IInv /\ [Next]_vars => [Forward]_vars
  <2> SUFFICES ASSUME IInv, Next
               PROVE  hostRev' >= hostRev
    OBVIOUS
  <2>1. hostRev \in Nat /\ hostRev <= revision
    BY DEF IInv, TypeOK, RevsOK, WindowsNeverAhead
  <2>2. IInv'
    BY NextPreserves
  <2>3. hostRev' \in Nat
    BY <2>2 DEF IInv, TypeOK
  <2>4. CASE HostBroadcasts \/ HostHandlesEvent
    BY <2>1, <2>3, <2>4, HostBroadcastsPreserves, HostHandlesEventPreserves
  <2>5. CASE HostCopiesRevision
    BY <2>1, <2>5 DEF HostCopiesRevision
  <2>6. CASE ~ (HostBroadcasts \/ HostHandlesEvent \/ HostCopiesRevision)
    <3>1. hostRev' = hostRev
      BY <2>6 DEF Next, Users, Host, Session, SessionServes, Guest, GuestHandlesFrames,
         serverAndHost, SendIgnoringFailure, HostTypes, GuestTypes, HostCommits,
         HostRefused, HostFinishesChange, HostCopiesDocument, HostStartsDrain,
         HostFinishesDrain, SessionAdmits, SessionSendsJoinOk, SessionEnds, SessionCommits,
         SessionRefuses, SessionPushesEvent, SessionSendsApply, SessionTakesSnapshot,
         SessionSendsChunk, GuestConnects, GuestJoins, GuestStarts, GuestJoinFails, GuestNoticesLoss,
         GuestHandlesBacklog, GuestHandlesEvent, LinkBreaks, hostVars, sessionRest, guestRest
    <3> QED BY <2>1, <3>1
  <2> QED BY <2>4, <2>5, <2>6
<1>2. Spec => [][Forward]_vars
  BY <1>1, Invariance, PTL DEF Spec
<1> QED BY <1>2 DEF HostRevisionMonotone

-----------------------------------------------------------------------------
(* Every edit of the guest reaches the queue of the host's window. *)

\* Only the guest's edits are reported to the host's window.
EventsFromGuest ==
    /\ \A m \in Range(serverEvents) : m.client = "B"
    /\ sessionPc = "push" => sessionApply.client = "B"

QueueInv == GuestEditsReachHostQueue /\ EventsFromGuest

\* A step that commits nothing and leaves the queue alone, and whose window, if it was
\* reloading the document, still is or now has the last revision.
EventsQuiet ==
    /\ UNCHANGED <<revision, committed, serverEvents>>
    /\ hostRev <= hostRev'
    /\ sessionPc' = "push" <=> sessionPc = "push"
    /\ sessionPc = "push" => sessionApply' = sessionApply
    /\ hostPc \in {"copyDocument", "copyRevision"} =>
         hostPc' \in {"copyDocument", "copyRevision"} \/ hostRev' = revision

LEMMA EventsQuietKeeps ==
    ASSUME IInv, IInv', QueueInv, EventsQuiet
    PROVE  QueueInv'
<1>1. revision \in Nat /\ hostRev \in Nat /\ revision' \in Nat /\ hostRev' \in Nat
  BY DEF IInv, TypeOK
<1>2. EventsFromGuest'
  BY DEF QueueInv, EventsFromGuest, EventsQuiet
<1>3. ASSUME NEW r \in hostRev' + 1..revision', committed'[r].client = "B",
             hostPc' \notin {"copyDocument", "copyRevision"}
      PROVE  \/ sessionPc' = "push" /\ sessionApply' = committed'[r]
             \/ committed'[r] \in Range(serverEvents')
  <2>1. revision' = revision /\ hostRev <= hostRev' /\ r \in hostRev' + 1..revision
    BY DEF EventsQuiet
  <2>5. r \in hostRev + 1..revision /\ hostRev' # revision
    <3>1. \A x \in Nat, y \in Nat, v \in Nat :
             x <= y => \A i \in y + 1..v : i \in x + 1..v /\ y # v
      OBVIOUS
    <3> QED BY <3>1, <2>1, <1>1, Zenon
  <2>2. hostPc \notin {"copyDocument", "copyRevision"}
    BY <2>5, <1>3 DEF EventsQuiet
  <2>3. \/ sessionPc = "push" /\ sessionApply = committed[r]
        \/ committed[r] \in Range(serverEvents)
    BY <2>5, <2>2, <1>3 DEF QueueInv, GuestEditsReachHostQueue, EventsQuiet
  <2> QED BY <2>3 DEF EventsQuiet
<1> QED BY <1>2, <1>3 DEF QueueInv, GuestEditsReachHostQueue

\* One commit of client leaves the earlier revisions in the log and adds its own.
LEMMA CommitAppends ==
    ASSUME IInv, NEW client \in {"A", "B"}, NEW op \in Operation, Commit(client, op)
    PROVE  /\ revision' = revision + 1 /\ revision \in Nat
           /\ \A r \in 1..revision : committed'[r] = committed[r]
           /\ committed'[revision + 1] = CommitMessage(client, op)
           /\ Len(history) = revision + 1 /\ history' = Append(history, Applied(document, op))
           /\ \A r \in 1..revision + 1 : history'[r] = history[r]
           /\ history'[revision + 2] = Applied(document, op)
<1>1. /\ revision \in Nat /\ committed \in Seq(ApplyMessage) /\ history \in Seq(Text)
      /\ revision = Len(committed) /\ Len(history) = revision + 1
  BY DEF IInv, TypeOK, LogExplainsDocument
<1>2. CommitMessage(client, op) \in ApplyMessage
  BY <1>1 DEF CommitMessage, ApplyMessage
<1>3. committed' = Append(committed, CommitMessage(client, op))
      /\ history' = Append(history, Applied(document, op)) /\ revision' = revision + 1
  BY DEF Commit
<1> DEFINE H == Seq(Text \cup {Applied(document, op)})
<1>4. history \in H /\ Applied(document, op) \in Text \cup {Applied(document, op)}
  BY <1>1, SeqMonotonic
<1>5. /\ \A r \in 1..Len(history) : history'[r] = history[r]
      /\ history'[Len(history) + 1] = Applied(document, op)
  BY <1>3, <1>4, AppendProperties
<1> HIDE DEF H
<1>6. /\ \A r \in 1..Len(committed) : committed'[r] = committed[r]
      /\ committed'[Len(committed) + 1] = CommitMessage(client, op)
  BY <1>1, <1>2, <1>3, AppendProperties
<1>7. Len(history) + 1 = revision + 2
  BY <1>1
<1> QED BY <1>1, <1>3, <1>5, <1>6, <1>7

LEMMA HostCommitsKeepsQueue == IInv /\ QueueInv /\ HostCommits => QueueInv'
<1> SUFFICES ASSUME IInv, QueueInv, HostCommits PROVE QueueInv'
  OBVIOUS
<1> DEFINE op == Head(hostOps)
<1>1. op \in Operation
  BY HeadTailProperties DEF HostCommits, IInv, TypeOK
<1>2. /\ revision' = revision + 1 /\ revision \in Nat /\ hostRev \in Nat
      /\ \A r \in 1..revision : committed'[r] = committed[r]
      /\ committed'[revision + 1] = CommitMessage("A", op)
  <2>1. Commit("A", op)
    BY DEF HostCommits
  <2> HIDE DEF op
  <2> QED BY <1>1, <2>1, CommitAppends DEF IInv, TypeOK
<1>3. /\ sessionPc' = sessionPc /\ sessionApply' = sessionApply
      /\ serverEvents' = serverEvents /\ hostRev' = hostRev /\ hostPc = "apply"
  BY DEF HostCommits, sessionVars
<1>4. ASSUME NEW r \in hostRev' + 1..revision', committed'[r].client = "B"
      PROVE  \/ sessionPc' = "push" /\ sessionApply' = committed'[r]
             \/ committed'[r] \in Range(serverEvents')
  <2>1. r # revision + 1
    BY <1>2, <1>4 DEF CommitMessage
  <2>2. r \in hostRev + 1..revision /\ r \in 1..revision
    BY <2>1, <1>2, <1>3
  <2> QED BY <2>2, <1>2, <1>3, <1>4 DEF QueueInv, GuestEditsReachHostQueue
<1> QED BY <1>3, <1>4 DEF QueueInv, GuestEditsReachHostQueue, EventsFromGuest

LEMMA SessionCommitsKeepsQueue == IInv /\ QueueInv /\ SessionCommits => QueueInv'
<1> SUFFICES ASSUME IInv, QueueInv, SessionCommits PROVE QueueInv'
  OBVIOUS
<1> DEFINE op == Head(toServer).op
<1>1. op \in Operation
  BY ReceiveFacts DEF SessionCommits
<1>2. /\ revision' = revision + 1 /\ revision \in Nat /\ hostRev \in Nat
      /\ \A r \in 1..revision : committed'[r] = committed[r]
      /\ committed'[revision + 1] = CommitMessage("B", op)
  <2>1. Commit("B", op)
    BY DEF SessionCommits
  <2> HIDE DEF op
  <2> QED BY <1>1, <2>1, CommitAppends DEF IInv, TypeOK
<1>3. /\ sessionPc = "receive" /\ sessionPc' = "push" /\ sessionApply' = CommitMessage("B", op)
      /\ serverEvents' = serverEvents /\ hostRev' = hostRev /\ hostPc' = hostPc
  BY DEF SessionCommits, sessionRest, hostVars
<1>4. ASSUME NEW r \in hostRev' + 1..revision', committed'[r].client = "B",
             hostPc' \notin {"copyDocument", "copyRevision"}
      PROVE  sessionApply' = committed'[r] \/ committed'[r] \in Range(serverEvents')
  <2>1. CASE r = revision + 1
    BY <2>1, <1>2, <1>3
  <2>2. CASE r # revision + 1
    <3>1. r \in hostRev + 1..revision /\ r \in 1..revision
      BY <2>2, <1>2, <1>3
    <3> QED BY <3>1, <1>2, <1>3, <1>4 DEF QueueInv, GuestEditsReachHostQueue
  <2> QED BY <2>1, <2>2
<1>5. EventsFromGuest'
  BY <1>3 DEF QueueInv, EventsFromGuest, CommitMessage
<1> QED BY <1>3, <1>4, <1>5 DEF QueueInv, GuestEditsReachHostQueue

LEMMA SessionPushesKeepsQueue == IInv /\ QueueInv /\ SessionPushesEvent => QueueInv'
<1> SUFFICES ASSUME IInv, QueueInv, SessionPushesEvent PROVE QueueInv'
  OBVIOUS
<1>1. sessionApply \in ApplyMessage /\ sessionPc = "push"
  BY DEF SessionPushesEvent, IInv, PcOK
<1>2. Range(serverEvents') = Range(serverEvents) \cup {sessionApply}
  BY <1>1, RangeAppend DEF SessionPushesEvent, IInv, TypeOK
<1>3. /\ sessionPc' = "sendApply" /\ hostRev' = hostRev /\ hostPc' = hostPc
      /\ revision' = revision /\ committed' = committed
  BY DEF SessionPushesEvent, sessionRest, hostVars, logVars
<1> QED BY <1>1, <1>2, <1>3 DEF QueueInv, GuestEditsReachHostQueue, EventsFromGuest

LEMMA HostHandlesKeepsQueue == IInv /\ QueueInv /\ HostHandlesEvent => QueueInv'
<1> SUFFICES ASSUME IInv, QueueInv, HostHandlesEvent PROVE QueueInv'
  OBVIOUS
<1> DEFINE message == Head(serverEvents)
           outcome == ApplyOutcome(message, "A", hostRev, hostText)
<1>1. /\ message \in ApplyMessage /\ message \in Range(serverEvents)
      /\ Range(serverEvents') \subseteq Range(serverEvents)
      /\ Range(serverEvents) = {message} \cup Range(serverEvents')
  <2>1. serverEvents \in Seq(ApplyMessage) /\ serverEvents # <<>>
        /\ serverEvents' = Tail(serverEvents)
    BY DEF HostHandlesEvent, IInv, TypeOK
  <2> QED BY <2>1, RangeHeadTail
<1>2. /\ message.client = "B" /\ message.rev \in Nat
  BY <1>1 DEF QueueInv, EventsFromGuest, ApplyMessage
<1>3. revision \in Nat /\ hostRev \in Nat
  BY DEF IInv, TypeOK
<1> HIDE DEF message
<1>4. /\ outcome \in {"ignore", "apply", "resync"}
      /\ outcome = "ignore" => message.rev <= hostRev
      /\ outcome = "apply" => message.rev = hostRev + 1
  BY <1>2, <1>3 DEF ApplyOutcome
<1>5. /\ hostRev' = IF outcome \in {"own", "apply"} THEN message.rev ELSE hostRev
      /\ hostPc' = IF outcome = "resync" THEN "copyDocument" ELSE "drain"
      /\ hostPc = "drain"
      /\ UNCHANGED <<sessionPc, sessionApply, revision, committed>>
  BY DEF HostHandlesEvent, message, outcome, sessionVars, logVars
<1> HIDE DEF outcome
<1>6. ASSUME NEW r \in hostRev' + 1..revision', committed'[r].client = "B",
             hostPc' \notin {"copyDocument", "copyRevision"}
      PROVE  \/ sessionPc' = "push" /\ sessionApply' = committed'[r]
             \/ committed'[r] \in Range(serverEvents')
  <2>1. outcome \in {"ignore", "apply"}
    BY <1>4, <1>5, <1>6
  <2>2. r \in hostRev + 1..revision /\ r \in 1..revision /\ r # message.rev
    BY <2>1, <1>2, <1>3, <1>4, <1>5
  <2>3. committed[r].rev = r
    BY <2>2 DEF IInv, LogExplainsDocument
  <2>4. \/ sessionPc = "push" /\ sessionApply = committed[r]
        \/ committed[r] \in Range(serverEvents)
    BY <2>2, <1>5, <1>6 DEF QueueInv, GuestEditsReachHostQueue
  <2> QED BY <2>2, <2>3, <2>4, <1>1, <1>5
<1>7. EventsFromGuest'
  BY <1>1, <1>5 DEF QueueInv, EventsFromGuest
<1> QED BY <1>6, <1>7 DEF QueueInv, GuestEditsReachHostQueue

LEMMA NextKeepsQueue == IInv /\ IInv' /\ QueueInv /\ [Next]_vars => QueueInv'
<1> SUFFICES ASSUME IInv, IInv', QueueInv, [Next]_vars PROVE QueueInv'
  OBVIOUS
<1>1. CASE HostCommits \/ SessionCommits \/ SessionPushesEvent \/ HostHandlesEvent
  BY <1>1, HostCommitsKeepsQueue, SessionCommitsKeepsQueue, SessionPushesKeepsQueue,
     HostHandlesKeepsQueue
<1>2. CASE HostBroadcasts
  <2>1. hostRev <= hostRev'
    BY <1>2, HostBroadcastsPreserves
  <2> QED BY <2>1, <1>2, EventsQuietKeeps
          DEF EventsQuiet, HostBroadcasts, sessionVars, guestVars, logVars
<1>3. CASE HostCopiesRevision
  BY <1>3, EventsQuietKeeps
     DEF EventsQuiet, HostCopiesRevision, sessionVars, logVars, IInv, RevsOK, WindowsNeverAhead
<1>4. CASE UNCHANGED vars \/ (Next /\ ~ (HostCommits \/ SessionCommits \/ SessionPushesEvent
                  \/ HostHandlesEvent \/ HostBroadcasts \/ HostCopiesRevision))
  <2>1. hostRev' = hostRev /\ UNCHANGED <<revision, committed, serverEvents>>
        /\ (sessionPc' = "push" <=> sessionPc = "push")
        /\ (sessionPc = "push" => sessionApply' = sessionApply)
        /\ (hostPc \in {"copyDocument", "copyRevision"} =>
              hostPc' \in {"copyDocument", "copyRevision"})
    BY <1>4 DEF Next, Users, Host, Session, SessionServes, Guest, GuestHandlesFrames,
         serverAndHost, SendIgnoringFailure, HostTypes, GuestTypes,
         HostRefused, HostFinishesChange, HostCopiesDocument, HostStartsDrain,
         HostFinishesDrain, SessionAdmits, SessionSendsJoinOk, SessionEnds,
         SessionRefuses, SessionSendsApply, SessionTakesSnapshot,
         SessionSendsChunk, GuestConnects, GuestJoins, GuestStarts, GuestJoinFails,
         GuestNoticesLoss, GuestHandlesBacklog, GuestHandlesEvent, LinkBreaks,
         vars, hostVars, sessionVars, sessionRest, guestRest, logVars
  <2>2. hostRev <= hostRev'
    BY <2>1 DEF IInv, TypeOK
  <2> QED BY <2>1, <2>2, EventsQuietKeeps DEF EventsQuiet
<1> QED BY <1>1, <1>2, <1>3, <1>4

\* No edit of the guest is dropped between the server's log and the host's window, for any
\* interleaving of the two threads.
THEOREM NoGuestEditDropped == Spec => []GuestEditsReachHostQueue
<1>1. Init => QueueInv
  <2> SUFFICES ASSUME Init PROVE QueueInv
    OBVIOUS
  <2>1. hostRev = 0 /\ revision = 0 /\ serverEvents = <<>> /\ sessionPc = "none"
    BY DEF Init
  <2>2. EventsFromGuest
    BY <2>1, RangeEmpty DEF EventsFromGuest
  <2>3. hostRev + 1..revision = {}
    BY <2>1
  <2> QED BY <2>2, <2>3 DEF QueueInv, GuestEditsReachHostQueue
<1>2. QueueInv => GuestEditsReachHostQueue
  BY DEF QueueInv
<1> QED BY <1>1, <1>2, NextKeepsQueue, Invariance, PTL DEF Spec

-----------------------------------------------------------------------------
(* A full synchronisation is the document of one revision, whatever it is cut into   *)
(* and whatever is committed while it is being sent.                                 *)

\* message is a chunk of the document as it was at the revision it names.
IsChunkOfHistory(message) ==
    /\ message.rev \in 0..revision
    /\ message.index + 1 \in 1..ChunkCount(history[message.rev + 1])
    /\ message = ChunkMessage(history[message.rev + 1], message.rev, message.index)

\* So are the copy the session thread is sending and the chunks the guest has collected.
SnapshotIsHistory ==
    sessionPc = "chunks" =>
        /\ snapshot.rev \in 0..revision
        /\ snapshot.text = history[snapshot.rev + 1]
        /\ snapshot.next + 1 \in 1..ChunkCount(snapshot.text)

PartsAreHistory(chunks) ==
    chunks.parts # <<>> =>
        /\ chunks.rev \in 0..revision
        /\ Len(chunks.parts) = ChunkCount(history[chunks.rev + 1])
        /\ \A i \in 1..Len(chunks.parts) :
             chunks.parts[i] \in {<<>>, <<Chunk(history[chunks.rev + 1], i - 1)>>}

ChunksInv ==
    /\ \A m \in Range(toGuest) \cup Range(backlog) : m.type = "SYNC_RESPONSE" => IsChunkOfHistory(m)
    /\ SnapshotIsHistory
    /\ PartsAreHistory(guestChunks)

\* Commits leave the earlier documents on record; nothing else touches the record.
HistoryKept ==
    /\ \A r \in 0..revision : r \in 0..revision'
    /\ \A r \in 0..revision : history'[r + 1] = history[r + 1]

LEMMA NextKeepsHistory == IInv /\ [Next]_vars => HistoryKept
<1> SUFFICES ASSUME IInv, [Next]_vars PROVE HistoryKept
  OBVIOUS
<1>1. ASSUME NEW client \in {"A", "B"}, NEW op \in Operation, Commit(client, op)
      PROVE  HistoryKept
  <2>1. /\ revision' = revision + 1 /\ revision \in Nat
        /\ \A r \in 1..revision + 1 : history'[r] = history[r]
    BY <1>1, CommitAppends
  <2>2. \A r \in 0..revision : r + 1 \in 1..revision + 1 /\ r \in 0..revision + 1
    BY <2>1
  <2> QED BY <2>1, <2>2 DEF HistoryKept
<1>2. CASE HostCommits
  <2>1. Head(hostOps) \in Operation /\ Commit("A", Head(hostOps))
    BY <1>2, HeadTailProperties DEF HostCommits, IInv, TypeOK
  <2> QED BY <2>1, <1>1
<1>3. CASE SessionCommits
  <2>1. Head(toServer).op \in Operation /\ Commit("B", Head(toServer).op)
    BY <1>3, ReceiveFacts DEF SessionCommits
  <2> QED BY <2>1, <1>1
<1>4. CASE UNCHANGED vars \/ (Next /\ ~ (HostCommits \/ SessionCommits))
  <2>1. revision' = revision /\ history' = history
    BY <1>4 DEF Next, Users, Host, Session, SessionServes, Guest, GuestHandlesFrames,
         serverAndHost, SendIgnoringFailure, HostTypes, GuestTypes, HostBroadcasts,
         HostRefused, HostFinishesChange, HostCopiesDocument, HostCopiesRevision,
         HostStartsDrain, HostHandlesEvent,
         HostFinishesDrain, SessionAdmits, SessionSendsJoinOk, SessionEnds, SessionPushesEvent,
         SessionRefuses, SessionSendsApply, SessionTakesSnapshot,
         SessionSendsChunk, GuestConnects, GuestJoins, GuestStarts, GuestJoinFails,
         GuestNoticesLoss, GuestHandlesBacklog, GuestHandlesEvent, LinkBreaks,
         vars, hostVars, sessionVars, sessionRest, guestRest, logVars
  <2> QED BY <2>1 DEF HistoryKept
<1> QED BY <1>2, <1>3, <1>4

\* Every document on record is a text.
LEMMA HistoryIsText ==
    ASSUME IInv, NEW r \in 0..revision
    PROVE  history[r + 1] \in Text
<1>1. r + 1 \in 1..Len(history) /\ history \in Seq(Text)
  BY DEF IInv, LogExplainsDocument, TypeOK
<1> QED BY <1>1, ElementOfSeq

LEMMA ChunkOfHistoryKept ==
    ASSUME HistoryKept, NEW message, IsChunkOfHistory(message)
    PROVE  IsChunkOfHistory(message)'
BY DEF HistoryKept, IsChunkOfHistory, ChunkMessage, ChunkCount, Chunk, ChunkEnd

LEMMA PartsOfHistoryKept ==
    ASSUME HistoryKept, NEW chunks, PartsAreHistory(chunks), guestChunks' = chunks
    PROVE  PartsAreHistory(guestChunks)'
<1>1. CASE chunks.parts = <<>>
  BY <1>1 DEF PartsAreHistory
<1>2. CASE chunks.parts # <<>>
  <2>1. /\ chunks.rev \in 0..revision
        /\ Len(chunks.parts) = ChunkCount(history[chunks.rev + 1])
        /\ \A i \in 1..Len(chunks.parts) :
             chunks.parts[i] \in {<<>>, <<Chunk(history[chunks.rev + 1], i - 1)>>}
    BY <1>2 DEF PartsAreHistory
  <2>2. chunks.rev \in 0..revision' /\ history'[chunks.rev + 1] = history[chunks.rev + 1]
    BY <2>1 DEF HistoryKept
  <2> QED BY <2>1, <2>2 DEF PartsAreHistory, ChunkCount, Chunk, ChunkEnd
<1> QED BY <1>1, <1>2

LEMMA SnapshotOfHistoryKept ==
    ASSUME HistoryKept, SnapshotIsHistory, sessionPc' = "chunks" => sessionPc = "chunks",
           sessionPc' = "chunks" => snapshot' = snapshot
    PROVE  SnapshotIsHistory'
<1> SUFFICES ASSUME sessionPc' = "chunks" PROVE SnapshotIsHistory'
  BY DEF SnapshotIsHistory
<1>1. /\ snapshot.rev \in 0..revision
      /\ snapshot.text = history[snapshot.rev + 1]
      /\ snapshot.next + 1 \in 1..ChunkCount(snapshot.text) /\ snapshot' = snapshot
  BY DEF SnapshotIsHistory
<1>2. snapshot.rev \in 0..revision' /\ history'[snapshot.rev + 1] = history[snapshot.rev + 1]
  BY <1>1 DEF HistoryKept
<1> QED BY <1>1, <1>2 DEF SnapshotIsHistory, ChunkCount

\* A message that is not a chunk, or is the next one of the copy, keeps the wire in order.
LEMMA WireOfHistoryKept ==
    ASSUME HistoryKept, ChunksInv,
           \A m \in Range(toGuest') \cup Range(backlog') :
             m.type = "SYNC_RESPONSE" =>
                m \in Range(toGuest) \cup Range(backlog) \/ IsChunkOfHistory(m)
    PROVE  (\A m \in Range(toGuest) \cup Range(backlog) :
              m.type = "SYNC_RESPONSE" => IsChunkOfHistory(m))'
<1>1. ASSUME NEW m \in Range(toGuest') \cup Range(backlog'), m.type = "SYNC_RESPONSE"
      PROVE  IsChunkOfHistory(m)
  BY <1>1 DEF ChunksInv
<1>2. ASSUME NEW m \in (Range(toGuest) \cup Range(backlog))', m.type = "SYNC_RESPONSE"
      PROVE  IsChunkOfHistory(m)'
  <2>1. IsChunkOfHistory(m)
    BY <1>1, <1>2
  <2> QED BY <2>1, ChunkOfHistoryKept
<1> QED BY <1>2

\* What the guest has collected once it has stored a chunk.
LEMMA ChunksWithHistory ==
    ASSUME IInv, ChunksInv, NEW message \in SyncChunk, IsChunkOfHistory(message)
    PROVE  /\ PartsAreHistory(ChunksWith(message))
           /\ ChunksWith(message).rev = message.rev
           /\ Len(ChunksWith(message).parts) = ChunkCount(history[message.rev + 1])
<1> DEFINE Part  == Seq(Seq(Char))
           text  == history[message.rev + 1]
           count == ChunkCount(history[message.rev + 1])
           empty == [i \in 1..message.count |-> <<>>]
           kept  == IF guestChunks.rev = message.rev /\ Len(guestChunks.parts) = message.count
                    THEN guestChunks.parts ELSE empty
           parts == [kept EXCEPT ![message.index + 1] = <<message.text>>]
           OK(part, i) == part \in {<<>>, <<Chunk(text, i - 1)>>}
<1>1. /\ message.count = count /\ message.rev \in 0..revision /\ message.text \in Seq(Char)
      /\ message.index + 1 \in 1..count /\ message.text = Chunk(text, message.index)
      /\ guestChunks.parts \in Seq(Part) /\ message.index \in Nat
  BY DEF SyncChunk, IInv, TypeOK, IsChunkOfHistory, ChunkMessage
<1>2. count \in Nat \ {0}
  <2>1. text \in Text
    BY <1>1, HistoryIsText
  <2> QED BY <2>1, ChunksCover
<1>3. ChunksWith(message) = [rev |-> message.rev, parts |-> parts]
  BY DEF ChunksWith
<1>4. <<message.text>> \in Part /\ <<>> \in Part
  BY <1>1
<1> HIDE DEF Part, text, count
<1>5. /\ empty \in Seq(Part) /\ Len(empty) = count
      /\ \A i \in 1..count : OK(empty[i], i)
  <2>1. empty \in [1..count -> Part]
    BY <1>1, <1>4
  <2>2. \A i \in 1..count : empty[i] = <<>>
    BY <1>1
  <2> QED BY <2>1, <2>2, <1>1, <1>2, SeqDef
<1>6. /\ kept \in Seq(Part) /\ Len(kept) = count
      /\ \A i \in 1..count : OK(kept[i], i)
  <2>1. CASE guestChunks.rev = message.rev /\ Len(guestChunks.parts) = message.count
    <3>1. kept = guestChunks.parts /\ Len(guestChunks.parts) = count
      BY <2>1, <1>1
    <3>2. guestChunks.parts # <<>>
      BY <3>1, <1>2, EmptySeq
    <3>3. \A i \in 1..count : OK(guestChunks.parts[i], i)
      BY <2>1, <3>1, <3>2 DEF ChunksInv, PartsAreHistory, text
    <3> QED BY <3>1, <3>3, <1>1
  <2>2. CASE ~ (guestChunks.rev = message.rev /\ Len(guestChunks.parts) = message.count)
    <3>1. kept = empty
      BY <2>2
    <3> HIDE DEF kept, empty
    <3> QED BY <3>1, <1>5
  <2> QED BY <2>1, <2>2
<1> HIDE DEF kept
<1>7. /\ Len(parts) = count
      /\ \A i \in 1..count : parts[i] = IF i = message.index + 1 THEN <<message.text>> ELSE kept[i]
  BY <1>1, <1>4, <1>6, ExceptSeq
<1> HIDE DEF parts
<1>8. ASSUME NEW i \in 1..count
      PROVE  OK(parts[i], i)
  <2>1. CASE i = message.index + 1
    <3>1. i - 1 = message.index
      BY <2>1, <1>1
    <3> QED BY <2>1, <3>1, <1>1, <1>7
  <2>2. CASE i # message.index + 1
    BY <2>2, <1>6, <1>7
  <2> QED BY <2>1, <2>2
<1> HIDE DEF OK
<1>9. /\ ChunksWith(message).rev = message.rev /\ ChunksWith(message).parts = parts
  BY <1>3
<1> QED BY <1>1, <1>7, <1>8, <1>9 DEF PartsAreHistory, OK, text, count

\* A complete collection is the document of the revision it names.
LEMMA CompleteIsHistory ==
    ASSUME IInv, NEW chunks, PartsAreHistory(chunks), chunks.parts # <<>>, Complete(chunks)
    PROVE  Merged(chunks) = history[chunks.rev + 1]
<1>1. /\ chunks.rev \in 0..revision
      /\ Len(chunks.parts) = ChunkCount(history[chunks.rev + 1])
      /\ \A i \in 1..Len(chunks.parts) :
           chunks.parts[i] = <<Chunk(history[chunks.rev + 1], i - 1)>>
  BY DEF PartsAreHistory, Complete
<1>2. history[chunks.rev + 1] \in Text
  BY <1>1, HistoryIsText
<1> QED BY <1>1, <1>2, MergedChunks

\* A document of a single chunk is that chunk.
LEMMA SingleChunk ==
    ASSUME NEW text \in Text, ChunkCount(text) = 1
    PROVE  Chunk(text, 0) = text
<1>1. text \in Seq(Char) /\ Len(text) \in Nat /\ SyncChunkChars \in Nat \ {0}
      /\ 1 * SyncChunkChars >= Len(text)
  BY TextIsSeq, LenProperties, SessionAssumption, ChunksCover
<1>2. 0 * SyncChunkChars + 1 = 1 /\ (0 + 1) * SyncChunkChars = SyncChunkChars
  BY <1>1
<1>3. ChunkEnd(text, 0) = Len(text)
  BY <1>1, <1>2 DEF ChunkEnd
<1> QED BY <1>1, <1>2, <1>3, SubSeqFull DEF Chunk

\* What an event does to the guest's collection and editor: a full synchronisation that
\* changes the editor puts the document of the revision it names there.
\* What FullSyncInstallsServerText says of one chunk.
ExactChunk(message) ==
    IF guestChunks'.parts = <<>>
    THEN guestRev' = message.rev /\ guestText' = history[message.rev + 1]
    ELSE UNCHANGED <<guestRev, guestText>>

LEMMA GuestHandlesHistory ==
    ASSUME IInv, ChunksInv, NEW message \in ServerMessage,
           message \in Range(toGuest) \cup Range(backlog), GuestHandles(message)
    PROVE  /\ PartsAreHistory(guestChunks')
           /\ message.type = "SYNC_RESPONSE" => ExactChunk(message)
<1>1. PartsAreHistory(guestChunks) /\ guestRev \in Nat
  BY DEF ChunksInv, IInv, TypeOK
<1>2. CASE message.type = "APPLY" /\ GuestHandlesApply(message)
  <2>1. guestChunks' = guestChunks
    BY <1>2 DEF GuestHandlesApply
  <2> QED BY <2>1, <1>1, <1>2
<1>3. CASE message.type = "SYNC_RESPONSE" /\ GuestHandlesChunk(message)
  <2>1. message \in SyncChunk /\ IsChunkOfHistory(message)
    BY <1>3 DEF ServerMessage, ApplyMessage, SyncChunk, Notice, ChunksInv
  <2>2. /\ message.rev \in 0..revision /\ message.index + 1 \in 1..message.count
        /\ message.count = ChunkCount(history[message.rev + 1])
        /\ message.text = Chunk(history[message.rev + 1], message.index)
        /\ message.index \in Nat
    BY <2>1 DEF IsChunkOfHistory, ChunkMessage, SyncChunk
  <2>3. history[message.rev + 1] \in Text
    BY <2>2, HistoryIsText
  <2> DEFINE chunks == ChunksWith(message)
  <2>4. /\ PartsAreHistory(chunks) /\ chunks.rev = message.rev
        /\ Len(chunks.parts) = ChunkCount(history[message.rev + 1])
    BY <2>1, ChunksWithHistory
  <2> HIDE DEF chunks
  <2>nonempty. chunks.parts # <<>>
    <3>1. Len(chunks.parts) \in Nat \ {0}
      BY <2>3, <2>4, ChunksCover
    <3>2. Len(<<>>) = 0
      OBVIOUS
    <3> QED BY <3>1, <3>2
  <2>5. CASE message.count = 1
    <3>1. /\ guestText' = message.text /\ guestRev' = message.rev
          /\ guestChunks' = [guestChunks EXCEPT !.parts = <<>>]
      BY <1>3, <2>5 DEF GuestHandlesChunk
    <3>2. guestChunks'.parts = <<>>
      BY <3>1 DEF IInv, TypeOK
    <3>3. message.index = 0
      BY <2>2, <2>5
    <3>4. message.text = history[message.rev + 1]
      BY <2>2, <2>3, <2>5, <3>3, SingleChunk
    <3> QED BY <3>1, <3>2, <3>4 DEF PartsAreHistory, ExactChunk
  <2>6. CASE message.count # 1 /\ Complete(chunks)
    <3>1. /\ guestText' = Merged(chunks) /\ guestRev' = message.rev
          /\ guestChunks' = [rev |-> message.rev, parts |-> <<>>]
      BY <1>3, <2>6 DEF GuestHandlesChunk, chunks
    <3>3. Merged(chunks) = history[message.rev + 1]
      BY <2>4, <2>6, <2>nonempty, CompleteIsHistory
    <3>4. guestChunks'.parts = <<>>
      BY <3>1
    <3> QED BY <3>1, <3>3, <3>4 DEF PartsAreHistory, ExactChunk
  <2>7. CASE message.count # 1 /\ ~ Complete(chunks)
    <3>1. guestText' = guestText /\ guestRev' = guestRev /\ guestChunks' = chunks
      BY <1>3, <2>7 DEF GuestHandlesChunk, chunks
    <3> QED BY <3>1, <2>4, <2>nonempty DEF ExactChunk
  <2> QED BY <2>5, <2>6, <2>7
<1>4. CASE message.type = "ERROR" /\ UNCHANGED <<guestText, guestRev, guestChunks, toServer>>
  BY <1>1, <1>4
<1> QED BY <1>2, <1>3, <1>4 DEF GuestHandles

\* The steps that neither send a chunk nor handle an event.
QuietForChunks ==
    /\ guestChunks' = guestChunks
    /\ sessionPc' = "chunks" => sessionPc = "chunks" /\ snapshot' = snapshot
    /\ \A m \in Range(toGuest') \cup Range(backlog') :
         m.type = "SYNC_RESPONSE" => m \in Range(toGuest) \cup Range(backlog)

LEMMA QuietForChunksKeeps ==
    ASSUME IInv, ChunksInv, HistoryKept, QuietForChunks
    PROVE  ChunksInv'
<1>1. PartsAreHistory(guestChunks)'
  BY PartsOfHistoryKept DEF ChunksInv, QuietForChunks
<1>2. SnapshotIsHistory'
  BY SnapshotOfHistoryKept DEF ChunksInv, QuietForChunks
<1>3. (\A m \in Range(toGuest) \cup Range(backlog) :
              m.type = "SYNC_RESPONSE" => IsChunkOfHistory(m))'
  BY WireOfHistoryKept DEF QuietForChunks
<1> QED BY <1>1, <1>2, <1>3 DEF ChunksInv

LEMMA LinkBreaksQuiet == IInv /\ LinkBreaks => QuietForChunks
<1> SUFFICES ASSUME IInv, LinkBreaks PROVE QuietForChunks
  OBVIOUS
<1>1. toGuest \in Seq(ServerMessage) /\ backlog \in Seq(ServerMessage)
  BY DEF IInv, TypeOK
<1>2. ASSUME NEW k \in 0..Len(toGuest)
      PROVE  /\ SubSeq(toGuest, 1, k) \in Seq(ServerMessage)
             /\ Range(backlog \o SubSeq(toGuest, 1, k)) \subseteq Range(toGuest) \cup Range(backlog)
  <2>1. k \in Nat /\ k <= Len(toGuest) /\ 1 \in Nat \ {0}
    BY <1>1, LenProperties
  <2> DEFINE received == SubSeq(toGuest, 1, k)
  <2>2. received \in Seq(ServerMessage) /\ Range(received) \subseteq Range(toGuest)
    BY <1>1, <2>1, RangeSubSeq
  <2> HIDE DEF received
  <2>3. Range(backlog \o received) \subseteq Range(backlog) \cup Range(received)
    BY <1>1, <2>2, RangeConcat
  <2>4. Range(backlog \o received) \subseteq Range(toGuest) \cup Range(backlog)
    BY <2>2, <2>3
  <2> QED BY <2>2, <2>4 DEF received
<1>3. toGuest' = <<>> /\ guestChunks' = guestChunks /\ UNCHANGED <<sessionPc, snapshot>>
  BY DEF LinkBreaks, guestRest, sessionVars
<1>4. Range(backlog') \subseteq Range(toGuest) \cup Range(backlog)
  <2>1. CASE UNCHANGED backlog
    BY <2>1
  <2>2. CASE ~ UNCHANGED backlog
    BY <2>2, <1>2 DEF LinkBreaks
  <2> QED BY <2>1, <2>2
<1> QED BY <1>3, <1>4, RangeEmpty DEF QuietForChunks

\* The steps that send one frame which is not a chunk.
LEMMA SendersSend ==
    ASSUME IInv, HostBroadcasts \/ SessionSendsJoinOk \/ SessionRefuses \/ SessionSendsApply
    PROVE  \E message \in ServerMessage : message.type # "SYNC_RESPONSE" /\ Sends(message)
<1>1. CASE HostBroadcasts
  <2>1. hostApply \in ServerMessage /\ hostApply.type = "APPLY"
    BY <1>1 DEF HostBroadcasts, IInv, PcOK, ServerMessage, ApplyMessage
  <2>2. Sends(hostApply)
    <3>1. CASE sessionPc = "none"
      BY <1>1, <3>1 DEF HostBroadcasts, Sends
    <3>2. CASE sessionPc # "none"
      BY <1>1, <3>2, IgnoringFacts DEF HostBroadcasts
    <3> QED BY <3>1, <3>2
  <2> QED BY <2>1, <2>2
<1>2. CASE SessionSendsJoinOk
  <2>1. Sends([type |-> "JOIN_OK"])
    BY <1>2 DEF SessionSendsJoinOk, Sends, ToGuest
  <2> QED BY <2>1 DEF ServerMessage, Notice
<1>3. CASE SessionRefuses
  <2>1. Sends([type |-> "ERROR"])
    BY <1>3, IgnoringFacts DEF SessionRefuses
  <2> QED BY <2>1 DEF ServerMessage, Notice
<1>4. CASE SessionSendsApply
  <2>1. sessionApply \in ServerMessage /\ sessionApply.type = "APPLY"
    BY <1>4 DEF SessionSendsApply, IInv, PcOK, ServerMessage, ApplyMessage
  <2>2. Sends(sessionApply)
    BY <1>4 DEF SessionSendsApply, Sends, ToGuest
  <2> QED BY <2>1, <2>2
<1> QED BY <1>1, <1>2, <1>3, <1>4

LEMMA SendersQuiet ==
    ASSUME IInv, HostBroadcasts \/ SessionSendsJoinOk \/ SessionRefuses \/ SessionSendsApply
    PROVE  QuietForChunks
<1>1. /\ UNCHANGED <<backlog, guestChunks, snapshot>>
      /\ sessionPc' = "chunks" => sessionPc = "chunks"
  BY DEF HostBroadcasts, SessionSendsJoinOk, SessionRefuses, SessionSendsApply,
         sessionVars, sessionRest, guestVars
<1>2. PICK message \in ServerMessage : message.type # "SYNC_RESPONSE" /\ Sends(message)
  BY SendersSend
<1>3. Range(toGuest') \subseteq Range(toGuest) \cup {message}
  BY <1>2, TransmitFacts
<1> QED BY <1>1, <1>2, <1>3 DEF QuietForChunks

LEMMA JoinsQuiet ==
    ASSUME IInv, GuestJoins \/ GuestJoinFails
    PROVE  QuietForChunks
<1>1. UNCHANGED <<backlog, guestChunks, snapshot, sessionPc>>
  BY DEF GuestJoins, GuestJoinFails, guestRest, sessionVars
<1>2. Range(toGuest') \subseteq Range(toGuest)
  <2>1. CASE GuestJoinFails
    BY <2>1, RangeEmpty DEF GuestJoinFails
  <2>2. CASE GuestJoins
    <3>1. toGuest \in Seq(ServerMessage) /\ Len(toGuest) \in Nat
      BY LenProperties DEF IInv, TypeOK
    <3>2. PICK lost \in 0..Len(toGuest) - 1 : toGuest' = SubSeq(toGuest, lost + 2, Len(toGuest))
      BY <2>2 DEF GuestJoins
    <3>3. lost + 2 \in Nat \ {0}
      BY <3>1
    <3> QED BY <3>1, <3>2, <3>3, RangeSubSeq
  <2> QED BY <2>1, <2>2
<1> QED BY <1>1, <1>2 DEF QuietForChunks

LEMMA TakesSnapshotKeepsChunks ==
    ASSUME IInv, ChunksInv, HistoryKept, SessionTakesSnapshot
    PROVE  ChunksInv'
<1>1. /\ snapshot' = [type |-> "SNAPSHOT", text |-> document, rev |-> revision, next |-> 0]
      /\ UNCHANGED <<revision, document, history, toGuest, backlog, guestChunks>>
  BY DEF SessionTakesSnapshot, sessionRest, guestVars, logVars
<1>2. /\ revision \in 0..revision /\ document = history[revision + 1] /\ document \in Text
  BY DEF IInv, TypeOK, LogExplainsDocument
<1>3. ChunkCount(document) \in Nat \ {0}
  BY <1>2, ChunksCover
<1>4. SnapshotIsHistory'
  <2>1. 0 + 1 \in 1..ChunkCount(document)
    BY <1>3
  <2> QED BY <1>1, <1>2, <2>1 DEF SnapshotIsHistory, ChunkCount
<1>5. PartsAreHistory(guestChunks)'
  BY <1>1, PartsOfHistoryKept DEF ChunksInv
<1>6. (\A m \in Range(toGuest) \cup Range(backlog) :
              m.type = "SYNC_RESPONSE" => IsChunkOfHistory(m))'
  BY <1>1, WireOfHistoryKept
<1> QED BY <1>4, <1>5, <1>6 DEF ChunksInv

LEMMA ChunkIsSent ==
    ASSUME IInv, SessionSendsChunk
    PROVE  \E message \in ServerMessage : Sends(message)
<1> DEFINE message == ChunkMessage(snapshot.text, snapshot.rev, snapshot.next)
<1>1. snapshot \in Snapshot
  BY DEF SessionSendsChunk, IInv, PcOK
<1>2. snapshot.text \in Text /\ snapshot.rev \in Nat /\ snapshot.next \in Nat
  BY <1>1 DEF Snapshot
<1>3. message \in ServerMessage
  <2>1. message \in SyncChunk
    BY <1>2, ChunkMessageType
  <2> QED BY <2>1 DEF ServerMessage
<1>4. toGuest' = ToGuest(message)
  BY DEF SessionSendsChunk
<1> HIDE DEF message
<1> QED BY <1>3, <1>4 DEF Sends, ToGuest

LEMMA SendsChunkKeepsChunks ==
    ASSUME IInv, ChunksInv, HistoryKept, SessionSendsChunk
    PROVE  ChunksInv'
<1> DEFINE message == ChunkMessage(snapshot.text, snapshot.rev, snapshot.next)
<1>1. /\ snapshot.rev \in 0..revision /\ snapshot.text = history[snapshot.rev + 1]
      /\ snapshot.next + 1 \in 1..ChunkCount(snapshot.text)
      /\ snapshot \in Snapshot /\ snapshot.next \in Nat
  BY DEF SessionSendsChunk, ChunksInv, SnapshotIsHistory, IInv, PcOK, Snapshot
<1>2. IsChunkOfHistory(message)
  BY <1>1 DEF IsChunkOfHistory, ChunkMessage
<1>3. message \in ServerMessage
  <2>1. snapshot.text \in Text /\ snapshot.rev \in Nat
    BY <1>1 DEF Snapshot
  <2>2. message \in SyncChunk
    BY <1>1, <2>1, ChunkMessageType
  <2> QED BY <2>2 DEF ServerMessage
<1> HIDE DEF message
<1>4. /\ toGuest' = ToGuest(message) /\ UNCHANGED <<backlog, guestChunks, revision, history>>
      /\ IF snapshot.next + 1 < ChunkCount(snapshot.text)
         THEN snapshot' = [snapshot EXCEPT !.next = @ + 1]
         ELSE sessionPc' = "receive"
  BY DEF SessionSendsChunk, message, sessionRest, guestVars, logVars
<1>5. Range(toGuest') \subseteq Range(toGuest) \cup {message}
  <2>1. Sends(message)
    BY <1>4 DEF Sends, ToGuest
  <2> QED BY <1>3, <2>1, TransmitFacts
<1>6. SnapshotIsHistory'
  <2>1. CASE sessionPc' # "chunks"
    BY <2>1 DEF SnapshotIsHistory
  <2>2. CASE sessionPc' = "chunks"
    <3>1. snapshot.next + 1 < ChunkCount(snapshot.text)
      BY <2>2, <1>4
    <3>2. /\ snapshot'.rev = snapshot.rev /\ snapshot'.text = snapshot.text
          /\ snapshot'.next = snapshot.next + 1
      BY <3>1, <1>1, <1>4 DEF Snapshot
    <3>3. ChunkCount(snapshot.text) \in Nat
      BY <1>1, HistoryIsText, ChunksCover
    <3>4. snapshot.next + 1 + 1 \in 1..ChunkCount(snapshot.text)
      BY <3>1, <3>3, <1>1
    <3> QED BY <3>2, <3>4, <1>1, <1>4 DEF SnapshotIsHistory, ChunkCount
  <2> QED BY <2>1, <2>2
<1>7. PartsAreHistory(guestChunks)'
  BY <1>4, PartsOfHistoryKept DEF ChunksInv
<1>8. (\A m \in Range(toGuest) \cup Range(backlog) :
              m.type = "SYNC_RESPONSE" => IsChunkOfHistory(m))'
  BY <1>2, <1>4, <1>5, WireOfHistoryKept
<1> QED BY <1>6, <1>7, <1>8 DEF ChunksInv

LEMMA TailDiffers ==
    ASSUME NEW S, NEW s \in Seq(S), s # <<>>
    PROVE  Tail(s) # s /\ \A m \in S : Tail(s) # Append(s, m)
<1> DEFINE t == Tail(s)
<1>1. Len(s) \in Nat /\ Len(t) = Len(s) - 1
  BY HeadTailProperties, LenProperties
<1> HIDE DEF t
<1>2. ASSUME NEW m \in S PROVE t # Append(s, m)
  <2> DEFINE u == Append(s, m)
  <2>1. Len(u) = Len(s) + 1
    BY AppendProperties
  <2> HIDE DEF u
  <2>2. t # u
    BY <1>1, <2>1
  <2> QED BY <2>2 DEF u
<1>3. t # s
  BY <1>1
<1> QED BY <1>2, <1>3 DEF t

LEMMA HandlesKeepsChunks ==
    ASSUME IInv, ChunksInv, HistoryKept, GuestHandlesBacklog \/ GuestHandlesEvent
    PROVE  /\ ChunksInv'
           /\ \A message \in Range(backlog) \cup Range(toGuest) :
                 HandlesChunk(message) => ExactChunk(message)
<1>1. PICK message \in ServerMessage :
         /\ message \in Range(toGuest) \cup Range(backlog) /\ GuestHandles(message)
         /\ \A m : HandlesChunk(m) => m = message
  <2>1. toGuest \in Seq(ServerMessage) /\ backlog \in Seq(ServerMessage)
    BY DEF IInv, TypeOK
  <2>2. CASE GuestHandlesBacklog
    <3>1. backlog # <<>> /\ GuestHandles(Head(backlog)) /\ toGuest' = toGuest
      BY <2>2 DEF GuestHandlesBacklog
    <3>2. Head(backlog) \in ServerMessage /\ Head(backlog) \in Range(backlog)
      BY <2>1, <3>1, RangeHeadTail
    <3>3. ASSUME NEW m, HandlesChunk(m) PROVE m = Head(backlog)
      <4>1. ~ (toGuest # <<>> /\ toGuest' = Tail(toGuest))
        BY <2>1, <3>1, TailDiffers
      <4> QED BY <3>3, <4>1 DEF HandlesChunk
    <3> QED BY <3>1, <3>2, <3>3
  <2>3. CASE GuestHandlesEvent
    <3>1. toGuest # <<>> /\ GuestHandles(Head(toGuest)) /\ backlog = <<>>
      BY <2>3 DEF GuestHandlesEvent
    <3>2. Head(toGuest) \in ServerMessage /\ Head(toGuest) \in Range(toGuest)
      BY <2>1, <3>1, RangeHeadTail
    <3>3. ASSUME NEW m, HandlesChunk(m) PROVE m = Head(toGuest)
      BY <3>1, <3>3 DEF HandlesChunk
    <3> QED BY <3>1, <3>2, <3>3
  <2> QED BY <2>2, <2>3
<1>2. PartsAreHistory(guestChunks') /\ (message.type = "SYNC_RESPONSE" => ExactChunk(message))
  BY <1>1, GuestHandlesHistory
<1>3. /\ UNCHANGED <<sessionPc, snapshot, revision, history>>
      /\ Range(toGuest') \subseteq Range(toGuest) /\ Range(backlog') \subseteq Range(backlog)
  <2>1. toGuest \in Seq(ServerMessage) /\ backlog \in Seq(ServerMessage)
    BY DEF IInv, TypeOK
  <2> QED BY <2>1, RangeHeadTail
          DEF GuestHandlesBacklog, GuestHandlesEvent, guestRest, sessionVars, logVars
<1>4. PartsAreHistory(guestChunks)'
  BY <1>2, <1>3 DEF PartsAreHistory, ChunkCount, Chunk, ChunkEnd
<1>5. SnapshotIsHistory'
  BY <1>3, SnapshotOfHistoryKept DEF ChunksInv
<1>6. (\A m \in Range(toGuest) \cup Range(backlog) :
              m.type = "SYNC_RESPONSE" => IsChunkOfHistory(m))'
  BY <1>3, WireOfHistoryKept
<1>7. ASSUME NEW m, HandlesChunk(m) PROVE ExactChunk(m)
  <2>1. m = message /\ m.type = "SYNC_RESPONSE"
    BY <1>1, <1>7 DEF HandlesChunk
  <2> QED BY <1>2, <2>1
<1>8. ChunksInv'
  BY <1>4, <1>5, <1>6 DEF ChunksInv
<1> QED BY <1>7, <1>8

\* No other step takes a frame from one of the guest's queues.
LEMMA OthersHandleNoChunk ==
    ASSUME IInv, Next, ~ (GuestHandlesBacklog \/ GuestHandlesEvent), NEW m, HandlesChunk(m)
    PROVE  FALSE
<1>1. toGuest \in Seq(ServerMessage) /\ backlog \in Seq(ServerMessage)
  BY DEF IInv, TypeOK
<1>2. UNCHANGED <<guestPc, linkUp>>
  BY DEF HandlesChunk
<1>3. backlog' = backlog
  BY <1>2 DEF Next, Users, Host, Session, SessionServes, Guest, GuestHandlesFrames,
     HostTypes, GuestTypes, HostCommits, HostRefused, HostBroadcasts, HostFinishesChange,
     HostCopiesDocument, HostCopiesRevision, HostStartsDrain, HostHandlesEvent,
     HostFinishesDrain, SessionAdmits, SessionSendsJoinOk, SessionEnds, SessionCommits,
     SessionRefuses, SessionPushesEvent, SessionSendsApply, SessionTakesSnapshot,
     SessionSendsChunk, GuestConnects, GuestJoins, GuestStarts, GuestJoinFails,
     GuestNoticesLoss, LinkBreaks, guestVars, sessionRest
<1>4. \/ toGuest' = toGuest
      \/ \E message \in ServerMessage : Sends(message)
  <2>1. CASE HostBroadcasts \/ SessionSendsJoinOk \/ SessionRefuses \/ SessionSendsApply
    BY <2>1, SendersSend
  <2>2. CASE SessionSendsChunk
    BY <2>2, ChunkIsSent
  <2>3. CASE ~ (HostBroadcasts \/ SessionSendsJoinOk \/ SessionRefuses \/ SessionSendsApply
                \/ SessionSendsChunk)
    BY <1>2, <2>3 DEF Next, Users, Host, Session, SessionServes, Guest, GuestHandlesFrames,
       HostTypes, GuestTypes, HostCommits, HostRefused, HostFinishesChange,
       HostCopiesDocument, HostCopiesRevision, HostStartsDrain, HostHandlesEvent,
       HostFinishesDrain, SessionAdmits, SessionEnds, SessionCommits,
       SessionPushesEvent, SessionTakesSnapshot, GuestConnects, GuestJoins, GuestStarts,
       GuestJoinFails, GuestNoticesLoss, LinkBreaks, linkVars, sessionRest
  <2> QED BY <2>1, <2>2, <2>3
<1>5. ~ (backlog # <<>> /\ backlog' = Tail(backlog))
  BY <1>1, <1>3, TailDiffers
<1>6. ~ (toGuest # <<>> /\ toGuest' = Tail(toGuest))
  <2>1. CASE toGuest' = toGuest
    BY <1>1, <2>1, TailDiffers
  <2>2. ASSUME NEW message \in ServerMessage, Sends(message), toGuest' # toGuest
        PROVE  toGuest' = Append(toGuest, message)
    BY <2>2 DEF Sends, Transmit
  <2> QED BY <1>1, <1>4, <2>1, <2>2, TailDiffers
<1> QED BY <1>5, <1>6 DEF HandlesChunk

LEMMA NextKeepsChunks == IInv /\ ChunksInv /\ [Next]_vars => ChunksInv'
<1> SUFFICES ASSUME IInv, ChunksInv, [Next]_vars PROVE ChunksInv'
  OBVIOUS
<1>1. HistoryKept
  BY NextKeepsHistory
<1>2. CASE SessionTakesSnapshot \/ SessionSendsChunk \/ GuestHandlesBacklog \/ GuestHandlesEvent
  BY <1>1, <1>2, TakesSnapshotKeepsChunks, SendsChunkKeepsChunks, HandlesKeepsChunks
<1>3. CASE LinkBreaks \/ HostBroadcasts \/ SessionSendsJoinOk \/ SessionRefuses \/ SessionSendsApply
           \/ GuestJoins \/ GuestJoinFails
  BY <1>1, <1>3, QuietForChunksKeeps, LinkBreaksQuiet, SendersQuiet, JoinsQuiet
<1>4. CASE \/ UNCHANGED vars
           \/ /\ Next
              /\ ~ (SessionTakesSnapshot \/ SessionSendsChunk \/ GuestHandlesBacklog
                      \/ GuestHandlesEvent)
              /\ ~ (LinkBreaks \/ HostBroadcasts \/ SessionSendsJoinOk \/ SessionRefuses
                      \/ SessionSendsApply \/ GuestJoins \/ GuestJoinFails)
  <2>1. /\ UNCHANGED <<guestChunks, toGuest, backlog>>
        /\ sessionPc' = "chunks" => sessionPc = "chunks" /\ snapshot' = snapshot
    BY <1>4 DEF Next, Users, Host, Session, SessionServes, Guest, GuestHandlesFrames,
         serverAndHost, SendIgnoringFailure, HostTypes, GuestTypes, HostCommits,
         HostRefused, HostFinishesChange, HostCopiesDocument, HostCopiesRevision,
         HostStartsDrain, HostHandlesEvent, HostFinishesDrain, SessionAdmits, SessionEnds,
         SessionCommits, SessionPushesEvent, GuestConnects, GuestStarts, GuestNoticesLoss,
         vars, hostVars, guestVars, linkVars, sessionVars, sessionRest, guestRest
  <2> QED BY <2>1, <1>1, QuietForChunksKeeps DEF QuietForChunks
<1> QED BY <1>2, <1>3, <1>4

\* Whatever has been committed since the copy was made, and whichever chunks of earlier
\* responses the guest still holds: what a full synchronisation puts into the guest's
\* editor is the server's document of the revision it names.
THEOREM FullSyncIsExact == Spec => FullSyncInstallsServerText
<1> DEFINE Exact == \A message \in Range(backlog) \cup Range(toGuest) :
                      HandlesChunk(message) => ExactChunk(message)
<1>1. Init => ChunksInv
  BY RangeEmpty DEF Init, ChunksInv, SnapshotIsHistory, PartsAreHistory, NoChunks
<1>2. IInv /\ ChunksInv /\ [Next]_vars => [Exact]_vars
  <2> SUFFICES ASSUME IInv, ChunksInv, Next PROVE Exact
    OBVIOUS
  <2>1. CASE GuestHandlesBacklog \/ GuestHandlesEvent
    BY <2>1, NextKeepsHistory, HandlesKeepsChunks
  <2>2. CASE ~ (GuestHandlesBacklog \/ GuestHandlesEvent)
    BY <2>2, OthersHandleNoChunk
  <2> QED BY <2>1, <2>2
<1>3. Spec => [][Exact]_vars
  BY <1>1, <1>2, NextKeepsChunks, Invariance, PTL DEF Spec
<1> QED BY <1>3 DEF FullSyncInstallsServerText, ExactChunk

-----------------------------------------------------------------------------
(* The host's editor when users take turns. *)

\* No change of the host inserts more than the server takes in one operation.
HostChangesFit ==
    \A i \in 1..Len(hostOps) :
        hostOps[i].type = "INSERT" => Len(hostOps[i].text) <= MaxInsertChars

\* Every operation on record was accepted where it was applied.
OperationsAccepted ==
    \A r \in 1..revision : ApplyStatus(history[r], committed[r].op) = "applied"

\* Between two changes the host shows the document of its revision, and the queue and the
\* session thread hold exactly the revisions it lacks, in their order.
BetweenChanges ==
    /\ hostText = history[hostRev + 1] /\ hostKnown = hostText
    /\ Len(serverEvents) + (IF sessionPc = "push" THEN 1 ELSE 0) = revision - hostRev
    /\ \A i \in 1..Len(serverEvents) : serverEvents[i] = committed[hostRev + i]
    /\ sessionPc = "push" => sessionApply = committed[revision]

\* During a change the guest sends no edit, so that the operations that are left lead
\* from the server's document to what the user typed.
DuringChange ==
    /\ serverEvents = <<>> /\ sessionPc # "push"
    /\ guestPc \notin {"connecting", "joined"}
    /\ \A m \in Range(toServer) : m.type # "EDIT"
    /\ hostText = hostTyped
    /\ hostPc = "apply" => hostRev = revision /\ Replays(document, hostOps, hostTyped)
    /\ hostPc = "broadcast" => /\ hostOps # <<>> /\ hostApply.rev = revision
                               /\ Replays(document, Tail(hostOps), hostTyped)

HostFollows ==
    /\ hostPc \in {"idle", "drain", "apply", "broadcast"}
    /\ hostPc \in {"idle", "drain"} => BetweenChanges
    /\ hostPc \in {"apply", "broadcast"} => DuringChange

\* Nothing left to replay: the text is there.
LEMMA ReplaysEmpty ==
    ASSUME NEW from, NEW to, Replays(from, <<>>, to)
    PROVE  from = to
<1>1. Len(<<>>) = 0
  OBVIOUS
<1> QED BY <1>1 DEF Replays

\* An operation that the document accepts and that is not too long is accepted.
LEMMA FittingIsAccepted ==
    ASSUME NEW op \in Operation, document \in Text, ApplyStatus(document, op) = "applied",
           op.type = "INSERT" => Len(op.text) <= MaxInsertChars
    PROVE  ServerStatus(op) = "applied"
<1>1. Len(document) \in Nat /\ MaxInsertChars \in Nat
  BY TextIsSeq, LenProperties, SessionAssumption
<1>2. CASE op.type = "INSERT"
  <2>1. op.pos \in Nat /\ op.text \in Seq(Char)
    BY <1>2 DEF Operation, InsertOperation, DeleteOperation
  <2>2. Len(op.text) \in Nat /\ op.pos <= Len(document)
    BY <2>1, <1>1, <1>2, LenProperties DEF ApplyStatus, InsertStatus
  <2> QED BY <2>1, <2>2, <1>1, <1>2 DEF ServerStatus
<1>3. CASE op.type # "INSERT"
  <2>1. op.pos \in Nat /\ op.len \in Nat
    BY <1>3 DEF Operation, InsertOperation, DeleteOperation
  <2>2. op.pos + op.len <= Len(document)
    BY <2>1, <1>1, <1>3 DEF ApplyStatus, DeleteStatus
  <2>3. op.pos <= Len(document)
    BY <2>1, <2>2, <1>1
  <2> QED BY <2>1, <2>3, <1>1, <1>3 DEF ServerStatus
<1> QED BY <1>2, <1>3

LEMMA CommitKeepsAccepted ==
    ASSUME IInv, OperationsAccepted, NEW client \in {"A", "B"}, NEW op \in Operation,
           ServerStatus(op) = "applied", Commit(client, op)
    PROVE  OperationsAccepted'
<1>1. /\ revision' = revision + 1 /\ revision \in Nat
      /\ \A r \in 1..revision : committed'[r] = committed[r]
      /\ committed'[revision + 1] = CommitMessage(client, op)
      /\ \A r \in 1..revision + 1 : history'[r] = history[r]
  BY CommitAppends
<1>2. history[revision + 1] = document /\ ApplyStatus(document, op) = "applied"
  BY DEF IInv, LogExplainsDocument, ServerStatus
<1>3. ASSUME NEW r \in 1..revision + 1
      PROVE  ApplyStatus(history'[r], committed'[r].op) = "applied"
  <2>1. CASE r = revision + 1
    BY <2>1, <1>1, <1>2 DEF CommitMessage
  <2>2. CASE r # revision + 1
    <3>1. r \in 1..revision
      BY <2>2, <1>1
    <3> QED BY <3>1, <1>1 DEF OperationsAccepted
  <2> QED BY <2>1, <2>2
<1> QED BY <1>1, <1>3 DEF OperationsAccepted

LEMMA NextKeepsAccepted == IInv /\ OperationsAccepted /\ [Next]_vars => OperationsAccepted'
<1> SUFFICES ASSUME IInv, OperationsAccepted, [Next]_vars PROVE OperationsAccepted'
  OBVIOUS
<1>1. CASE HostCommits
  <2>1. Head(hostOps) \in Operation
    BY <1>1, HeadTailProperties DEF HostCommits, IInv, TypeOK
  <2> QED BY <1>1, <2>1, CommitKeepsAccepted DEF HostCommits
<1>2. CASE SessionCommits
  <2>1. Head(toServer).op \in Operation
    BY <1>2, ReceiveFacts DEF SessionCommits
  <2> QED BY <1>2, <2>1, CommitKeepsAccepted DEF SessionCommits
<1>3. CASE UNCHANGED vars \/ (Next /\ ~ (HostCommits \/ SessionCommits))
  <2>1. UNCHANGED <<revision, history, committed>>
    BY <1>3 DEF Next, Users, Host, Session, SessionServes, Guest, GuestHandlesFrames,
         serverAndHost, SendIgnoringFailure, HostTypes, GuestTypes, HostBroadcasts,
         HostRefused, HostFinishesChange, HostCopiesDocument, HostCopiesRevision,
         HostStartsDrain, HostHandlesEvent,
         HostFinishesDrain, SessionAdmits, SessionSendsJoinOk, SessionEnds, SessionPushesEvent,
         SessionRefuses, SessionSendsApply, SessionTakesSnapshot,
         SessionSendsChunk, GuestConnects, GuestJoins, GuestStarts, GuestJoinFails,
         GuestNoticesLoss, GuestHandlesBacklog, GuestHandlesEvent, LinkBreaks,
         vars, hostVars, sessionVars, sessionRest, guestRest, logVars
  <2> QED BY <2>1 DEF OperationsAccepted
<1> QED BY <1>1, <1>2, <1>3
-----------------------------------------------------------------------------
LEMMA HostTypesFollows ==
    ASSUME TurnTaking, IInv, HostFollows, NEW text \in Text, HostTypes(text)
    PROVE  HostFollows'
<1>1. /\ hostPc = "idle" /\ text # hostText /\ HostTurn
  BY DEF HostTypes
<1>2. /\ serverEvents = <<>> /\ sessionPc # "push" /\ toServer = <<>>
      /\ guestPc \notin {"connecting", "joined"}
  BY <1>1 DEF HostTurn
<1>3. BetweenChanges
  BY <1>1 DEF HostFollows
<1>4. /\ revision \in Nat /\ hostRev \in Nat /\ Len(<<>>) = 0
      /\ history[revision + 1] = document /\ document \in Text
  BY DEF IInv, TypeOK, LogExplainsDocument
<1>5. hostRev = revision
  BY <1>2, <1>3, <1>4 DEF BetweenChanges
<1>6. hostText = document /\ hostKnown = document
  BY <1>3, <1>4, <1>5 DEF BetweenChanges
<1>7. /\ hostText' = text /\ hostPc' = "apply" /\ hostTyped' = text
      /\ hostOps' = ComputeEditorDiff(document, text)
      /\ UNCHANGED <<document, revision, serverEvents, sessionPc, guestPc, toServer, hostRev>>
  BY <1>1, <1>6 DEF HostTypes, sessionVars, guestVars, linkVars
<1>8. Replays(document, hostOps', text)
  BY <1>4, <1>7, DiffReplays
<1>9. Replays(document, hostOps, hostTyped)'
  BY <1>7, <1>8 DEF Replays
<1>10. \A m \in Range(toServer') : m.type # "EDIT"
  BY <1>2, <1>7, RangeEmpty
<1> QED BY <1>2, <1>5, <1>7, <1>9, <1>10 DEF HostFollows, DuringChange

LEMMA HostCommitsFollows ==
    ASSUME IInv, HostFollows, HostCommits
    PROVE  HostFollows'
<1> DEFINE op == Head(hostOps)
<1>1. /\ hostPc = "apply" /\ hostOps # <<>> /\ Commit("A", op)
      /\ hostApply' = CommitMessage("A", op) /\ hostPc' = "broadcast"
      /\ UNCHANGED <<sessionPc, serverEvents, hostText, hostTyped, hostOps, guestPc, toServer>>
  BY DEF HostCommits, sessionVars, guestVars, linkVars
<1>2. DuringChange
  BY <1>1 DEF HostFollows
<1>3. /\ hostOps \in Seq(Operation) /\ document \in Text /\ hostTyped \in Text
  BY DEF IInv, TypeOK
<1>4. Replays(Applied(document, op), Tail(hostOps), hostTyped)
  BY <1>1, <1>2, <1>3, ReplaysHeadTail DEF DuringChange
<1>5. document' = Applied(document, op) /\ revision' = revision + 1
      /\ hostApply'.rev = revision + 1
  BY <1>1 DEF Commit, CommitMessage
<1> HIDE DEF op
<1>6. Replays(document, Tail(hostOps), hostTyped)'
  BY <1>1, <1>4, <1>5 DEF Replays
<1>7. DuringChange'
  BY <1>1, <1>2, <1>5, <1>6 DEF DuringChange
<1> QED BY <1>1, <1>7 DEF HostFollows

LEMMA HostNeverRefused ==
    ASSUME IInv, HostFollows, HostChangesFit
    PROVE  ~ HostRefused
<1> SUFFICES ASSUME HostRefused PROVE FALSE
  OBVIOUS
<1>1. hostPc = "apply" /\ hostOps # <<>> /\ ServerStatus(Head(hostOps)) # "applied"
  BY DEF HostRefused
<1>2. hostOps \in Seq(Operation) /\ document \in Text /\ hostTyped \in Text
  BY DEF IInv, TypeOK
<1>3. Replays(document, hostOps, hostTyped)
  BY <1>1 DEF HostFollows, DuringChange
<1>4. ApplyStatus(document, Head(hostOps)) = "applied"
  BY <1>1, <1>2, <1>3, ReplaysHeadTail
<1>5. Head(hostOps) \in Operation /\ Head(hostOps) = hostOps[1] /\ 1 \in 1..Len(hostOps)
  BY <1>1, <1>2, HeadTailProperties, EmptySeq
<1>6. Head(hostOps).type = "INSERT" => Len(Head(hostOps).text) <= MaxInsertChars
  BY <1>5 DEF HostChangesFit
<1> HIDE DEF HostChangesFit
<1> QED BY <1>1, <1>2, <1>4, <1>5, <1>6, FittingIsAccepted

LEMMA HostBroadcastsFollows ==
    ASSUME IInv, HostFollows, HostBroadcasts
    PROVE  HostFollows'
<1>1. /\ hostPc = "broadcast" /\ hostRev' = hostApply.rev /\ hostOps' = Tail(hostOps)
      /\ hostPc' = "apply"
      /\ UNCHANGED <<document, revision, sessionPc, serverEvents, hostText, hostTyped, guestPc,
                     toServer>>
  BY DEF HostBroadcasts, sessionVars, guestVars
<1>2. DuringChange
  BY <1>1 DEF HostFollows
<1>3. Replays(document, hostOps, hostTyped)'
  BY <1>1, <1>2 DEF DuringChange, Replays
<1>4. DuringChange'
  BY <1>1, <1>2, <1>3 DEF DuringChange
<1> QED BY <1>1, <1>4 DEF HostFollows

LEMMA HostFinishesChangeFollows ==
    ASSUME IInv, HostFollows, HostFinishesChange
    PROVE  HostFollows'
<1>1. /\ hostPc = "apply" /\ hostOps = <<>> /\ hostKnown' = hostTyped /\ hostPc' = "idle"
      /\ UNCHANGED <<revision, history, committed, sessionPc, sessionApply, serverEvents, hostText,
                     hostRev>>
  BY DEF HostFinishesChange, sessionVars, logVars
<1>2. DuringChange
  BY <1>1 DEF HostFollows
<1>3. document = hostTyped
  BY <1>1, <1>2, ReplaysEmpty DEF DuringChange
<1>4. history[revision + 1] = document /\ revision \in Nat /\ Len(<<>>) = 0
  BY DEF IInv, TypeOK, LogExplainsDocument
<1>5. BetweenChanges'
  BY <1>1, <1>2, <1>3, <1>4 DEF DuringChange, BetweenChanges
<1> QED BY <1>1, <1>5 DEF HostFollows

\* The next event is the next revision, and it is an operation the editor accepts.
LEMMA HostHandlesFollows ==
    ASSUME IInv, QueueInv, OperationsAccepted, HostFollows, HostHandlesEvent
    PROVE  HostFollows'
<1> DEFINE message == Head(serverEvents)
           outcome == ApplyOutcome(message, "A", hostRev, hostText)
<1>1. /\ hostPc = "drain" /\ serverEvents # <<>> /\ serverEvents' = Tail(serverEvents)
      /\ hostRev' = IF outcome \in {"own", "apply"} THEN message.rev ELSE hostRev
      /\ hostText' = IF outcome = "apply" THEN Applied(hostText, message.op) ELSE hostText
      /\ hostKnown' = IF outcome = "apply" THEN hostText' ELSE hostKnown
      /\ hostPc' = IF outcome = "resync" THEN "copyDocument" ELSE "drain"
      /\ UNCHANGED <<revision, history, committed, sessionPc, sessionApply>>
  BY DEF HostHandlesEvent, sessionVars, logVars
<1>2. BetweenChanges
  BY <1>1 DEF HostFollows
<1>3. /\ serverEvents \in Seq(ApplyMessage) /\ hostRev \in Nat /\ revision \in Nat
  BY DEF IInv, TypeOK
<1>4. /\ Len(serverEvents) \in Nat \ {0} /\ message = serverEvents[1] /\ message \in Range(serverEvents)
      /\ Len(Tail(serverEvents)) = Len(serverEvents) - 1
      /\ \A i \in 1..Len(serverEvents) - 1 : Tail(serverEvents)[i] = serverEvents[i + 1]
  BY <1>1, <1>3, HeadTailProperties, EmptySeq, RangeHeadTail
<1>5. hostRev + 1 \in 1..revision /\ 1 \in 1..Len(serverEvents)
  BY <1>2, <1>3, <1>4 DEF BetweenChanges
<1>6. message = committed[hostRev + 1]
  BY <1>2, <1>4, <1>5 DEF BetweenChanges
<1>7. /\ message.rev = hostRev + 1 /\ message.client = "B"
      /\ history[hostRev + 1 + 1] = Applied(hostText, message.op)
      /\ ApplyStatus(hostText, message.op) = "applied"
  <2>1. message.client = "B"
    BY <1>4 DEF QueueInv, EventsFromGuest
  <2>2. /\ committed[hostRev + 1].rev = hostRev + 1
        /\ history[hostRev + 1 + 1] = Applied(history[hostRev + 1], committed[hostRev + 1].op)
    BY <1>5 DEF IInv, LogExplainsDocument
  <2>3. ApplyStatus(history[hostRev + 1], committed[hostRev + 1].op) = "applied"
    BY <1>5 DEF OperationsAccepted
  <2>4. hostText = history[hostRev + 1]
    BY <1>2 DEF BetweenChanges
  <2> QED BY <1>6, <2>1, <2>2, <2>3, <2>4
<1> HIDE DEF message
<1>8. outcome = "apply"
  BY <1>3, <1>7 DEF ApplyOutcome
<1> HIDE DEF outcome
<1>9. /\ hostRev' = hostRev + 1 /\ hostText' = history[hostRev + 2] /\ hostKnown' = hostText'
      /\ hostPc' = "drain"
  <2>1. hostRev + 1 + 1 = hostRev + 2
    BY <1>3
  <2> QED BY <2>1, <1>1, <1>7, <1>8
<1>10. BetweenChanges'
  <2>1. hostText' = history'[hostRev' + 1]
    <3>1. hostRev + 1 + 1 = hostRev + 2
      BY <1>3
    <3> QED BY <3>1, <1>1, <1>9
  <2>2. Len(serverEvents') + (IF sessionPc' = "push" THEN 1 ELSE 0) = revision' - hostRev'
    <3>1. Len(serverEvents) + (IF sessionPc = "push" THEN 1 ELSE 0) = revision - hostRev
      BY <1>2 DEF BetweenChanges
    <3> QED BY <3>1, <1>1, <1>3, <1>4, <1>9
  <2>3. ASSUME NEW i \in 1..Len(serverEvents')
        PROVE  serverEvents'[i] = committed'[hostRev' + i]
    <3>1. /\ i \in 1..Len(serverEvents) - 1 /\ i + 1 \in 1..Len(serverEvents)
          /\ hostRev + (i + 1) = hostRev + 1 + i
      BY <1>1, <1>3, <1>4
    <3>2. serverEvents[i + 1] = committed[hostRev + (i + 1)]
      BY <3>1, <1>2 DEF BetweenChanges
    <3> QED BY <3>1, <3>2, <1>1, <1>4, <1>9
  <2>4. sessionPc' = "push" => sessionApply' = committed'[revision']
    BY <1>1, <1>2 DEF BetweenChanges
  <2> QED BY <2>1, <2>2, <2>3, <2>4, <1>9 DEF BetweenChanges
<1> QED BY <1>9, <1>10 DEF HostFollows

LEMMA SessionCommitsFollows ==
    ASSUME IInv, HostFollows, SessionCommits
    PROVE  HostFollows'
<1> DEFINE op == Head(toServer).op
           message == CommitMessage("B", op)
<1>1. /\ sessionPc = "receive" /\ toServer # <<>> /\ Head(toServer).type = "EDIT"
      /\ Commit("B", op) /\ sessionApply' = message /\ sessionPc' = "push"
      /\ UNCHANGED <<serverEvents, hostPc, hostText, hostKnown, hostRev>>
  BY DEF SessionCommits, sessionRest, hostVars
<1>2. op \in Operation /\ Head(toServer) \in Range(toServer)
  BY <1>1, ReceiveFacts, RangeHeadTail DEF IInv, TypeOK
<1> HIDE DEF op
<1>3. /\ revision' = revision + 1 /\ revision \in Nat /\ hostRev \in Nat
      /\ \A r \in 1..revision : committed'[r] = committed[r]
      /\ committed'[revision + 1] = message
      /\ \A r \in 1..revision + 1 : history'[r] = history[r]
  BY <1>1, <1>2, CommitAppends DEF IInv, TypeOK
<1>4. hostPc \in {"idle", "drain"}
  BY <1>1, <1>2 DEF HostFollows, DuringChange
<1>5. BetweenChanges
  BY <1>4 DEF HostFollows
<1>6. Len(serverEvents) = revision - hostRev /\ Len(serverEvents) \in Nat
  BY <1>1, <1>3, <1>5, LenProperties DEF BetweenChanges, IInv, TypeOK
<1> HIDE DEF message
<1>7. /\ hostText' = history'[hostRev' + 1] /\ hostKnown' = hostText'
      /\ sessionApply' = committed'[revision']
  <2>1. hostRev + 1 \in 1..revision + 1
    BY <1>3, <1>6
  <2> QED BY <2>1, <1>1, <1>3, <1>5 DEF BetweenChanges
<1>8. Len(serverEvents') + (IF sessionPc' = "push" THEN 1 ELSE 0) = revision' - hostRev'
  BY <1>1, <1>3, <1>6
<1>9. ASSUME NEW i \in 1..Len(serverEvents')
      PROVE  serverEvents'[i] = committed'[hostRev' + i]
  <2>1. i \in 1..Len(serverEvents) /\ hostRev + i \in 1..revision
    BY <1>1, <1>3, <1>6
  <2> QED BY <2>1, <1>1, <1>3, <1>5 DEF BetweenChanges
<1>10. BetweenChanges'
  BY <1>7, <1>8, <1>9 DEF BetweenChanges
<1> QED BY <1>1, <1>4, <1>10 DEF HostFollows

LEMMA SessionPushesFollows ==
    ASSUME IInv, HostFollows, SessionPushesEvent
    PROVE  HostFollows'
<1>1. /\ sessionPc = "push" /\ sessionPc' = "sendApply"
      /\ serverEvents' = Append(serverEvents, sessionApply)
      /\ UNCHANGED <<revision, history, committed, hostPc, hostText, hostKnown, hostRev>>
  BY DEF SessionPushesEvent, sessionRest, hostVars, logVars
<1>2. hostPc \in {"idle", "drain"} /\ BetweenChanges
  BY <1>1 DEF HostFollows, DuringChange
<1>3. /\ serverEvents \in Seq(ApplyMessage) /\ sessionApply \in ApplyMessage
      /\ hostRev \in Nat /\ revision \in Nat /\ Len(serverEvents) \in Nat
  BY <1>1, LenProperties DEF IInv, TypeOK, PcOK
<1>4. /\ Len(serverEvents') = Len(serverEvents) + 1
      /\ \A i \in 1..Len(serverEvents) : serverEvents'[i] = serverEvents[i]
      /\ serverEvents'[Len(serverEvents) + 1] = sessionApply
  BY <1>1, <1>3, AppendProperties
<1>5. Len(serverEvents) + 1 = revision - hostRev /\ sessionApply = committed[revision]
  BY <1>1, <1>2 DEF BetweenChanges
<1>6. Len(serverEvents') + (IF sessionPc' = "push" THEN 1 ELSE 0) = revision' - hostRev'
  BY <1>1, <1>3, <1>4, <1>5
<1>7. ASSUME NEW i \in 1..Len(serverEvents')
      PROVE  serverEvents'[i] = committed'[hostRev' + i]
  <2>1. CASE i = Len(serverEvents) + 1
    <3>1. hostRev + (Len(serverEvents) + 1) = revision
      BY <1>3, <1>5
    <3> QED BY <2>1, <3>1, <1>1, <1>4, <1>5
  <2>2. CASE i # Len(serverEvents) + 1
    <3>1. i \in 1..Len(serverEvents)
      BY <2>2, <1>3, <1>4
    <3> QED BY <3>1, <1>1, <1>2, <1>4 DEF BetweenChanges
  <2> QED BY <2>1, <2>2
<1>8. BetweenChanges'
  BY <1>1, <1>2, <1>6, <1>7 DEF BetweenChanges
<1> QED BY <1>1, <1>2, <1>8 DEF HostFollows

\* The steps that leave the host's window, the server's record and the queue alone, and
\* bring no edit of the guest to the server while the host is in the middle of a change.
QuietForHost ==
    /\ UNCHANGED <<document, revision, history, committed, serverEvents,
                   hostText, hostKnown, hostRev, hostTyped, hostOps, hostApply>>
    /\ hostPc' \in {"idle", "drain"} <=> hostPc \in {"idle", "drain"}
    /\ hostPc \in {"apply", "broadcast"} => hostPc' = hostPc
    /\ hostPc' \in {"idle", "drain", "apply", "broadcast"}
    /\ sessionPc' = "push" <=> sessionPc = "push"
    /\ sessionPc = "push" => sessionApply' = sessionApply
    /\ hostPc \in {"apply", "broadcast"} /\ guestPc \notin {"connecting", "joined"} =>
         /\ guestPc' \notin {"connecting", "joined"}
         /\ \A m \in Range(toServer') : m.type = "EDIT" => m \in Range(toServer)

LEMMA QuietForHostFollows ==
    ASSUME HostFollows, QuietForHost
    PROVE  HostFollows'
<1>1. CASE hostPc \in {"idle", "drain"}
  <2>1. BetweenChanges /\ hostPc' \in {"idle", "drain"}
    BY <1>1 DEF HostFollows, QuietForHost
  <2>2. BetweenChanges'
    BY <2>1 DEF BetweenChanges, QuietForHost
  <2> QED BY <2>1, <2>2 DEF HostFollows
<1>2. CASE hostPc \in {"apply", "broadcast"}
  <2>1. DuringChange /\ hostPc' = hostPc
    BY <1>2 DEF HostFollows, QuietForHost
  <2>2. /\ guestPc' \notin {"connecting", "joined"}
        /\ \A m \in Range(toServer') : m.type # "EDIT"
    BY <1>2, <2>1 DEF DuringChange, QuietForHost
  <2>3. /\ Replays(document, hostOps, hostTyped)' = Replays(document, hostOps, hostTyped)
        /\ Replays(document, Tail(hostOps), hostTyped)' = Replays(document, Tail(hostOps), hostTyped)
    BY DEF QuietForHost, Replays
  <2>4. DuringChange'
    BY <2>1, <2>2, <2>3 DEF DuringChange, QuietForHost
  <2> QED BY <1>2, <2>1, <2>4 DEF HostFollows
<1> QED BY <1>1, <1>2 DEF HostFollows

\* What the guest puts on the wire while the host is in the middle of a change, and what
\* the session thread and a broken connection take from it.
LEMMA ToServerQuiet ==
    ASSUME TurnTaking, IInv, [Next]_vars, hostPc \in {"apply", "broadcast"},
           guestPc \notin {"connecting", "joined"}
    PROVE  /\ guestPc' \notin {"connecting", "joined"}
           /\ \A m \in Range(toServer') : m.type = "EDIT" => m \in Range(toServer)
<1>1. toServer \in Seq(ClientMessage)
  BY DEF IInv, TypeOK
<1>2. CASE SessionCommits \/ SessionRefuses \/ SessionTakesSnapshot
  <2>1. toServer # <<>> /\ toServer' = Tail(toServer) /\ guestPc' = guestPc
    BY <1>2 DEF SessionCommits, SessionRefuses, SessionTakesSnapshot, sessionRest, guestVars
  <2> QED BY <2>1, <1>1, RangeHeadTail
<1>3. CASE SessionEnds
  BY <1>3, RangeEmpty DEF SessionEnds, sessionRest, guestVars
<1>4. CASE LinkBreaks
  <2>1. PICK k \in 0..Len(toServer) : toServer' = SubSeq(toServer, 1, k)
    BY <1>4 DEF LinkBreaks
  <2>2. k \in Nat /\ k <= Len(toServer) /\ guestPc' = guestPc
    BY <1>1, <1>4, <2>1, LenProperties DEF LinkBreaks
  <2>3. 1 \in Nat \ {0}
    OBVIOUS
  <2> QED BY <2>1, <2>2, <2>3, <1>1, RangeSubSeq
<1>5. CASE GuestHandlesBacklog \/ GuestHandlesEvent
  <2>1. PICK message : GuestHandles(message)
    BY <1>5 DEF GuestHandlesBacklog, GuestHandlesEvent
  <2>2. toServer' = toServer \/ toServer' = Append(toServer, [type |-> "SYNC_REQUEST"])
    BY <2>1 DEF GuestHandles, GuestHandlesApply, GuestHandlesChunk, SendSyncRequest, Transmit
  <2>3. guestPc' = guestPc
    BY <1>5 DEF GuestHandlesBacklog, GuestHandlesEvent
  <2> DEFINE request == [type |-> "SYNC_REQUEST"]
  <2>4. request \in ClientMessage /\ request.type = "SYNC_REQUEST"
    BY DEF ClientMessage, SyncRequest
  <2> HIDE DEF request
  <2>5. Range(toServer') \subseteq Range(toServer) \cup {request}
    <3>1. CASE toServer' = toServer
      BY <3>1
    <3>2. CASE toServer' = Append(toServer, request)
      BY <3>2, <2>4, <1>1, RangeAppend
    <3> QED BY <3>1, <3>2, <2>2 DEF request
  <2> QED BY <2>3, <2>4, <2>5
<1>6. CASE ~ (SessionCommits \/ SessionRefuses \/ SessionTakesSnapshot \/ SessionEnds
                \/ LinkBreaks \/ GuestHandlesBacklog \/ GuestHandlesEvent)
  <2>1. toServer' = toServer /\ guestPc' \notin {"connecting", "joined"}
    BY <1>6 DEF Next, Users, Host, Session, SessionServes, Guest, GuestHandlesFrames,
         serverAndHost, SendIgnoringFailure, HostTypes, GuestTypes, GuestTurn, HostCommits,
       HostRefused, HostBroadcasts, HostFinishesChange, HostCopiesDocument, HostCopiesRevision,
       HostStartsDrain, HostHandlesEvent, HostFinishesDrain, SessionAdmits, SessionSendsJoinOk,
       SessionPushesEvent, SessionSendsApply, SessionSendsChunk, GuestConnects, GuestJoins,
       GuestStarts, GuestJoinFails, GuestNoticesLoss, vars, guestVars, linkVars, sessionRest,
       guestRest
  <2> QED BY <2>1
<1> QED BY <1>2, <1>3, <1>4, <1>5, <1>6

LEMMA NextFollows ==
    ASSUME TurnTaking, IInv, QueueInv, OperationsAccepted, HostChangesFit, HostFollows, [Next]_vars
    PROVE  HostFollows'
<1>1. ASSUME NEW text \in Text, HostTypes(text) PROVE HostFollows'
  BY <1>1, HostTypesFollows
<1>2. CASE HostCommits \/ HostRefused \/ HostBroadcasts \/ HostFinishesChange \/ HostHandlesEvent
  BY <1>2, HostCommitsFollows, HostNeverRefused, HostBroadcastsFollows, HostFinishesChangeFollows,
     HostHandlesFollows
<1>3. CASE HostCopiesDocument \/ HostCopiesRevision
  BY <1>3 DEF HostCopiesDocument, HostCopiesRevision, HostFollows
<1>4. CASE SessionCommits \/ SessionPushesEvent
  BY <1>4, SessionCommitsFollows, SessionPushesFollows
<1>5. CASE \/ UNCHANGED vars
           \/ /\ Next
              /\ ~ (\E text \in Text : HostTypes(text))
              /\ ~ (HostCommits \/ HostRefused \/ HostBroadcasts \/ HostFinishesChange
                      \/ HostHandlesEvent \/ HostCopiesDocument \/ HostCopiesRevision
                      \/ SessionCommits \/ SessionPushesEvent)
  <2>1. hostPc \in {"apply", "broadcast"} /\ guestPc \notin {"connecting", "joined"} =>
          /\ guestPc' \notin {"connecting", "joined"}
          /\ \A m \in Range(toServer') : m.type = "EDIT" => m \in Range(toServer)
    BY ToServerQuiet
  <2>2. /\ UNCHANGED <<document, revision, history, committed, serverEvents,
                       hostText, hostKnown, hostRev, hostTyped, hostOps, hostApply>>
        /\ hostPc' = hostPc \/ (hostPc = "idle" /\ hostPc' = "drain")
                            \/ (hostPc = "drain" /\ hostPc' = "idle")
        /\ sessionPc' = "push" <=> sessionPc = "push"
        /\ sessionPc = "push" => sessionApply' = sessionApply
    BY <1>5 DEF Next, Users, Host, Session, SessionServes, Guest, GuestHandlesFrames,
         serverAndHost, SendIgnoringFailure, GuestTypes, HostStartsDrain,
         HostFinishesDrain, SessionAdmits, SessionSendsJoinOk, SessionEnds,
         SessionRefuses, SessionSendsApply, SessionTakesSnapshot,
         SessionSendsChunk, GuestConnects, GuestJoins, GuestStarts, GuestJoinFails,
         GuestNoticesLoss, GuestHandlesBacklog, GuestHandlesEvent, LinkBreaks,
         vars, hostVars, sessionVars, sessionRest, guestRest, logVars
  <2>3. hostPc \in {"idle", "drain", "apply", "broadcast"}
    BY DEF HostFollows
  <2>4. QuietForHost
    BY <2>1, <2>2, <2>3 DEF QuietForHost
  <2> QED BY <2>4, QuietForHostFollows
<1> QED BY <1>1, <1>2, <1>3, <1>4, <1>5 DEF Next, Users, Host, Session, SessionServes, Guest, GuestHandlesFrames

LEMMA InitFollows == Init => QueueInv /\ OperationsAccepted /\ HostFollows
<1> SUFFICES ASSUME Init PROVE QueueInv /\ OperationsAccepted /\ HostFollows
  OBVIOUS
<1>1. /\ hostRev = 0 /\ revision = 0 /\ serverEvents = <<>> /\ sessionPc = "none"
      /\ hostPc = "idle" /\ hostText = document /\ hostKnown = document
      /\ history = <<document>> /\ Len(<<>>) = 0
  BY DEF Init
<1>2. EventsFromGuest
  BY <1>1, RangeEmpty DEF EventsFromGuest
<1>3. hostRev + 1..revision = {} /\ 1..revision = {}
  BY <1>1
<1>4. history[hostRev + 1] = document
  BY <1>1
<1>5. BetweenChanges
  BY <1>1, <1>4 DEF BetweenChanges
<1> QED BY <1>1, <1>2, <1>3, <1>5
        DEF QueueInv, GuestEditsReachHostQueue, OperationsAccepted, HostFollows

\* When users take turns and no change inserts more than the server takes in one operation,
\* the host's editor shows the server's document whenever nothing is under way for it:
\* whatever the guest's connection does, and however its threads interleave.
THEOREM HostShowsDocument ==
    ASSUME TurnTaking
    PROVE  Spec /\ []HostChangesFit => []HostShowsServerDocument
<1>1. IInv /\ HostFollows => HostShowsServerDocument
  <2> SUFFICES ASSUME IInv, HostFollows, HostSettled
               PROVE  hostText = document /\ hostRev = revision
    BY DEF HostShowsServerDocument
  <2>1. /\ hostPc = "idle" /\ serverEvents = <<>> /\ sessionPc # "push" /\ Len(<<>>) = 0
        /\ revision \in Nat /\ hostRev \in Nat /\ history[revision + 1] = document
    BY DEF HostSettled, IInv, TypeOK, LogExplainsDocument
  <2>2. BetweenChanges
    BY <2>1 DEF HostFollows
  <2>3. hostRev = revision
    BY <2>1, <2>2 DEF BetweenChanges
  <2> QED BY <2>1, <2>2, <2>3 DEF BetweenChanges
<1>2. IInv /\ QueueInv /\ OperationsAccepted /\ HostFollows /\ HostChangesFit /\ [Next]_vars
        => HostFollows'
  BY NextFollows
<1> QED BY <1>1, <1>2, InitFollows, NextKeepsQueue, NextKeepsAccepted, Invariance, PTL DEF Spec

-----------------------------------------------------------------------------
(* The guest's editor when users take turns. *)

\* No change of the guest inserts more than the server takes in one operation.
GuestChangesFit ==
    \A m \in Range(toServer) :
        m.type = "EDIT" /\ m.op.type = "INSERT" => Len(m.op.text) <= MaxInsertChars

\* What the guest's window handles next, event by event.
Stream == IF guestPc = "connecting" THEN backlog ELSE backlog \o toGuest

IsOwn(m)   == m.type = "APPLY" /\ m.client = "B"
IsHosts(m) == m.type = "APPLY" /\ m.client = "A"
IsChunk(m) == m.type = "SYNC_RESPONSE"
AllOwn(S)  == \A i \in 1..Len(S) : IsOwn(S[i])

\* Once m is handled, the guest is at revision r.
EndsAt(m, r) ==
    /\ IsOwn(m) \/ IsHosts(m) \/ (IsChunk(m) /\ m.index + 1 = m.count)
    /\ m.rev = r

\* n is a message the server side sends after m.
Follows(m, n) ==
    \/ IsChunk(n) /\ n.index = 0
    \/ IsChunk(n) /\ IsChunk(m) /\ n.rev = m.rev /\ n.index = m.index + 1
    \/ IsOwn(n) /\ IsOwn(m) /\ n.rev = m.rev + 1
    \/ IsHosts(n) /\ EndsAt(m, n.rev - 1)

\* The guest at revision rev, with these chunks collected, takes m next.
Collected(chunks, rev, count, n) ==
    /\ chunks.rev = rev /\ Len(chunks.parts) = count
    /\ \A i \in 1..n : chunks.parts[i] # <<>>

Begins(m, rev, chunks) ==
    \/ IsChunk(m) /\ m.index = 0
    \/ IsChunk(m) /\ m.index > 0 /\ Collected(chunks, m.rev, m.count, m.index)
    \/ (IsOwn(m) \/ IsHosts(m)) /\ m.rev = rev + 1

Chained(S, rev, chunks) ==
    /\ S # <<>> => Begins(S[1], rev, chunks)
    /\ \A i \in 1..Len(S) - 1 : Follows(S[i], S[i + 1])

\* A change of the host finds the guest's editor as the host's editor was before it.
TextFits(S, text, record) ==
    \A i \in 1..Len(S) :
        IsHosts(S[i]) /\ (\A j \in 1..i - 1 : IsOwn(S[j])) => text = record[S[i].rev]

\* The chunk that completes a collection is the last one.
LastMissing(chunks) == chunks.parts # <<>> => chunks.parts[Len(chunks.parts)] = <<>>

LEMMA ChainedAppend ==
    ASSUME NEW S \in Seq(ServerMessage), NEW m \in ServerMessage, NEW rev, NEW chunks,
           Chained(S, rev, chunks),
           IF S = <<>> THEN Begins(m, rev, chunks) ELSE Follows(S[Len(S)], m)
    PROVE  Chained(Append(S, m), rev, chunks)
<1> DEFINE A == Append(S, m)
<1>1. /\ A \in Seq(ServerMessage) /\ A # <<>> /\ Len(A) = Len(S) + 1 /\ Len(S) \in Nat
      /\ \A i \in 1..Len(S) : A[i] = S[i]
      /\ A[Len(S) + 1] = m
  BY AppendProperties, LenProperties
<1>2. S # <<>> => Len(S) \in Nat \ {0}
  BY EmptySeq
<1>3. S = <<>> => Len(S) = 0
  OBVIOUS
<1> HIDE DEF A
<1>4. Begins(A[1], rev, chunks)
  <2>1. CASE S = <<>>
    BY <2>1, <1>1, <1>3
  <2>2. CASE S # <<>>
    <3>1. 1 \in 1..Len(S)
      BY <2>2, <1>2
    <3> QED BY <2>2, <3>1, <1>1 DEF Chained
  <2> QED BY <2>1, <2>2
<1>5. ASSUME NEW i \in 1..Len(A) - 1
      PROVE  Follows(A[i], A[i + 1])
  <2>1. CASE i = Len(S)
    <3>1. S # <<>> /\ i \in 1..Len(S)
      BY <2>1, <1>1, <1>3
    <3>2. A[i] = S[Len(S)] /\ A[i + 1] = m
      BY <2>1, <3>1, <1>1
    <3> QED BY <3>1, <3>2
  <2>2. CASE i # Len(S)
    <3>1. i \in 1..Len(S) - 1 /\ i \in 1..Len(S) /\ i + 1 \in 1..Len(S)
      BY <2>2, <1>1
    <3> QED BY <3>1, <1>1 DEF Chained
  <2> QED BY <2>1, <2>2
<1> QED BY <1>4, <1>5 DEF Chained, A

LEMMA ChainedPrefix ==
    ASSUME NEW S \in Seq(ServerMessage), NEW P \in Seq(ServerMessage), NEW rev, NEW chunks,
           Len(P) <= Len(S), \A i \in 1..Len(P) : P[i] = S[i], Chained(S, rev, chunks)
    PROVE  Chained(P, rev, chunks)
<1>1. Len(S) \in Nat /\ Len(P) \in Nat /\ (P # <<>> => Len(P) > 0) /\ (S = <<>> => Len(S) = 0)
  BY LenProperties, EmptySeq
<1>2. P # <<>> => S # <<>> /\ 1 \in 1..Len(P)
  BY <1>1
<1>3. ASSUME NEW i \in 1..Len(P) - 1 PROVE Follows(P[i], P[i + 1])
  <2>1. i \in 1..Len(S) - 1 /\ i \in 1..Len(P) /\ i + 1 \in 1..Len(P)
    BY <1>1
  <2> QED BY <2>1 DEF Chained
<1> QED BY <1>2, <1>3 DEF Chained

LEMMA TextFitsAppend ==
    ASSUME NEW S \in Seq(ServerMessage), NEW m \in ServerMessage, NEW text, NEW record,
           TextFits(S, text, record),
           IsHosts(m) /\ AllOwn(S) => text = record[m.rev]
    PROVE  TextFits(Append(S, m), text, record)
<1> DEFINE A == Append(S, m)
<1>1. /\ Len(A) = Len(S) + 1 /\ Len(S) \in Nat
      /\ \A i \in 1..Len(S) : A[i] = S[i]
      /\ A[Len(S) + 1] = m
  BY AppendProperties, LenProperties
<1> HIDE DEF A
<1>2. ASSUME NEW i \in 1..Len(A), IsHosts(A[i]), \A j \in 1..i - 1 : IsOwn(A[j])
      PROVE  text = record[A[i].rev]
  <2>1. CASE i = Len(S) + 1
    <3>1. A[i] = m /\ \A j \in 1..Len(S) : j \in 1..i - 1
      BY <2>1, <1>1
    <3>2. AllOwn(S)
      BY <3>1, <1>1, <1>2 DEF AllOwn
    <3> QED BY <3>1, <3>2, <1>2
  <2>2. CASE i # Len(S) + 1
    <3>1. i \in 1..Len(S) /\ \A j \in 1..i - 1 : j \in 1..Len(S)
      BY <2>2, <1>1
    <3>2. IsHosts(S[i]) /\ \A j \in 1..i - 1 : IsOwn(S[j])
      BY <3>1, <1>1, <1>2
    <3> QED BY <3>1, <3>2, <1>1 DEF TextFits
  <2> QED BY <2>1, <2>2
<1> QED BY <1>2 DEF TextFits, A

LEMMA TextFitsPrefix ==
    ASSUME NEW S \in Seq(ServerMessage), NEW P \in Seq(ServerMessage), NEW text, NEW record,
           Len(P) <= Len(S), \A i \in 1..Len(P) : P[i] = S[i], TextFits(S, text, record)
    PROVE  TextFits(P, text, record)
<1>1. Len(S) \in Nat /\ Len(P) \in Nat
  BY LenProperties
<1>2. ASSUME NEW i \in 1..Len(P), IsHosts(P[i]), \A j \in 1..i - 1 : IsOwn(P[j])
      PROVE  text = record[P[i].rev]
  <2>1. i \in 1..Len(S) /\ \A j \in 1..i - 1 : j \in 1..Len(P)
    BY <1>1
  <2>2. IsHosts(S[i]) /\ \A j \in 1..i - 1 : IsOwn(S[j])
    BY <2>1, <1>2
  <2> QED BY <2>1, <2>2 DEF TextFits
<1> QED BY <1>2 DEF TextFits

\* Of a chain whose first message is handled: what is left is a chain again, if the guest
\* takes the next message.
LEMMA ChainedTail ==
    ASSUME NEW S \in Seq(ServerMessage), S # <<>>, NEW rev, NEW chunks, NEW rev2, NEW chunks2,
           Chained(S, rev, chunks),
           \A n \in ServerMessage : Follows(S[1], n) /\ n \in Range(S) => Begins(n, rev2, chunks2)
    PROVE  Chained(Tail(S), rev2, chunks2)
<1>1. /\ Tail(S) \in Seq(ServerMessage) /\ Len(Tail(S)) = Len(S) - 1 /\ Len(S) \in Nat \ {0}
      /\ \A i \in 1..Len(S) - 1 : Tail(S)[i] = S[i + 1]
      /\ \A i \in 1..Len(S) : S[i] \in ServerMessage /\ S[i] \in Range(S)
  <2>1. Range(S) = {S[i] : i \in 1..Len(S)}
    BY RangeEquality
  <2> QED BY <2>1, HeadTailProperties, EmptySeq, ElementOfSeq
<1>2. ASSUME Tail(S) # <<>> PROVE Begins(Tail(S)[1], rev2, chunks2)
  <2>1. Len(Tail(S)) > 0
    BY <1>1, <1>2, EmptySeq
  <2>2. 1 \in 1..Len(S) - 1 /\ 1 + 1 \in 1..Len(S)
    BY <2>1, <1>1
  <2>3. Follows(S[1], S[1 + 1]) /\ Tail(S)[1] = S[1 + 1]
    BY <2>2, <1>1 DEF Chained
  <2> QED BY <2>2, <2>3, <1>1
<1>3. ASSUME NEW i \in 1..Len(Tail(S)) - 1 PROVE Follows(Tail(S)[i], Tail(S)[i + 1])
  <2>1. i \in 1..Len(S) - 1 /\ i + 1 \in 1..Len(S) - 1
    BY <1>1
  <2> QED BY <2>1, <1>1 DEF Chained
<1> QED BY <1>2, <1>3 DEF Chained

LEMMA TextFitsTail ==
    ASSUME NEW S \in Seq(ServerMessage), S # <<>>, NEW rev, NEW chunks, NEW text, NEW text2,
           NEW record,
           Chained(S, rev, chunks), TextFits(S, text, record),
           IsOwn(S[1]) => text2 = text,
           \A r : EndsAt(S[1], r) /\ ~ IsOwn(S[1]) => text2 = record[r + 1],
           \A m \in Range(S) : m.type = "APPLY" => m.rev \in Nat
    PROVE  TextFits(Tail(S), text2, record)
<1>1. /\ Tail(S) \in Seq(ServerMessage) /\ Len(Tail(S)) = Len(S) - 1 /\ Len(S) \in Nat \ {0}
      /\ \A i \in 1..Len(S) - 1 : Tail(S)[i] = S[i + 1]
      /\ \A i \in 1..Len(S) : S[i] \in ServerMessage /\ S[i] \in Range(S)
  <2>1. Range(S) = {S[i] : i \in 1..Len(S)}
    BY RangeEquality
  <2> QED BY <2>1, HeadTailProperties, EmptySeq, ElementOfSeq
<1>2. ASSUME NEW i \in 1..Len(Tail(S)), IsHosts(Tail(S)[i]),
             \A j \in 1..i - 1 : IsOwn(Tail(S)[j])
      PROVE  text2 = record[Tail(S)[i].rev]
  <2>1. i \in 1..Len(S) - 1 /\ i + 1 \in 1..Len(S) /\ Tail(S)[i] = S[i + 1]
    BY <1>1
  <2>2. CASE IsOwn(S[1])
    <3>1. ASSUME NEW j \in 1..i PROVE IsOwn(S[j])
      <4>1. CASE j = 1
        BY <4>1, <2>2
      <4>2. CASE j # 1
        <5>1. j - 1 \in 1..i - 1 /\ j - 1 \in 1..Len(S) - 1 /\ j - 1 + 1 = j
          BY <4>2, <2>1, <1>1
        <5> QED BY <5>1, <1>1, <1>2
      <4> QED BY <4>1, <4>2
    <3>2. i + 1 - 1 = i
      BY <2>1
    <3> QED BY <3>1, <3>2, <2>1, <2>2, <1>2 DEF TextFits
  <2>3. CASE ~ IsOwn(S[1]) /\ i = 1
    <3>1. Follows(S[1], S[1 + 1])
      BY <2>1, <2>3 DEF Chained
    <3>2. IsHosts(S[1 + 1])
      BY <2>1, <2>3, <1>2
    <3>3. EndsAt(S[1], S[1 + 1].rev - 1)
      BY <3>1, <3>2 DEF Follows, IsHosts, IsOwn, IsChunk
    <3>4. S[1 + 1].rev \in Nat
      BY <3>2, <2>1, <2>3, <1>1 DEF IsHosts
    <3>5. S[1 + 1].rev - 1 + 1 = S[1 + 1].rev
      BY <3>4
    <3>6. text2 = record[S[1 + 1].rev - 1 + 1]
      BY <3>3, <2>3
    <3> QED BY <3>5, <3>6, <2>1, <2>3
  <2>4. CASE ~ IsOwn(S[1]) /\ i # 1
    <3>1. 1 \in 1..i - 1 /\ 1 \in 1..Len(S) - 1
      BY <2>1, <2>4, <1>1
    <3>2. IsOwn(S[1 + 1]) /\ Follows(S[1], S[1 + 1])
      BY <3>1, <1>1, <1>2 DEF Chained
    <3> QED BY <3>2, <2>4 DEF Follows, IsHosts, IsOwn, IsChunk
  <2> QED BY <2>2, <2>3, <2>4
<1> QED BY <1>2 DEF TextFits

\* The part of the chain that is not the guest's own is not followed by it.
LEMMA OwnFollowsOwn ==
    ASSUME NEW S \in Seq(ServerMessage), S # <<>>, NEW rev, NEW chunks, Chained(S, rev, chunks),
           AllOwn(Tail(S)), ~ AllOwn(S)
    PROVE  Tail(S) = <<>> /\ ~ IsOwn(S[1])
<1>1. /\ Tail(S) \in Seq(ServerMessage) /\ Len(Tail(S)) = Len(S) - 1 /\ Len(S) \in Nat \ {0}
      /\ \A i \in 1..Len(S) - 1 : Tail(S)[i] = S[i + 1]
  BY HeadTailProperties, EmptySeq
<1>2. ASSUME NEW i \in 1..Len(S), i # 1 PROVE IsOwn(S[i])
  <2>1. i - 1 \in 1..Len(S) - 1 /\ i - 1 + 1 = i
    BY <1>1, <1>2
  <2> QED BY <2>1, <1>1 DEF AllOwn
<1>3. ~ IsOwn(S[1])
  BY <1>2 DEF AllOwn
<1>4. ASSUME Tail(S) # <<>> PROVE FALSE
  <2>1. Len(Tail(S)) > 0
    BY <1>1, <1>4, EmptySeq
  <2>2. 1 \in 1..Len(S) - 1 /\ 1 + 1 \in 1..Len(S) /\ 1 + 1 # 1
    BY <2>1, <1>1
  <2>3. Follows(S[1], S[1 + 1]) /\ IsOwn(S[1 + 1])
    BY <2>2, <1>2 DEF Chained
  <2> QED BY <2>3, <1>3 DEF Follows, IsHosts, IsOwn, IsChunk
<1> QED BY <1>3, <1>4

-----------------------------------------------------------------------------
\* What the guest has collected once it has stored a chunk: that chunk, and those it had
\* of the same response.
LEMMA StoresChunk ==
    ASSUME IInv, NEW message \in SyncChunk, message.index + 1 \in 1..message.count
    PROVE  /\ ChunksWith(message).rev = message.rev
           /\ Len(ChunksWith(message).parts) = message.count
           /\ ChunksWith(message).parts[message.index + 1] # <<>>
           /\ \A i \in 1..message.count : i # message.index + 1 =>
                ChunksWith(message).parts[i] =
                  IF guestChunks.rev = message.rev /\ Len(guestChunks.parts) = message.count
                  THEN guestChunks.parts[i] ELSE <<>>
<1> DEFINE Part  == Seq(Seq(Char))
           count == message.count
           same  == guestChunks.rev = message.rev /\ Len(guestChunks.parts) = message.count
           empty == [i \in 1..message.count |-> <<>>]
           kept  == IF guestChunks.rev = message.rev /\ Len(guestChunks.parts) = message.count
                    THEN guestChunks.parts ELSE empty
           parts == [kept EXCEPT ![message.index + 1] = <<message.text>>]
<1>1. /\ count \in Nat /\ message.index \in Nat /\ message.text \in Seq(Char)
      /\ guestChunks.parts \in Seq(Part)
  BY DEF SyncChunk, IInv, TypeOK
<1>2. ChunksWith(message).rev = message.rev /\ ChunksWith(message).parts = parts
  BY DEF ChunksWith
<1>3. <<message.text>> \in Part /\ <<>> \in Part /\ <<message.text>> # <<>>
  BY <1>1
<1> HIDE DEF Part, count
<1>4. /\ empty \in Seq(Part) /\ Len(empty) = count
      /\ \A i \in 1..count : empty[i] = <<>>
  <2>1. empty \in [1..count -> Part] /\ \A i \in 1..count : empty[i] = <<>>
    BY <1>3 DEF count
  <2> HIDE DEF empty
  <2> QED BY <2>1, <1>1, SeqDef
<1> HIDE DEF empty
<1>5. /\ kept \in Seq(Part) /\ Len(kept) = count
      /\ \A i \in 1..count : kept[i] = IF same THEN guestChunks.parts[i] ELSE <<>>
  BY <1>1, <1>4 DEF count
<1> HIDE DEF kept, same
<1>6. /\ Len(parts) = count
      /\ \A i \in 1..count : parts[i] = IF i = message.index + 1 THEN <<message.text>> ELSE kept[i]
  BY <1>1, <1>3, <1>5, ExceptSeq DEF count
<1> HIDE DEF parts
<1>7. parts[message.index + 1] = <<message.text>>
  BY <1>6 DEF count
<1>8. ASSUME NEW i \in 1..count, i # message.index + 1
      PROVE  parts[i] = IF same THEN guestChunks.parts[i] ELSE <<>>
  BY <1>5, <1>6, <1>8
<1> QED BY <1>2, <1>3, <1>6, <1>7, <1>8 DEF same, count

\* What the guest is ready to take after message, and what it shows.
Takes(message) ==
    /\ toServer' = toServer /\ LastMissing(guestChunks')
    /\ IsOwn(message) => guestText' = guestText
    /\ \A r : EndsAt(message, r) =>
         guestRev' = r /\ (~ IsOwn(message) => guestText' = history[r + 1])
    /\ \A n \in ServerMessage :
         Follows(message, n) /\ (IsChunk(n) => IsChunkOfHistory(n)) =>
            Begins(n, guestRev', guestChunks')
    /\ IsChunk(message) /\ message.index + 1 # message.count =>
         Collected(guestChunks', message.rev, message.count, message.index + 1)

LEMMA TakesApply ==
    ASSUME IInv, OperationsAccepted, NEW message \in ServerMessage,
           message \in Range(toGuest) \cup Range(backlog), GuestHandles(message),
           message.type = "APPLY", Begins(message, guestRev, guestChunks),
           LastMissing(guestChunks), IsHosts(message) => guestText = history[message.rev]
    PROVE  Takes(message)
<1> DEFINE outcome == ApplyOutcome(message, "B", guestRev, guestText)
<1>1. message.type # "SYNC_RESPONSE" /\ message.type # "ERROR"
  OBVIOUS
<1>2. /\ guestRev' = IF outcome \in {"own", "apply"} THEN message.rev ELSE guestRev
      /\ guestText' = IF outcome = "apply" THEN Applied(guestText, message.op) ELSE guestText
      /\ toServer' = IF outcome = "resync" /\ guestPc \in {"joined", "online"}
                     THEN Transmit(toServer, [type |-> "SYNC_REQUEST"]) ELSE toServer
      /\ guestChunks' = guestChunks
  BY <1>1 DEF GuestHandles, GuestHandlesApply, SendSyncRequest
<1>3. /\ message.rev = guestRev + 1 /\ guestRev \in Nat /\ (IsOwn(message) \/ IsHosts(message))
      /\ ~ IsChunk(message) /\ message.rev \in Nat
  BY DEF Begins, IsChunk, IsOwn, IsHosts, IInv, TypeOK
<1>4. message.rev \in 1..revision /\ committed[message.rev] = message
  BY DEF IInv, AppliesMatchLog, AppliesUnderWay
<1>5. /\ message.client = "B" => outcome = "own"
      /\ message.client = "A" => outcome = "apply"
  <2>1. CASE message.client = "B"
    BY <2>1, <1>3 DEF ApplyOutcome
  <2>2. CASE message.client = "A"
    <3>1. guestText = history[message.rev]
      BY <2>2 DEF IsHosts
    <3>2. ApplyStatus(guestText, message.op) = "applied"
      BY <3>1, <1>4 DEF OperationsAccepted
    <3> QED BY <2>2, <3>2, <1>3 DEF ApplyOutcome
  <2> QED BY <2>1, <2>2
<1> HIDE DEF outcome
<1>6. guestRev' = message.rev /\ toServer' = toServer
  BY <1>2, <1>3, <1>5 DEF IsOwn, IsHosts
<1>7. IsOwn(message) => guestText' = guestText
  BY <1>2, <1>5 DEF IsOwn
<1>8. ~ IsOwn(message) => guestText' = history[message.rev + 1]
  <2>1. history[message.rev + 1] = Applied(history[message.rev], message.op)
    BY <1>4 DEF IInv, LogExplainsDocument
  <2> QED BY <2>1, <1>2, <1>3, <1>5 DEF IsOwn, IsHosts
<1>9. \A r : EndsAt(message, r) => r = message.rev
  BY DEF EndsAt
<1>10. ASSUME NEW n \in ServerMessage, Follows(message, n)
       PROVE  Begins(n, guestRev', guestChunks')
  <2>1. CASE IsChunk(n) /\ n.index = 0
    BY <2>1 DEF Begins
  <2>2. CASE IsOwn(n) /\ IsOwn(message) /\ n.rev = message.rev + 1
    BY <2>2, <1>6 DEF Begins
  <2>3. CASE IsHosts(n) /\ EndsAt(message, n.rev - 1)
    <3>1. n.rev \in Nat
      BY <2>3 DEF IsHosts, ServerMessage, ApplyMessage, SyncChunk, Notice
    <3>2. n.rev = message.rev + 1
      BY <2>3, <3>1, <1>3, <1>9
    <3> QED BY <2>3, <3>2, <1>6 DEF Begins
  <2> QED BY <2>1, <2>2, <2>3, <1>3, <1>10 DEF Follows
<1> QED BY <1>2, <1>3, <1>6, <1>7, <1>8, <1>9, <1>10 DEF Takes

LEMMA TakesChunk ==
    ASSUME IInv, ChunksInv, NEW message \in ServerMessage,
           message \in Range(toGuest) \cup Range(backlog), GuestHandles(message),
           IsChunk(message), Begins(message, guestRev, guestChunks), LastMissing(guestChunks)
    PROVE  Takes(message)
<1> DEFINE chunks == ChunksWith(message)
<1>1. message.type = "SYNC_RESPONSE" /\ ~ IsOwn(message) /\ ~ IsHosts(message)
  BY DEF IsChunk, IsOwn, IsHosts
<1>2. GuestHandlesChunk(message) /\ toServer' = toServer
  BY <1>1 DEF GuestHandles, GuestHandlesChunk
<1>3. message \in SyncChunk /\ IsChunkOfHistory(message)
  BY <1>1 DEF ChunksInv, ServerMessage, ApplyMessage, Notice
<1>4. /\ message.rev \in 0..revision /\ message.index + 1 \in 1..message.count
      /\ message.count = ChunkCount(history[message.rev + 1])
      /\ message.text = Chunk(history[message.rev + 1], message.index)
      /\ message.index \in Nat /\ message.rev \in Nat /\ message.count \in Nat
  BY <1>3 DEF IsChunkOfHistory, ChunkMessage, SyncChunk
<1>5. /\ chunks.rev = message.rev /\ Len(chunks.parts) = message.count
      /\ chunks.parts[message.index + 1] # <<>>
      /\ \A i \in 1..message.count : i # message.index + 1 =>
           chunks.parts[i] =
             IF guestChunks.rev = message.rev /\ Len(guestChunks.parts) = message.count
             THEN guestChunks.parts[i] ELSE <<>>
  BY <1>3, <1>4, StoresChunk
<1>6. PartsAreHistory(chunks)
  BY <1>3, ChunksWithHistory
<1> HIDE DEF chunks
<1>7. chunks.parts # <<>>
  <2>1. Len(chunks.parts) # 0 /\ Len(<<>>) = 0
    BY <1>4, <1>5
  <2> QED BY <2>1
<1>8. message.index > 0 => Collected(guestChunks, message.rev, message.count, message.index)
  BY <1>1, <1>4 DEF Begins, IsChunk
<1>9. \A r : EndsAt(message, r) => r = message.rev /\ message.index + 1 = message.count
  BY <1>1 DEF EndsAt
<1>10. CASE message.index + 1 = message.count
  <2>1. guestRev' = message.rev /\ guestText' = history[message.rev + 1] /\ guestChunks'.parts = <<>>
    <3>1. CASE message.count = 1
      <4>1. /\ guestText' = message.text /\ guestRev' = message.rev
            /\ guestChunks' = [guestChunks EXCEPT !.parts = <<>>] /\ message.index = 0
        BY <3>1, <1>2, <1>4, <1>10 DEF GuestHandlesChunk
      <4>2. history[message.rev + 1] \in Text
        BY <1>4, HistoryIsText
      <4>3. message.text = history[message.rev + 1]
        BY <3>1, <4>1, <4>2, <1>4, SingleChunk
      <4>4. guestChunks'.parts = <<>>
        BY <4>1 DEF IInv, TypeOK
      <4> QED BY <4>1, <4>3, <4>4
    <3>2. CASE message.count # 1
      <4>1. message.index > 0
        BY <3>2, <1>4, <1>10
      <4>2. ASSUME NEW i \in 1..message.count PROVE chunks.parts[i] # <<>>
        <5>1. CASE i = message.index + 1
          BY <5>1, <1>5
        <5>2. CASE i # message.index + 1
          <6>1. i \in 1..message.index
            BY <5>2, <1>4, <1>10
          <6> QED BY <5>2, <6>1, <4>1, <1>5, <1>8 DEF Collected
        <5> QED BY <5>1, <5>2
      <4>3. Complete(chunks)
        BY <4>2, <1>5 DEF Complete
      <4>4. guestText' = Merged(chunks) /\ guestRev' = message.rev /\ guestChunks'.parts = <<>>
        BY <3>2, <4>3, <1>2 DEF GuestHandlesChunk, chunks
      <4>5. Merged(chunks) = history[message.rev + 1]
        BY <4>3, <1>5, <1>6, <1>7, CompleteIsHistory
      <4> QED BY <4>4, <4>5
    <3> QED BY <3>1, <3>2
  <2>2. ASSUME NEW n \in ServerMessage, Follows(message, n), IsChunk(n) => IsChunkOfHistory(n)
        PROVE  Begins(n, guestRev', guestChunks')
    <3>1. CASE IsChunk(n) /\ n.index = 0
      BY <3>1 DEF Begins
    <3>2. CASE IsChunk(n) /\ n.rev = message.rev /\ n.index = message.index + 1
      <4>1. n.index + 1 \in 1..message.count
        BY <3>2, <2>2, <1>4 DEF IsChunkOfHistory
      <4> QED BY <3>2, <4>1, <1>4, <1>10
    <3>3. CASE IsHosts(n) /\ EndsAt(message, n.rev - 1)
      <4>1. n.rev \in Nat
        BY <3>3 DEF IsHosts, ServerMessage, ApplyMessage, SyncChunk, Notice
      <4>2. n.rev = message.rev + 1
        BY <3>3, <4>1, <1>4, <1>9
      <4> QED BY <3>3, <4>2, <2>1 DEF Begins
    <3> QED BY <3>1, <3>2, <3>3, <2>2, <1>1 DEF Follows
  <2> QED BY <2>1, <2>2, <1>1, <1>2, <1>9, <1>10 DEF Takes, LastMissing
<1>11. CASE message.index + 1 # message.count
  <2>1. message.index + 1 < message.count /\ message.count # 1 /\ message.count \in 1..message.count
    BY <1>4, <1>11
  <2>2. chunks.parts[message.count] = <<>>
    <3>1. guestChunks.rev = message.rev /\ Len(guestChunks.parts) = message.count =>
             guestChunks.parts[message.count] = <<>>
      <4> SUFFICES ASSUME Len(guestChunks.parts) = message.count
                   PROVE  guestChunks.parts[message.count] = <<>>
        OBVIOUS
      <4>1. guestChunks.parts # <<>>
        <5>1. Len(<<>>) = 0
          OBVIOUS
        <5> QED BY <5>1, <2>1, <1>4
      <4> QED BY <4>1 DEF LastMissing
    <3>2. message.count # message.index + 1
      BY <1>11
    <3> QED BY <3>1, <3>2, <2>1, <1>5
  <2>3. ~ Complete(chunks)
    BY <2>1, <2>2, <1>5 DEF Complete
  <2>4. guestChunks' = chunks
    BY <2>1, <2>3, <1>2 DEF GuestHandlesChunk, chunks
  <2>5. Collected(chunks, message.rev, message.count, message.index + 1)
    <3>1. ASSUME NEW i \in 1..message.index + 1 PROVE chunks.parts[i] # <<>>
      <4>1. CASE i = message.index + 1
        BY <4>1, <1>5
      <4>2. CASE i # message.index + 1
        <5>1. i \in 1..message.index /\ message.index > 0 /\ i \in 1..message.count
          BY <4>2, <2>1, <1>4
        <5> QED BY <4>2, <5>1, <1>5, <1>8 DEF Collected
      <4> QED BY <4>1, <4>2
    <3> QED BY <3>1, <1>5 DEF Collected
  <2>6. LastMissing(guestChunks')
    BY <2>2, <2>4, <1>5 DEF LastMissing
  <2>7. ASSUME NEW n \in ServerMessage, Follows(message, n), IsChunk(n) => IsChunkOfHistory(n)
        PROVE  Begins(n, guestRev', guestChunks')
    <3>1. CASE IsChunk(n) /\ n.index = 0
      BY <3>1 DEF Begins
    <3>2. CASE IsChunk(n) /\ n.rev = message.rev /\ n.index = message.index + 1
      <4>1. n.count = message.count
        BY <3>2, <2>7, <1>4 DEF IsChunkOfHistory, ChunkMessage
      <4>2. Collected(guestChunks', n.rev, n.count, n.index) /\ n.index > 0
        BY <3>2, <4>1, <2>4, <2>5, <1>4
      <4> QED BY <3>2, <4>2 DEF Begins
    <3>3. CASE IsHosts(n) /\ EndsAt(message, n.rev - 1)
      BY <3>3, <1>9, <1>11
    <3> QED BY <3>1, <3>2, <3>3, <2>7, <1>1 DEF Follows
  <2> QED BY <2>4, <2>5, <2>6, <2>7, <1>1, <1>2, <1>9, <1>11 DEF Takes
<1> QED BY <1>10, <1>11

-----------------------------------------------------------------------------
(* What the guest is going to see, and what it shows, in each phase of a connection. *)

\* The revision that the messages under way lead the guest to.
Sent == IF sessionPc \in {"push", "sendApply"} \/ hostPc = "broadcast"
        THEN revision - 1 ELSE revision

PendingOps(frames) == [i \in 1..Len(frames) |-> frames[i].op]

HostQuiet == hostPc \in {"idle", "drain"}

\* The guest has connected and not yet asked for the document: nothing of this connection
\* reaches its window.
Connecting ==
    /\ toServer = <<>> /\ HostQuiet
    /\ \/ sessionPc \in {"none", "joinOk"} /\ toGuest = <<>>
       \/ sessionPc = "receive" /\ toGuest = <<[type |-> "JOIN_OK"]>>

Joined == toServer = <<>> /\ toGuest = <<>> /\ sessionPc = "receive" /\ HostQuiet

Requested ==
    /\ toServer = <<[type |-> "SYNC_REQUEST"]>> /\ sessionPc = "receive" /\ HostQuiet

Sending ==
    /\ sessionPc = "chunks" /\ toServer = <<>> /\ HostQuiet /\ snapshot.rev = revision
    /\ snapshot.next > 0 =>
         IF Stream = <<>>
         THEN Collected(guestChunks, snapshot.rev, ChunkCount(snapshot.text), snapshot.next)
         ELSE Stream[Len(Stream)] = ChunkMessage(snapshot.text, snapshot.rev, snapshot.next - 1)

\* As long as only answers to the guest's own edits are under way, its edits on the wire
\* lead from the server's document to what it shows.
Editor ==
    IF hostPc = "broadcast" THEN guestText = history[revision]
    ELSE Replays(document, PendingOps(toServer), guestText)

Synced ==
    /\ sessionPc \in {"receive", "push", "sendApply"}
    /\ \A i \in 1..Len(toServer) : toServer[i].type = "EDIT"
    /\ hostPc \in {"apply", "broadcast"} => sessionPc = "receive" /\ toServer = <<>>
    /\ hostPc = "broadcast" => hostApply.client = "A"
    /\ sessionPc \in {"push", "sendApply"} =>
         sessionApply.client = "B" /\ sessionApply.rev = revision
    /\ IF Stream = <<>> THEN guestRev = Sent ELSE EndsAt(Stream[Len(Stream)], Sent)
    /\ IF AllOwn(Stream) THEN Editor ELSE toServer = <<>> /\ sessionPc = "receive"

Phase ==
    /\ guestPc = "connecting" => Connecting
    /\ guestPc = "joined" => Joined
    /\ guestPc = "online" => Requested \/ Sending \/ Synced

LinkInv ==
    /\ ~ linkUp => toGuest = <<>>
    /\ guestPc = "offline" => ~ linkUp
    /\ guestPc = "online" => guestRole = "Guest"
    /\ guestRole = "Offline" => guestRev = 0
    /\ sessionPc = "none" => toServer = <<>>

StreamInv ==
    /\ Chained(Stream, guestRev, guestChunks)
    /\ TextFits(Stream, guestText, history)
    /\ LastMissing(guestChunks)

GuestInv == LinkInv /\ StreamInv /\ (linkUp => Phase)

-----------------------------------------------------------------------------
\* What IInv and ChunksInv say of the messages on the way to the guest's window.
LEMMA StreamFacts ==
    ASSUME IInv, ChunksInv
    PROVE  /\ Stream \in Seq(ServerMessage) /\ Len(Stream) \in Nat
           /\ toGuest \in Seq(ServerMessage) /\ backlog \in Seq(ServerMessage)
           /\ Range(Stream) \subseteq Range(toGuest) \cup Range(backlog)
           /\ \A i \in 1..Len(Stream) : Stream[i] \in ServerMessage /\ Stream[i] \in Range(Stream)
           /\ \A m \in Range(Stream) :
                /\ m.type = "APPLY" => m.rev \in 1..revision /\ committed[m.rev] = m
                /\ IsChunk(m) => IsChunkOfHistory(m)
<1>1. toGuest \in Seq(ServerMessage) /\ backlog \in Seq(ServerMessage)
  BY DEF IInv, TypeOK
<1>2. /\ Stream \in Seq(ServerMessage)
      /\ Range(Stream) \subseteq Range(toGuest) \cup Range(backlog)
  <2>1. CASE guestPc = "connecting"
    BY <2>1, <1>1 DEF Stream
  <2>2. CASE guestPc # "connecting"
    BY <2>2, <1>1, RangeConcat DEF Stream
  <2> QED BY <2>1, <2>2
<1>3. \A m \in Range(Stream) :
        /\ m.type = "APPLY" => m.rev \in 1..revision /\ committed[m.rev] = m
        /\ IsChunk(m) => IsChunkOfHistory(m)
  BY <1>2 DEF IInv, AppliesMatchLog, AppliesUnderWay, ChunksInv, IsChunk
<1>4. Range(Stream) = {Stream[i] : i \in 1..Len(Stream)}
  BY <1>2, RangeEquality
<1> QED BY <1>1, <1>2, <1>3, <1>4, LenProperties

\* What a host's APPLY on the way found: a document on record, which later commits keep.
LEMMA FitsKept ==
    ASSUME IInv, ChunksInv, HistoryKept, TextFits(Stream, guestText, history)
    PROVE  TextFits(Stream, guestText, history')
<1>1. ASSUME NEW i \in 1..Len(Stream), IsHosts(Stream[i]), \A j \in 1..i - 1 : IsOwn(Stream[j])
      PROVE  guestText = history'[Stream[i].rev]
  <2> DEFINE r == Stream[i].rev
  <2>1. Stream[i] \in Range(Stream) /\ Stream[i].type = "APPLY"
    BY <1>1, StreamFacts DEF IsHosts
  <2>2. r \in 1..revision /\ revision \in Nat
    BY <2>1, StreamFacts DEF IInv, TypeOK
  <2>3. guestText = history[r]
    BY <1>1 DEF TextFits
  <2> HIDE DEF r
  <2>4. r - 1 \in 0..revision /\ r - 1 + 1 = r
    BY <2>2
  <2>5. history'[r - 1 + 1] = history[r - 1 + 1]
    BY <2>4 DEF HistoryKept
  <2>6. history'[r] = history[r]
    BY <2>4, <2>5
  <2> QED BY <2>3, <2>6 DEF r
<1> QED BY <1>1 DEF TextFits

\* The steps that put nothing on the way to the guest and leave its window alone.
LEMMA StreamKept ==
    ASSUME IInv, ChunksInv, HistoryKept, StreamInv, Stream' = Stream,
           UNCHANGED <<guestRev, guestText, guestChunks>>
    PROVE  StreamInv'
<1>1. TextFits(Stream', guestText', history')
  BY FitsKept DEF StreamInv
<1>2. Chained(Stream', guestRev', guestChunks') /\ LastMissing(guestChunks')
  BY DEF StreamInv
<1> QED BY <1>1, <1>2 DEF StreamInv

\* Those that put the next message on the way.
LEMMA StreamSends ==
    ASSUME IInv, ChunksInv, HistoryKept, StreamInv, NEW message \in ServerMessage,
           guestPc' = guestPc, guestPc # "connecting", backlog' = backlog,
           toGuest' = Append(toGuest, message),
           UNCHANGED <<guestRev, guestText, guestChunks>>,
           IF Stream = <<>> THEN Begins(message, guestRev, guestChunks)
                            ELSE Follows(Stream[Len(Stream)], message),
           IsHosts(message) /\ AllOwn(Stream) => guestText = history'[message.rev]
    PROVE  /\ StreamInv' /\ Stream' = Append(Stream, message)
           /\ Stream' # <<>> /\ Stream'[Len(Stream')] = message
           /\ AllOwn(Stream') <=> AllOwn(Stream) /\ IsOwn(message)
<1>1. toGuest \in Seq(ServerMessage) /\ backlog \in Seq(ServerMessage)
  BY StreamFacts
<1>2. Stream' = Append(Stream, message)
  <2>1. Stream' = backlog \o Append(toGuest, message) /\ Stream = backlog \o toGuest
    BY DEF Stream
  <2>2. /\ Append(toGuest, message) = toGuest \o <<message>>
        /\ Append(backlog \o toGuest, message) = (backlog \o toGuest) \o <<message>>
    <3>1. backlog \o toGuest \in Seq(ServerMessage)
      BY <1>1, ConcatProperties
    <3> QED BY <3>1, <1>1, AppendIsConcat
  <2>3. <<message>> \in Seq(ServerMessage)
    OBVIOUS
  <2> QED BY <2>1, <2>2, <2>3, <1>1, ConcatAssociative
<1>3. Stream \in Seq(ServerMessage)
  BY StreamFacts
<1>4. TextFits(Stream, guestText, history')
  BY FitsKept DEF StreamInv
<1>5. TextFits(Stream', guestText', history')
  BY <1>2, <1>3, <1>4, TextFitsAppend
<1>6. Chained(Stream', guestRev', guestChunks')
  BY <1>2, <1>3, ChainedAppend DEF StreamInv
<1>7. LastMissing(guestChunks')
  BY DEF StreamInv
<1> DEFINE S == Stream
           A == Append(S, message)
<1>8. /\ A # <<>> /\ Len(A) = Len(S) + 1 /\ Len(S) \in Nat
      /\ \A i \in 1..Len(S) : A[i] = S[i]
      /\ A[Len(S) + 1] = message
  BY <1>3, AppendProperties, LenProperties
<1> HIDE DEF A, S
<1>9. AllOwn(A) <=> AllOwn(S) /\ IsOwn(message)
  <2>1. ASSUME AllOwn(A) PROVE AllOwn(S) /\ IsOwn(message)
    <3>1. Len(S) + 1 \in 1..Len(A) /\ \A i \in 1..Len(S) : i \in 1..Len(A)
      BY <1>8
    <3> QED BY <3>1, <2>1, <1>8 DEF AllOwn
  <2>2. ASSUME AllOwn(S), IsOwn(message) PROVE AllOwn(A)
    <3>1. ASSUME NEW i \in 1..Len(A) PROVE IsOwn(A[i])
      <4>1. i \in 1..Len(S) \/ i = Len(S) + 1
        BY <1>8
      <4> QED BY <4>1, <2>2, <1>8 DEF AllOwn
    <3> QED BY <3>1 DEF AllOwn
  <2> QED BY <2>1, <2>2
<1>10. Stream' = A
  BY <1>2 DEF A, S
<1>11. Stream'[Len(Stream')] = message
  BY <1>8, <1>10
<1>12. AllOwn(Stream') <=> AllOwn(Stream) /\ IsOwn(message)
  BY <1>9, <1>10 DEF S
<1> QED BY <1>2, <1>5, <1>6, <1>7, <1>8, <1>10, <1>11, <1>12 DEF StreamInv

\* Whatever is sent on a broken connection is lost.
LEMMA BrokenSends ==
    ASSUME LinkInv, ~ linkUp, NEW message, toGuest' = Transmit(toGuest, message),
           UNCHANGED <<guestPc, backlog>>
    PROVE  Stream' = Stream /\ toGuest' = toGuest
BY DEF Transmit, Stream
-----------------------------------------------------------------------------
(* The host's steps. *)

\* The steps of either side that the guest neither sees nor waits for.
QuietForGuest ==
    /\ UNCHANGED <<document, revision, history, sessionApply, snapshot, guestVars, linkVars>>
    /\ hostPc # "broadcast" /\ hostPc' \in {"idle", "drain", "apply"}
    /\ hostPc' = "apply" =>
         /\ sessionPc' \in {"none", "receive"} /\ toServer = <<>>
         /\ guestPc \notin {"connecting", "joined"}
    /\ sessionPc' = sessionPc \/ (sessionPc = "push" /\ sessionPc' = "sendApply")

LEMMA QuietForGuestKeeps ==
    ASSUME IInv, ChunksInv, HistoryKept, GuestInv, QuietForGuest
    PROVE  GuestInv'
<1> USE DEF QuietForGuest, guestVars, linkVars
<1>1. Stream' = Stream
  BY DEF Stream
<1>2. StreamInv'
  BY <1>1, StreamKept DEF GuestInv
<1>3. LinkInv'
  BY DEF GuestInv, LinkInv
<1>4. ASSUME linkUp PROVE Phase'
  <2>1. Phase
    BY <1>4 DEF GuestInv
  <2>2. guestPc = "connecting" => Connecting'
    BY <2>1 DEF Phase, Connecting, HostQuiet
  <2>3. guestPc = "joined" => Joined'
    BY <2>1 DEF Phase, Joined, HostQuiet
  <2>4. Requested => Requested'
    BY DEF Requested, HostQuiet
  <2>5. Sending => Sending'
    <3> SUFFICES ASSUME Sending PROVE Sending'
      OBVIOUS
    <3>1. hostPc' # "apply" /\ sessionPc' = sessionPc
      BY DEF Sending
    <3>2. ChunkCount(snapshot.text)' = ChunkCount(snapshot.text)
      BY DEF ChunkCount
    <3>3. ChunkMessage(snapshot.text, snapshot.rev, snapshot.next - 1)'
            = ChunkMessage(snapshot.text, snapshot.rev, snapshot.next - 1)
      BY DEF ChunkMessage, ChunkCount, Chunk, ChunkEnd
    <3> QED BY <3>1, <3>2, <3>3, <1>1 DEF Sending, HostQuiet
  <2>6. Synced => Synced'
    <3> SUFFICES ASSUME Synced PROVE Synced'
      OBVIOUS
    <3>1. Sent' = Sent
      BY DEF Sent
    <3>2. AllOwn(Stream') = AllOwn(Stream)
      BY <1>1
    <3>3. Editor => Editor'
      BY DEF Editor
    <3>4. sessionPc = "receive" => sessionPc' = "receive"
      OBVIOUS
    <3> QED BY <3>1, <3>2, <3>3, <3>4, <1>1 DEF Synced
  <2> QED BY <2>1, <2>2, <2>3, <2>4, <2>5, <2>6 DEF Phase
<1> QED BY <1>2, <1>3, <1>4 DEF GuestInv

\* A typed change leaves the guest alone: its operations are still to be applied.
LEMMA HostTypesKeepsGuest ==
    ASSUME TurnTaking, HostFollows, NEW text \in Text, HostTypes(text)
    PROVE  QuietForGuest
BY DEF HostTypes, HostTurn, QuietForGuest, sessionVars, logVars

LEMMA HostQuietForGuest ==
    ASSUME HostFollows, HostFollows',
           HostFinishesChange \/ HostStartsDrain \/ HostFinishesDrain \/ HostHandlesEvent
    PROVE  QuietForGuest
<1>1. hostPc \in {"apply", "idle", "drain"} /\ hostPc' \in {"idle", "drain", "copyDocument"}
  BY DEF HostFinishesChange, HostStartsDrain, HostFinishesDrain, HostHandlesEvent
<1>2. hostPc' # "copyDocument"
  BY DEF HostFollows
<1> QED BY <1>1, <1>2 DEF HostFinishesChange, HostStartsDrain, HostFinishesDrain,
           HostHandlesEvent, QuietForGuest, sessionVars, logVars

LEMMA PushesQuietForGuest ==
    ASSUME HostFollows, SessionPushesEvent
    PROVE  QuietForGuest
BY DEF HostFollows, DuringChange, SessionPushesEvent, QuietForGuest, sessionRest, hostVars, logVars

\* The guest hears of a commit of the host when it is broadcast.
LEMMA HostCommitsKeepsGuest ==
    ASSUME IInv, ChunksInv, HistoryKept, HostFollows, GuestInv, HostCommits
    PROVE  GuestInv'
<1> DEFINE op == Head(hostOps)
<1>1. /\ hostPc = "apply" /\ hostOps # <<>> /\ Commit("A", op)
      /\ hostApply' = CommitMessage("A", op) /\ hostPc' = "broadcast"
      /\ UNCHANGED <<sessionPc, sessionApply, guestVars, linkVars>>
  BY DEF HostCommits, sessionVars
<1>2. op \in Operation
  BY <1>1, HeadTailProperties DEF IInv, TypeOK
<1>3. DuringChange
  BY <1>1 DEF HostFollows
<1>4. hostApply'.client = "A"
  BY <1>1 DEF CommitMessage
<1> HIDE DEF op
<1>5. /\ revision' = revision + 1 /\ revision \in Nat
      /\ \A r \in 1..revision + 1 : history'[r] = history[r]
  BY <1>1, <1>2, CommitAppends
<1>6. Stream' = Stream
  BY <1>1 DEF Stream, guestVars, linkVars
<1>7. StreamInv'
  BY <1>1, <1>6, StreamKept DEF GuestInv, guestVars
<1>8. LinkInv'
  BY <1>1 DEF GuestInv, LinkInv, guestVars, linkVars
<1>9. ASSUME linkUp PROVE Phase'
  <2>1. guestPc \notin {"connecting", "joined"} /\ guestPc' = guestPc
    BY <1>1, <1>3 DEF DuringChange, guestVars
  <2>2. ASSUME guestPc = "online" PROVE Synced'
    <3>1. Synced
      BY <2>2, <1>1, <1>9 DEF GuestInv, Phase, Requested, Sending, HostQuiet
    <3>2. sessionPc = "receive" /\ toServer = <<>>
      BY <3>1, <1>1 DEF Synced
    <3>3. Sent' = Sent /\ Sent = revision
      BY <3>2, <1>1, <1>5 DEF Sent
    <3>4. ASSUME AllOwn(Stream) PROVE Editor'
      <4>1. Replays(document, PendingOps(toServer), guestText)
        BY <3>1, <3>4, <1>1 DEF Synced, Editor
      <4>2. PendingOps(toServer) = <<>>
        BY <3>2 DEF PendingOps
      <4>3. document = guestText
        BY <4>1, <4>2, ReplaysEmpty
      <4>4. document = history[revision + 1] /\ revision + 1 \in 1..revision + 1
        BY <1>5 DEF IInv, LogExplainsDocument
      <4> QED BY <4>3, <4>4, <1>1, <1>5 DEF Editor, guestVars
    <3> QED BY <3>1, <3>2, <3>3, <3>4, <1>1, <1>4, <1>6 DEF Synced, guestVars, linkVars
  <2> QED BY <2>1, <2>2 DEF Phase
<1> QED BY <1>1, <1>7, <1>8, <1>9 DEF GuestInv, linkVars

LEMMA HostBroadcastsKeepsGuest ==
    ASSUME IInv, ChunksInv, HistoryKept, HostFollows, GuestInv, HostBroadcasts, unsent' = "nothing"
    PROVE  GuestInv'
<1>sent. toGuest' = IF sessionPc = "none" THEN toGuest ELSE Transmit(toGuest, hostApply)
  BY IgnoringFacts DEF HostBroadcasts
<1>1. /\ hostPc = "broadcast" /\ hostPc' = "apply"
      /\ toGuest' = IF sessionPc = "none" THEN toGuest ELSE Transmit(toGuest, hostApply)
      /\ UNCHANGED <<document, revision, history, sessionPc, sessionApply, guestVars, linkUp, toServer>>
  BY <1>sent DEF HostBroadcasts, sessionVars
<1>2. DuringChange
  BY <1>1 DEF HostFollows
<1>3. /\ hostApply \in ApplyMessage /\ hostApply.type = "APPLY" /\ hostApply \in ServerMessage
      /\ revision \in Nat /\ guestRev \in Nat
  BY <1>1 DEF IInv, PcOK, ApplyMessage, ServerMessage, TypeOK
<1>4. hostApply.rev = revision /\ guestPc \notin {"connecting", "joined"}
  BY <1>1, <1>2 DEF DuringChange
<1>5. CASE ~ linkUp
  <2>1. toGuest' = toGuest
    BY <1>1, <1>5 DEF Transmit
  <2>2. Stream' = Stream
    BY <2>1, <1>1 DEF Stream, guestVars
  <2>3. StreamInv'
    BY <2>2, <1>1, StreamKept DEF GuestInv, guestVars
  <2>4. LinkInv'
    BY <2>1, <1>1 DEF GuestInv, LinkInv, guestVars
  <2> QED BY <2>3, <2>4, <1>1, <1>5 DEF GuestInv
<1>6. CASE linkUp
  <2>1. guestPc = "online"
    BY <1>4, <1>6 DEF GuestInv, LinkInv, IInv, TypeOK
  <2>2. Synced
    BY <2>1, <1>1, <1>6 DEF GuestInv, Phase, Requested, Sending, HostQuiet
  <2>3. /\ sessionPc = "receive" /\ toServer = <<>> /\ hostApply.client = "A"
        /\ Sent = revision - 1 /\ Sent' = revision
    BY <2>2, <1>1 DEF Synced, Sent
  <2>4. toGuest' = Append(toGuest, hostApply)
    BY <2>3, <1>1, <1>6 DEF Transmit
  <2>5. IsHosts(hostApply) /\ ~ IsOwn(hostApply)
    BY <2>3, <1>3 DEF IsHosts, IsOwn
  <2>6. IF Stream = <<>> THEN Begins(hostApply, guestRev, guestChunks)
                         ELSE Follows(Stream[Len(Stream)], hostApply)
    <3>1. CASE Stream = <<>>
      <4>1. guestRev = revision - 1
        BY <3>1, <2>2, <2>3 DEF Synced
      <4>2. hostApply.rev = guestRev + 1
        BY <4>1, <1>3, <1>4
      <4> QED BY <3>1, <4>2, <2>5 DEF Begins
    <3>2. CASE Stream # <<>>
      <4>1. EndsAt(Stream[Len(Stream)], hostApply.rev - 1)
        BY <3>2, <2>2, <2>3, <1>4 DEF Synced
      <4> QED BY <3>2, <4>1, <2>5 DEF Follows
    <3> QED BY <3>1, <3>2
  <2>7. AllOwn(Stream) => guestText = history'[hostApply.rev]
    BY <2>2, <1>1, <1>4 DEF Synced, Editor
  <2>8. /\ StreamInv' /\ Stream' # <<>> /\ Stream'[Len(Stream')] = hostApply
        /\ ~ AllOwn(Stream')
    BY <2>1, <2>4, <2>5, <2>6, <2>7, <1>1, <1>3, StreamSends DEF GuestInv, guestVars
  <2>9. LinkInv'
    BY <1>1, <1>6 DEF GuestInv, LinkInv, guestVars
  <2>10. EndsAt(hostApply, revision)
    BY <2>5, <1>4 DEF EndsAt
  <2>11. Synced'
    BY <2>2, <2>3, <2>8, <2>10, <1>1 DEF Synced
  <2> QED BY <2>1, <2>8, <2>9, <2>11, <1>1 DEF GuestInv, Phase, guestVars
<1> QED BY <1>5, <1>6
-----------------------------------------------------------------------------
(* The steps of the session thread. *)

LEMMA SessionAdmitsKeepsGuest ==
    ASSUME IInv, ChunksInv, HistoryKept, GuestInv, SessionAdmits \/ SessionSendsJoinOk,
           unsent = "nothing"
    PROVE  GuestInv'
<1>1. /\ UNCHANGED <<revision, history, hostPc, guestVars, linkUp, toServer>>
      /\ linkUp /\ sessionPc \in {"none", "joinOk"} /\ sessionPc' \in {"joinOk", "receive"}
  BY DEF SessionAdmits, SessionSendsJoinOk, sessionRest, hostVars, linkVars, logVars
<1>2. guestPc = "connecting"
  BY <1>1 DEF GuestInv, LinkInv, Phase, Joined, Requested, Sending, Synced, IInv, TypeOK
<1>3. Connecting
  BY <1>1, <1>2 DEF GuestInv, Phase
<1>4. Stream' = Stream
  BY <1>1, <1>2 DEF Stream, guestVars
<1>5. StreamInv'
  BY <1>1, <1>4, StreamKept DEF GuestInv, guestVars
<1>6. LinkInv'
  BY <1>1 DEF GuestInv, LinkInv, guestVars
<1>7. Connecting'
  <2>1. CASE SessionAdmits
    BY <2>1, <1>1, <1>3 DEF SessionAdmits, Connecting, HostQuiet, linkVars
  <2>2. CASE SessionSendsJoinOk
    <3>1. toGuest' = Append(<<>>, [type |-> "JOIN_OK"]) /\ sessionPc' = "receive"
      BY <2>2, <1>3 DEF SessionSendsJoinOk, ToGuest, Transmit, Connecting
    <3>2. toGuest' = <<[type |-> "JOIN_OK"]>>
      BY <3>1
    <3> QED BY <3>1, <3>2, <1>1, <1>3 DEF Connecting, HostQuiet
  <2> QED BY <2>1, <2>2
<1> QED BY <1>1, <1>2, <1>5, <1>6, <1>7 DEF GuestInv, Phase, guestVars

\* A session that ends has lost its connection before.
LEMMA SessionEndsKeepsGuest ==
    ASSUME IInv, ChunksInv, HistoryKept, GuestInv, SessionEnds
    PROVE  GuestInv'
<1>1. /\ UNCHANGED <<revision, history, guestVars, linkUp, toGuest>>
      /\ ~ linkUp /\ toServer' = <<>>
  BY DEF SessionEnds, sessionRest, logVars
<1>2. Stream' = Stream
  BY <1>1 DEF Stream, guestVars
<1>3. StreamInv'
  BY <1>1, <1>2, StreamKept DEF GuestInv, guestVars
<1>4. LinkInv'
  BY <1>1 DEF GuestInv, LinkInv, guestVars
<1> QED BY <1>1, <1>3, <1>4 DEF GuestInv

\* Without a connection no phase is left to keep.
LEMMA BrokenKeepsGuest ==
    ASSUME IInv, ChunksInv, HistoryKept, GuestInv, ~ linkUp, sessionPc # "none", sessionPc' # "none",
           SessionCommits \/ SessionRefuses \/ SessionSendsApply \/ SessionTakesSnapshot
             \/ SessionSendsChunk
    PROVE  GuestInv'
<1>1. UNCHANGED <<guestVars, linkUp>>
  BY DEF SessionCommits, SessionRefuses, SessionSendsApply, SessionTakesSnapshot, SessionSendsChunk,
         sessionRest
<1>2. toGuest' = toGuest
  <2>1. CASE SessionCommits \/ SessionTakesSnapshot
    BY <2>1 DEF SessionCommits, SessionTakesSnapshot
  <2>2. CASE SessionRefuses \/ SessionSendsApply \/ SessionSendsChunk
    BY <2>2 DEF SessionRefuses, SessionSendsApply, SessionSendsChunk, SendIgnoringFailure, ToGuest,
                Transmit
  <2> QED BY <2>1, <2>2
<1>3. Stream' = Stream
  BY <1>1, <1>2 DEF Stream, guestVars
<1>4. StreamInv'
  BY <1>1, <1>3, StreamKept DEF GuestInv, guestVars
<1>5. LinkInv'
  BY <1>1, <1>2 DEF GuestInv, LinkInv, guestVars
<1> QED BY <1>1, <1>4, <1>5 DEF GuestInv

\* The operations of the edits on the wire.
LEMMA PendingOpsFacts ==
    ASSUME NEW frames \in Seq(ClientMessage), \A i \in 1..Len(frames) : frames[i].type = "EDIT"
    PROVE  /\ PendingOps(frames) \in Seq(Operation) /\ Len(PendingOps(frames)) = Len(frames)
           /\ frames # <<>> => /\ PendingOps(frames) # <<>>
                               /\ Head(PendingOps(frames)) = Head(frames).op
                               /\ Tail(PendingOps(frames)) = PendingOps(Tail(frames))
<1> DEFINE ops  == PendingOps(frames)
           rest == PendingOps(Tail(frames))
<1>1. Len(frames) \in Nat
  BY LenProperties
<1>2. \A i \in 1..Len(frames) : frames[i].op \in Operation
  BY ElementOfSeq DEF ClientMessage, EditMessage, SyncRequest
<1>3. ops \in [1..Len(frames) -> Operation] /\ \A i \in 1..Len(frames) : ops[i] = frames[i].op
  BY <1>2 DEF PendingOps
<1> HIDE DEF ops
<1>4. ops \in Seq(Operation) /\ Len(ops) = Len(frames)
  BY <1>1, <1>3, SeqDef
<1>5. ASSUME frames # <<>>
      PROVE  ops # <<>> /\ Head(ops) = Head(frames).op /\ Tail(ops) = rest
  <2>1. /\ Len(frames) \in Nat \ {0} /\ Tail(frames) \in Seq(ClientMessage)
        /\ Len(Tail(frames)) = Len(frames) - 1 /\ Head(frames) = frames[1]
        /\ \A i \in 1..Len(frames) - 1 : Tail(frames)[i] = frames[i + 1]
    BY <1>5, EmptySeq, HeadTailProperties
  <2>2. ops # <<>> /\ Head(ops) = ops[1] /\ 1 \in 1..Len(frames)
    BY <2>1, <1>4, EmptySeq
  <2>3. /\ Tail(ops) \in Seq(Operation) /\ Len(Tail(ops)) = Len(frames) - 1
        /\ \A i \in 1..Len(frames) - 1 : Tail(ops)[i] = ops[i + 1]
    BY <2>2, <1>4, HeadTailProperties
  <2>4. ASSUME NEW i \in 1..Len(frames) - 1
        PROVE  Tail(frames)[i].op = ops[i + 1] /\ ops[i + 1] \in Operation
    <3>1. i + 1 \in 1..Len(frames)
      BY <2>1
    <3> QED BY <3>1, <2>1, <1>2, <1>3
  <2>5. /\ rest \in [1..Len(frames) - 1 -> Operation]
        /\ \A i \in 1..Len(frames) - 1 : rest[i] = ops[i + 1]
    BY <2>1, <2>4 DEF PendingOps
  <2> HIDE DEF rest
  <2>6. rest \in Seq(Operation) /\ Len(rest) = Len(frames) - 1
    <3>1. Len(frames) - 1 \in Nat
      BY <2>1
    <3> QED BY <3>1, <2>5, SeqDef
  <2>7. Tail(ops) = rest
    BY <2>3, <2>5, <2>6, SeqEqual
  <2> QED BY <2>1, <2>2, <2>7, <1>3
<1> QED BY <1>4, <1>5 DEF ops

LEMMA ReplaysType ==
    ASSUME NEW from, NEW ops \in Seq(Operation), NEW to, Replays(from, ops, to)
    PROVE  to \in Text
<1>1. PICK texts \in [0..Len(ops) -> Text] : texts[Len(ops)] = to
  BY DEF Replays
<1>2. Len(ops) \in 0..Len(ops)
  <2>1. Len(ops) \in Nat
    BY LenProperties
  <2> QED BY <2>1
<1> QED BY <1>1, <1>2

\* An edit on the wire of a connection that still stands was sent by a guest that has
\* the document.
LEMMA EditsAreSynced ==
    ASSUME IInv, HostFollows, GuestInv, linkUp, toServer # <<>>,
           Head(toServer).type = "EDIT", sessionPc = "receive"
    PROVE  guestPc = "online" /\ Synced /\ AllOwn(Stream) /\ HostQuiet
<1>1. ~ Requested
  <2>1. Head(<<[type |-> "SYNC_REQUEST"]>>) = [type |-> "SYNC_REQUEST"]
    OBVIOUS
  <2> QED BY <2>1 DEF Requested
<1>2. guestPc = "online" /\ Synced
  BY <1>1 DEF GuestInv, LinkInv, Phase, Connecting, Joined, Sending, IInv, TypeOK
<1>3. AllOwn(Stream) /\ HostQuiet
  BY <1>2 DEF Synced, HostFollows, HostQuiet
<1> QED BY <1>2, <1>3

\* The server applies the next of the guest's edits: the rest still leads to what the
\* guest shows.
LEMMA SessionCommitsKeepsGuest ==
    ASSUME IInv, ChunksInv, HistoryKept, HostFollows, GuestInv, SessionCommits
    PROVE  GuestInv'
<1> DEFINE op == Head(toServer).op
<1>1. /\ sessionPc = "receive" /\ toServer # <<>> /\ Head(toServer).type = "EDIT"
      /\ Commit("B", op) /\ sessionApply' = CommitMessage("B", op) /\ sessionPc' = "push"
      /\ toServer' = Tail(toServer) /\ UNCHANGED <<hostPc, guestVars, linkUp, toGuest>>
  BY DEF SessionCommits, sessionRest, hostVars
<1>2. op \in Operation
  BY <1>1, ReceiveFacts
<1>3. CASE ~ linkUp
  BY <1>1, <1>3, BrokenKeepsGuest
<1>4. CASE linkUp
  <2>1. guestPc = "online" /\ Synced /\ AllOwn(Stream) /\ HostQuiet
    BY <1>1, <1>4, EditsAreSynced
  <2>2. hostPc # "broadcast" /\ hostPc # "apply"
    BY <2>1 DEF HostQuiet
  <2>3. toServer \in Seq(ClientMessage) /\ \A i \in 1..Len(toServer) : toServer[i].type = "EDIT"
    BY <2>1 DEF Synced, IInv, TypeOK
  <2>4. /\ PendingOps(toServer) \in Seq(Operation) /\ PendingOps(toServer) # <<>>
        /\ Head(PendingOps(toServer)) = op
        /\ Tail(PendingOps(toServer)) = PendingOps(toServer')
    BY <2>3, <1>1, PendingOpsFacts
  <2>5. Replays(document, PendingOps(toServer), guestText)
    BY <2>1, <2>2 DEF Synced, Editor
  <2>6. document \in Text /\ guestText \in Text
    BY <2>4, <2>5, ReplaysType DEF IInv, TypeOK
  <2>7. Replays(Applied(document, op), PendingOps(toServer'), guestText)
    BY <2>4, <2>5, <2>6, ReplaysHeadTail
  <2>8. /\ document' = Applied(document, op) /\ revision' = revision + 1 /\ revision \in Nat
        /\ sessionApply'.client = "B" /\ sessionApply'.rev = revision + 1
    BY <1>1 DEF Commit, CommitMessage, IInv, TypeOK
  <2> HIDE DEF op
  <2>9. Stream' = Stream
    BY <1>1 DEF Stream, guestVars
  <2>10. StreamInv'
    BY <2>9, <1>1, StreamKept DEF GuestInv, guestVars
  <2>11. LinkInv'
    BY <1>1 DEF GuestInv, LinkInv, guestVars
  <2>12. \A i \in 1..Len(toServer') : toServer'[i].type = "EDIT"
    <3>1. /\ Len(Tail(toServer)) = Len(toServer) - 1 /\ Len(toServer) \in Nat
          /\ \A i \in 1..Len(toServer) - 1 : Tail(toServer)[i] = toServer[i + 1]
      BY <2>3, <1>1, HeadTailProperties, LenProperties
    <3>2. \A i \in 1..Len(toServer) - 1 : i + 1 \in 1..Len(toServer)
      BY <3>1
    <3> QED BY <3>1, <3>2, <2>3, <1>1
  <2>13. Sent' = Sent
    BY <2>2, <2>8, <1>1 DEF Sent
  <2>14. Editor'
    BY <2>2, <2>7, <2>8, <1>1 DEF Editor, guestVars
  <2>15. Synced'
    BY <2>1, <2>2, <2>8, <2>9, <2>12, <2>13, <2>14, <1>1 DEF Synced, guestVars
  <2> QED BY <2>1, <2>10, <2>11, <2>15, <1>1 DEF GuestInv, Phase, guestVars
<1> QED BY <1>3, <1>4

\* As long as the connection stands the server refuses no edit of the guest.
LEMMA SessionNeverRefuses ==
    ASSUME IInv, HostFollows, GuestInv, GuestChangesFit, linkUp
    PROVE  ~ SessionRefuses
<1> SUFFICES ASSUME SessionRefuses PROVE FALSE
  OBVIOUS
<1> DEFINE op == Head(toServer).op
<1>1. /\ sessionPc = "receive" /\ toServer # <<>> /\ Head(toServer).type = "EDIT"
      /\ ServerStatus(op) # "applied"
  BY DEF SessionRefuses
<1>2. Synced /\ AllOwn(Stream) /\ HostQuiet
  BY <1>1, EditsAreSynced
<1>3. toServer \in Seq(ClientMessage) /\ \A i \in 1..Len(toServer) : toServer[i].type = "EDIT"
  BY <1>2 DEF Synced, IInv, TypeOK
<1>4. /\ PendingOps(toServer) \in Seq(Operation) /\ PendingOps(toServer) # <<>>
      /\ Head(PendingOps(toServer)) = op
  BY <1>3, <1>1, PendingOpsFacts
<1>5. Replays(document, PendingOps(toServer), guestText)
  BY <1>2 DEF Synced, Editor, HostQuiet
<1>6. document \in Text /\ guestText \in Text
  BY <1>4, <1>5, ReplaysType DEF IInv, TypeOK
<1>7. ApplyStatus(document, op) = "applied" /\ op \in Operation
  BY <1>4, <1>5, <1>6, ReplaysHeadTail, HeadTailProperties
<1>8. op.type = "INSERT" => Len(op.text) <= MaxInsertChars
  <2>1. Head(toServer) \in Range(toServer)
    BY <1>1, <1>3, RangeHeadTail
  <2> QED BY <2>1, <1>1 DEF GuestChangesFit
<1> HIDE DEF op
<1> QED BY <1>1, <1>6, <1>7, <1>8, FittingIsAccepted

LEMMA SessionRefusesKeepsGuest ==
    ASSUME IInv, ChunksInv, HistoryKept, HostFollows, GuestInv, GuestChangesFit, SessionRefuses
    PROVE  GuestInv'
<1>1. ~ linkUp
  BY SessionNeverRefuses
<1>2. sessionPc # "none" /\ sessionPc' # "none"
  BY DEF SessionRefuses, sessionVars
<1> QED BY <1>1, <1>2, BrokenKeepsGuest

\* The answer to the guest's edit reaches a guest that waits for nothing else.
LEMMA SessionSendsApplyKeepsGuest ==
    ASSUME IInv, ChunksInv, HistoryKept, HostFollows, GuestInv, SessionSendsApply, unsent = "nothing"
    PROVE  GuestInv'
<1>1. /\ sessionPc = "sendApply" /\ sessionPc' = "receive"
      /\ toGuest' = Transmit(toGuest, sessionApply)
      /\ UNCHANGED <<document, revision, history, hostPc, guestVars, linkUp, toServer>>
  BY DEF SessionSendsApply, ToGuest, sessionRest, hostVars, logVars
<1>2. CASE ~ linkUp
  BY <1>1, <1>2, BrokenKeepsGuest
<1>3. CASE linkUp
  <2>1. guestPc = "online" /\ Synced
    BY <1>1, <1>3 DEF GuestInv, LinkInv, Phase, Connecting, Joined, Requested, Sending, IInv, TypeOK
  <2>2. /\ sessionApply.client = "B" /\ sessionApply.rev = revision /\ AllOwn(Stream)
        /\ hostPc \notin {"apply", "broadcast"} /\ Editor
    BY <2>1, <1>1 DEF Synced
  <2>3. /\ sessionApply \in ApplyMessage /\ sessionApply.type = "APPLY"
        /\ sessionApply \in ServerMessage /\ revision \in Nat /\ guestRev \in Nat
    BY <1>1 DEF IInv, PcOK, ApplyMessage, ServerMessage, TypeOK
  <2>4. IsOwn(sessionApply) /\ ~ IsHosts(sessionApply)
    BY <2>2, <2>3 DEF IsOwn, IsHosts
  <2>5. Sent = revision - 1 /\ Sent' = revision
    BY <2>2, <1>1 DEF Sent
  <2>6. IF Stream = <<>> THEN Begins(sessionApply, guestRev, guestChunks)
                         ELSE Follows(Stream[Len(Stream)], sessionApply)
    <3>1. CASE Stream = <<>>
      <4>1. guestRev = revision - 1
        BY <3>1, <2>1, <2>5 DEF Synced
      <4>2. sessionApply.rev = guestRev + 1
        BY <4>1, <2>2, <2>3
      <4> QED BY <3>1, <4>2, <2>4 DEF Begins
    <3>2. CASE Stream # <<>>
      <4>1. Len(Stream) \in 1..Len(Stream)
        <5>1. Len(Stream) \in Nat \ {0}
          BY <3>2, StreamFacts, EmptySeq
        <5> QED BY <5>1
      <4>2. IsOwn(Stream[Len(Stream)]) /\ Stream[Len(Stream)].rev = revision - 1
        BY <3>2, <4>1, <2>1, <2>2, <2>5 DEF Synced, AllOwn, EndsAt
      <4>3. sessionApply.rev = Stream[Len(Stream)].rev + 1
        BY <4>2, <2>2, <2>3
      <4> QED BY <3>2, <4>2, <4>3, <2>4 DEF Follows
    <3> QED BY <3>1, <3>2
  <2>7. toGuest' = Append(toGuest, sessionApply)
    BY <1>1, <1>3 DEF Transmit
  <2>8. /\ StreamInv' /\ Stream' # <<>> /\ Stream'[Len(Stream')] = sessionApply
        /\ AllOwn(Stream')
    BY <2>1, <2>2, <2>3, <2>4, <2>6, <2>7, <1>1, StreamSends DEF GuestInv, guestVars
  <2>9. LinkInv'
    BY <1>1, <1>3 DEF GuestInv, LinkInv, guestVars
  <2>10. EndsAt(sessionApply, revision)
    BY <2>2, <2>4 DEF EndsAt
  <2>11. Editor'
    BY <2>2, <1>1 DEF Editor, guestVars
  <2>12. Synced'
    BY <2>1, <2>2, <2>5, <2>8, <2>10, <2>11, <1>1 DEF Synced
  <2> QED BY <2>1, <2>8, <2>9, <2>12, <1>1 DEF GuestInv, Phase, guestVars
<1> QED BY <1>2, <1>3

\* The copy is taken when the guest has asked for it and nothing else can be committed.
LEMMA SessionTakesSnapshotKeepsGuest ==
    ASSUME IInv, ChunksInv, HistoryKept, GuestInv, SessionTakesSnapshot
    PROVE  GuestInv'
<1>1. /\ sessionPc = "receive" /\ toServer # <<>> /\ Head(toServer).type = "SYNC_REQUEST"
      /\ snapshot' = [type |-> "SNAPSHOT", text |-> document, rev |-> revision, next |-> 0]
      /\ toServer' = Tail(toServer) /\ sessionPc' = "chunks"
      /\ UNCHANGED <<revision, history, hostPc, guestVars, linkUp, toGuest>>
  BY DEF SessionTakesSnapshot, sessionRest, hostVars, logVars
<1>2. CASE ~ linkUp
  BY <1>1, <1>2, BrokenKeepsGuest
<1>3. CASE linkUp
  <2>1. ~ Synced
    <3>1. toServer \in Seq(ClientMessage)
      BY DEF IInv, TypeOK
    <3>2. Head(toServer) = toServer[1] /\ Len(toServer) \in Nat \ {0}
      BY <3>1, <1>1, EmptySeq
    <3>3. 1 \in 1..Len(toServer) /\ toServer[1].type # "EDIT"
      BY <3>2, <1>1
    <3> QED BY <3>3 DEF Synced
  <2>2. guestPc = "online" /\ Requested
    BY <2>1, <1>1, <1>3 DEF GuestInv, LinkInv, Phase, Connecting, Joined, Sending, IInv, TypeOK
  <2>3. toServer' = <<>>
    <3>1. Tail(<<[type |-> "SYNC_REQUEST"]>>) = <<>>
      OBVIOUS
    <3> QED BY <3>1, <2>2, <1>1 DEF Requested
  <2>4. Stream' = Stream
    BY <1>1 DEF Stream, guestVars
  <2>5. StreamInv'
    BY <2>4, <1>1, StreamKept DEF GuestInv, guestVars
  <2>6. LinkInv'
    BY <1>1 DEF GuestInv, LinkInv, guestVars
  <2>7. snapshot'.rev = revision /\ snapshot'.next = 0
    BY <1>1
  <2>8. Sending'
    BY <2>2, <2>3, <2>7, <1>1 DEF Sending, Requested, HostQuiet
  <2> QED BY <2>2, <2>5, <2>6, <2>8, <1>1 DEF GuestInv, Phase, guestVars
<1> QED BY <1>2, <1>3

LEMMA SessionSendsChunkKeepsGuest ==
    ASSUME IInv, ChunksInv, HistoryKept, GuestInv, SessionSendsChunk, unsent = "nothing"
    PROVE  GuestInv'
<1> DEFINE message == ChunkMessage(snapshot.text, snapshot.rev, snapshot.next)
           count   == ChunkCount(snapshot.text)
<1>1. /\ sessionPc = "chunks" /\ toGuest' = Transmit(toGuest, message)
      /\ IF snapshot.next + 1 < count
         THEN snapshot' = [snapshot EXCEPT !.next = @ + 1] /\ sessionPc' = sessionPc
         ELSE sessionPc' = "receive"
      /\ UNCHANGED <<document, revision, history, hostPc, guestVars, linkUp, toServer>>
  BY DEF SessionSendsChunk, ToGuest, sessionRest, hostVars, logVars
<1>2. CASE ~ linkUp
  BY <1>1, <1>2, BrokenKeepsGuest
<1>3. CASE linkUp
  <2>1. guestPc = "online" /\ Sending
    BY <1>1, <1>3 DEF GuestInv, LinkInv, Phase, Connecting, Joined, Requested, Synced, IInv, TypeOK
  <2>2. /\ snapshot.rev = revision /\ snapshot.text = history[revision + 1]
        /\ snapshot.next + 1 \in 1..count /\ snapshot \in Snapshot
        /\ snapshot.next \in Nat /\ snapshot.text \in Text /\ snapshot.rev \in Nat
        /\ hostPc \in {"idle", "drain"} /\ toServer = <<>>
    BY <2>1, <1>1 DEF Sending, HostQuiet, ChunksInv, SnapshotIsHistory, IInv, PcOK, Snapshot
  <2>3. count \in Nat
    BY <2>2, ChunksCover
  <2>4. message \in SyncChunk
    BY <2>2, ChunkMessageType
  <2>5. /\ message \in ServerMessage /\ IsChunk(message) /\ ~ IsHosts(message) /\ ~ IsOwn(message)
        /\ message.index = snapshot.next /\ message.count = count /\ message.rev = revision
    BY <2>2, <2>4 DEF ServerMessage, ChunkMessage, IsChunk, IsHosts, IsOwn
  <2>6. toGuest' = Append(toGuest, message)
    BY <1>1, <1>3 DEF Transmit
  <2>7. IF Stream = <<>> THEN Begins(message, guestRev, guestChunks)
                         ELSE Follows(Stream[Len(Stream)], message)
    <3>1. CASE snapshot.next = 0
      BY <3>1, <2>5 DEF Begins, Follows
    <3>2. CASE snapshot.next > 0 /\ Stream = <<>>
      BY <3>2, <2>1, <2>2, <2>5 DEF Sending, Begins
    <3>3. CASE snapshot.next > 0 /\ Stream # <<>>
      <4> DEFINE last == ChunkMessage(snapshot.text, snapshot.rev, snapshot.next - 1)
      <4>1. IsChunk(last) /\ last.rev = revision /\ last.index = snapshot.next - 1
        BY <2>2 DEF ChunkMessage, IsChunk
      <4>2. Stream[Len(Stream)] = last
        BY <3>3, <2>1 DEF Sending
      <4> HIDE DEF last, message
      <4>3. message.index = last.index + 1
        BY <4>1, <2>2, <2>5
      <4> QED BY <3>3, <4>1, <4>2, <4>3, <2>5 DEF Follows
    <3> QED BY <3>1, <3>2, <3>3, <2>2
  <2> HIDE DEF message, count
  <2>8. /\ StreamInv' /\ Stream' # <<>> /\ Stream'[Len(Stream')] = message
        /\ ~ AllOwn(Stream')
    BY <2>1, <2>5, <2>6, <2>7, <1>1, StreamSends DEF GuestInv, guestVars
  <2>9. LinkInv'
    BY <1>1, <1>3 DEF GuestInv, LinkInv, guestVars
  <2>10. CASE snapshot.next + 1 < count
    <3>1. /\ snapshot'.next = snapshot.next + 1 /\ snapshot'.rev = snapshot.rev
          /\ snapshot'.text = snapshot.text
      BY <2>2, <2>10, <1>1 DEF Snapshot
    <3>2. snapshot'.next - 1 = snapshot.next
      BY <3>1, <2>2
    <3>3. ChunkMessage(snapshot.text, snapshot.rev, snapshot.next - 1)' = message
      BY <3>1, <3>2 DEF message, ChunkMessage, ChunkCount, Chunk, ChunkEnd
    <3>4. Sending'
      BY <3>1, <3>3, <2>1, <2>2, <2>8, <2>10, <1>1 DEF Sending, HostQuiet
    <3> QED BY <3>4, <2>1, <2>8, <2>9, <1>1 DEF GuestInv, Phase, guestVars
  <2>11. CASE ~ (snapshot.next + 1 < count)
    <3>1. snapshot.next + 1 = count /\ sessionPc' = "receive"
      BY <2>2, <2>3, <2>11, <1>1
    <3>2. EndsAt(message, revision)
      BY <3>1, <2>5 DEF EndsAt
    <3>3. Sent' = revision
      BY <3>1, <2>2, <1>1 DEF Sent
    <3>4. Synced'
      BY <3>1, <3>2, <3>3, <2>2, <2>8, <1>1 DEF Synced
    <3> QED BY <3>4, <2>1, <2>8, <2>9, <1>1 DEF GuestInv, Phase, guestVars
  <2> QED BY <2>10, <2>11
<1> QED BY <1>2, <1>3

-----------------------------------------------------------------------------
(* The connection and the guest's steps. *)

\* Of a connection that breaks the guest's window gets no more than the beginning of what
\* was on its way.
LEMMA LinkBreaksKeepsGuest ==
    ASSUME IInv, ChunksInv, HistoryKept, GuestInv, LinkBreaks
    PROVE  GuestInv'
<1>1. /\ linkUp /\ linkUp' = FALSE /\ toGuest' = <<>>
      /\ UNCHANGED <<revision, history, sessionPc, guestPc, guestRole, guestText, guestRev, guestChunks>>
      /\ \E k \in 0..Len(toServer) : toServer' = SubSeq(toServer, 1, k)
      /\ IF guestPc \in {"joined", "online"}
         THEN \E k \in 0..Len(toGuest) : backlog' = backlog \o SubSeq(toGuest, 1, k)
         ELSE backlog' = backlog
  BY DEF LinkBreaks, guestRest, sessionVars, logVars
<1>2. /\ toGuest \in Seq(ServerMessage) /\ backlog \in Seq(ServerMessage)
      /\ Len(toGuest) \in Nat /\ Len(backlog) \in Nat
  BY StreamFacts, LenProperties
<1>3. /\ Stream' \in Seq(ServerMessage) /\ Len(Stream') <= Len(Stream)
      /\ \A i \in 1..Len(Stream') : Stream'[i] = Stream[i]
  <2>1. CASE guestPc \in {"joined", "online"}
    <3>1. PICK k \in 0..Len(toGuest) : backlog' = backlog \o SubSeq(toGuest, 1, k)
      BY <2>1, <1>1
    <3> DEFINE received == SubSeq(toGuest, 1, k)
    <3>2. /\ received \in Seq(ServerMessage) /\ Len(received) = k
          /\ \A i \in 1..k : received[i] = toGuest[i]
      <4>1. \A i \in 1..k : toGuest[i] \in ServerMessage
        BY <1>2
      <4> QED BY <4>1, <1>2, SubSeqProperties
    <3> HIDE DEF received
    <3>3. /\ backlog \o received \in Seq(ServerMessage)
          /\ Len(backlog \o received) = Len(backlog) + k
          /\ \A i \in 1..Len(backlog) + k :
               (backlog \o received)[i] = IF i <= Len(backlog) THEN backlog[i] ELSE received[i - Len(backlog)]
      BY <3>2, <1>2, ConcatProperties
    <3>4. /\ Len(backlog \o toGuest) = Len(backlog) + Len(toGuest)
          /\ \A i \in 1..Len(backlog) + Len(toGuest) :
               (backlog \o toGuest)[i] = IF i <= Len(backlog) THEN backlog[i] ELSE toGuest[i - Len(backlog)]
      BY <1>2, ConcatProperties
    <3>5. backlog' = backlog \o received
      BY <3>1 DEF received
    <3>6. backlog' \o <<>> = backlog'
      BY <3>3, <3>5, ConcatEmptySeq
    <3>7. Stream' = backlog \o received /\ Stream = backlog \o toGuest
      BY <2>1, <3>5, <3>6, <1>1 DEF Stream
    <3>8. ASSUME NEW i \in 1..Len(backlog) + k
          PROVE  (backlog \o received)[i] = (backlog \o toGuest)[i]
      <4>1. CASE i <= Len(backlog)
        <5>1. i \in 1..Len(backlog) + Len(toGuest)
          BY <4>1, <1>2
        <5> QED BY <4>1, <5>1, <3>3, <3>4
      <4>2. CASE ~ (i <= Len(backlog))
        <5>1. i - Len(backlog) \in 1..k /\ i \in 1..Len(backlog) + Len(toGuest)
          BY <4>2, <1>2
        <5> QED BY <4>2, <5>1, <3>2, <3>3, <3>4
      <4> QED BY <4>1, <4>2
    <3>9. Len(backlog) + k <= Len(backlog) + Len(toGuest)
      BY <1>2
    <3> QED BY <3>3, <3>4, <3>7, <3>8, <3>9
  <2>2. CASE guestPc = "connecting"
    <3>1. Stream' = Stream
      BY <2>2, <1>1 DEF Stream
    <3> QED BY <3>1, StreamFacts
  <2> QED BY <2>1, <2>2, <1>1 DEF GuestInv, LinkInv, IInv, TypeOK
<1>4. Stream \in Seq(ServerMessage)
  BY StreamFacts
<1>5. TextFits(Stream, guestText, history')
  BY FitsKept DEF GuestInv, StreamInv
<1>6. TextFits(Stream', guestText', history')
  BY <1>1, <1>3, <1>4, <1>5, TextFitsPrefix
<1>7. Chained(Stream', guestRev', guestChunks')
  BY <1>1, <1>3, <1>4, ChainedPrefix DEF GuestInv, StreamInv
<1>8. StreamInv'
  BY <1>1, <1>6, <1>7 DEF GuestInv, StreamInv
<1>9. LinkInv'
  <2>1. sessionPc = "none" => toServer' = <<>>
    <3>1. toServer = <<>> => \A k \in 0..Len(toServer) : SubSeq(toServer, 1, k) = <<>>
      <4>1. Len(<<>>) = 0 /\ SubSeq(<<>>, 1, 0) = <<>>
        OBVIOUS
      <4>2. \A k \in 0..0 : k = 0
        OBVIOUS
      <4> QED BY <4>1, <4>2
    <3> QED BY <3>1, <1>1 DEF GuestInv, LinkInv
  <2> QED BY <2>1, <1>1 DEF GuestInv, LinkInv
<1> QED BY <1>1, <1>8, <1>9 DEF GuestInv

LEMMA GuestConnectsKeepsGuest ==
    ASSUME TurnTaking, IInv, ChunksInv, HistoryKept, GuestInv, GuestConnects
    PROVE  GuestInv'
<1>1. /\ guestPc = "offline" /\ ~ linkUp /\ sessionPc = "none" /\ hostPc = "idle"
      /\ guestPc' = "connecting" /\ linkUp' = TRUE
      /\ UNCHANGED <<revision, history, sessionPc, hostPc, guestRole, guestText, guestRev, guestChunks,
                     backlog, toServer, toGuest>>
  BY DEF GuestConnects, serverAndHost, sessionVars, hostVars
<1>2. toServer = <<>> /\ toGuest = <<>>
  BY <1>1 DEF GuestInv, LinkInv
<1>3. Stream' = Stream
  <2>1. backlog \o <<>> = backlog
    BY StreamFacts, ConcatEmptySeq
  <2> QED BY <2>1, <1>1, <1>2 DEF Stream
<1>4. StreamInv'
  BY <1>1, <1>3, StreamKept DEF GuestInv
<1>5. LinkInv'
  BY <1>1 DEF GuestInv, LinkInv
<1>6. Connecting'
  BY <1>1, <1>2 DEF Connecting, HostQuiet
<1> QED BY <1>1, <1>4, <1>5, <1>6 DEF GuestInv, Phase

LEMMA GuestJoinsKeepsGuest ==
    ASSUME IInv, ChunksInv, HistoryKept, GuestInv, GuestJoins
    PROVE  GuestInv'
<1>1. /\ guestPc = "connecting" /\ toGuest # <<>> /\ guestPc' = "joined"
      /\ \E lost \in 0..Len(toGuest) - 1 : toGuest' = SubSeq(toGuest, lost + 2, Len(toGuest))
      /\ UNCHANGED <<revision, history, sessionPc, hostPc, guestRole, guestText, guestRev, guestChunks,
                     backlog, toServer, linkUp>>
  BY DEF GuestJoins, guestRest, sessionVars, hostVars, logVars
<1>2. linkUp /\ Connecting
  BY <1>1 DEF GuestInv, LinkInv, Phase
<1>3. /\ sessionPc = "receive" /\ toGuest = <<[type |-> "JOIN_OK"]>>
      /\ toServer = <<>> /\ HostQuiet
  BY <1>1, <1>2 DEF Connecting
<1>4. toGuest' = <<>>
  <2>1. Len(toGuest) = 1
    BY <1>3
  <2>2. PICK lost \in 0..0 : toGuest' = SubSeq(toGuest, lost + 2, 1)
    BY <2>1, <1>1
  <2>3. lost + 2 \in Int /\ 1 \in Int /\ 1 < lost + 2
    OBVIOUS
  <2> QED BY <2>2, <2>3, SubSeqEmpty
<1>5. Stream' = Stream
  <2>1. backlog \o <<>> = backlog
    BY StreamFacts, ConcatEmptySeq
  <2> QED BY <2>1, <1>1, <1>4 DEF Stream
<1>6. StreamInv'
  BY <1>1, <1>5, StreamKept DEF GuestInv
<1>7. LinkInv'
  BY <1>1, <1>2, <1>4 DEF GuestInv, LinkInv
<1>8. Joined'
  BY <1>1, <1>3, <1>4 DEF Joined, HostQuiet
<1> QED BY <1>1, <1>6, <1>7, <1>8 DEF GuestInv, Phase

\* The guest asks for the document; its revision is kept, or is 0 as it was.
LEMMA GuestStartsKeepsGuest ==
    ASSUME IInv, ChunksInv, HistoryKept, GuestInv, GuestStarts
    PROVE  GuestInv'
<1>1. /\ guestPc = "joined" /\ guestPc' = "online" /\ guestRole' = "Guest"
      /\ guestRev' = IF guestRole = "Guest" THEN guestRev ELSE 0
      /\ toServer' = Transmit(toServer, [type |-> "SYNC_REQUEST"])
      /\ UNCHANGED <<revision, history, sessionPc, hostPc, guestText, guestChunks, backlog, toGuest, linkUp>>
  BY DEF GuestStarts, guestRest, sessionVars, hostVars, logVars
<1>2. guestRev' = guestRev
  BY <1>1 DEF GuestInv, LinkInv, IInv, TypeOK
<1>3. Stream' = Stream
  BY <1>1 DEF Stream
<1>4. StreamInv'
  BY <1>1, <1>2, <1>3, StreamKept DEF GuestInv
<1>5. linkUp => Joined
  BY <1>1 DEF GuestInv, Phase
<1>6. LinkInv'
  BY <1>1, <1>5 DEF GuestInv, LinkInv, Joined, Transmit
<1>7. ASSUME linkUp PROVE Requested'
  <2>1. Joined
    BY <1>5, <1>7
  <2>2. toServer' = Append(<<>>, [type |-> "SYNC_REQUEST"])
    BY <2>1, <1>1, <1>7 DEF Transmit, Joined
  <2>3. toServer' = <<[type |-> "SYNC_REQUEST"]>>
    BY <2>2
  <2> QED BY <2>1, <2>3, <1>1 DEF Requested, Joined, HostQuiet
<1> QED BY <1>1, <1>4, <1>6, <1>7 DEF GuestInv, Phase

LEMMA GuestLeavesKeepsGuest ==
    ASSUME IInv, ChunksInv, HistoryKept, GuestInv, GuestJoinFails \/ GuestNoticesLoss
    PROVE  GuestInv'
<1>1. /\ guestPc \in {"connecting", "online"} /\ guestPc' = "offline" /\ linkUp' = FALSE
      /\ toGuest' = <<>>
      /\ guestPc # "connecting" => toGuest = <<>>
      /\ UNCHANGED <<revision, history, sessionPc, guestRole, guestText, guestRev, guestChunks, backlog,
                     toServer>>
  BY DEF GuestJoinFails, GuestNoticesLoss, guestRest, sessionVars, linkVars, logVars, GuestInv, LinkInv,
         IInv, TypeOK
<1>2. Stream' = Stream
  <2>1. backlog \o <<>> = backlog
    BY StreamFacts, ConcatEmptySeq
  <2> QED BY <2>1, <1>1 DEF Stream
<1>3. StreamInv'
  BY <1>1, <1>2, StreamKept DEF GuestInv
<1>4. LinkInv'
  BY <1>1 DEF GuestInv, LinkInv
<1> QED BY <1>1, <1>3, <1>4 DEF GuestInv

LEMMA PendingOpsConcat ==
    ASSUME NEW f \in Seq(ClientMessage), NEW g \in Seq(ClientMessage),
           \A i \in 1..Len(f) : f[i].type = "EDIT", \A i \in 1..Len(g) : g[i].type = "EDIT"
    PROVE  /\ PendingOps(f \o g) = PendingOps(f) \o PendingOps(g)
           /\ \A i \in 1..Len(f \o g) : (f \o g)[i].type = "EDIT"
<1> DEFINE h == f \o g
           A == PendingOps(f)
           B == PendingOps(g)
           C == PendingOps(h)
<1>1. /\ h \in Seq(ClientMessage) /\ Len(h) = Len(f) + Len(g) /\ Len(f) \in Nat /\ Len(g) \in Nat
      /\ \A i \in 1..Len(f) + Len(g) : h[i] = IF i <= Len(f) THEN f[i] ELSE g[i - Len(f)]
  BY ConcatProperties, LenProperties
<1> HIDE DEF h
<1>2. ASSUME NEW i \in 1..Len(h)
      PROVE  h[i].type = "EDIT"
  <2>1. CASE i <= Len(f)
    <3>1. i \in 1..Len(f)
      BY <2>1, <1>1
    <3> QED BY <2>1, <3>1, <1>1
  <2>2. CASE ~ (i <= Len(f))
    <3>1. i - Len(f) \in 1..Len(g)
      BY <2>2, <1>1
    <3> QED BY <2>2, <3>1, <1>1
  <2> QED BY <2>1, <2>2
<1>3. /\ A \in Seq(Operation) /\ Len(A) = Len(f) /\ B \in Seq(Operation) /\ Len(B) = Len(g)
      /\ C \in Seq(Operation) /\ Len(C) = Len(f) + Len(g)
  BY <1>1, <1>2, PendingOpsFacts
<1>4. /\ \A i \in 1..Len(f) : A[i] = f[i].op
      /\ \A i \in 1..Len(g) : B[i] = g[i].op
      /\ \A i \in 1..Len(f) + Len(g) : C[i] = h[i].op
  BY <1>1 DEF PendingOps
<1> HIDE DEF A, B, C
<1>5. /\ A \o B \in Seq(Operation) /\ Len(A \o B) = Len(f) + Len(g)
      /\ \A i \in 1..Len(f) + Len(g) :
           (A \o B)[i] = IF i <= Len(f) THEN A[i] ELSE B[i - Len(f)]
  <2>1. /\ A \o B \in Seq(Operation) /\ Len(A \o B) = Len(A) + Len(B)
        /\ \A i \in 1..Len(A) + Len(B) :
             (A \o B)[i] = IF i <= Len(A) THEN A[i] ELSE B[i - Len(A)]
    <3>1. A \in Seq(Operation) /\ B \in Seq(Operation)
      BY <1>3
    <3> QED BY <3>1, ConcatProperties
  <2> QED BY <2>1, <1>3
<1>6. ASSUME NEW i \in 1..Len(f) + Len(g)
      PROVE  C[i] = (A \o B)[i]
  <2>1. CASE i <= Len(f)
    <3>1. i \in 1..Len(f)
      BY <2>1, <1>1
    <3> QED BY <2>1, <3>1, <1>1, <1>4, <1>5
  <2>2. CASE ~ (i <= Len(f))
    <3>1. i - Len(f) \in 1..Len(g)
      BY <2>2, <1>1
    <3> QED BY <2>2, <3>1, <1>1, <1>4, <1>5
  <2> QED BY <2>1, <2>2
<1>7. C = A \o B
  BY <1>3, <1>5, <1>6, SeqEqual
<1> QED BY <1>2, <1>7 DEF A, B, C, h

\* The frames of a change carry its operations.
LEMMA EditFramesOps ==
    ASSUME NEW old \in Seq(Char), NEW new \in Seq(Char)
    PROVE  /\ EditFrames(old, new) \in Seq(ClientMessage)
           /\ \A i \in 1..Len(EditFrames(old, new)) : EditFrames(old, new)[i].type = "EDIT"
           /\ PendingOps(EditFrames(old, new)) = ComputeEditorDiff(old, new)
<1> DEFINE ops    == ComputeEditorDiff(old, new)
           frames == EditFrames(old, new)
<1>1. ops \in Seq(Operation)
  BY DiffType
<1>2. frames = [i \in 1..Len(ops) |-> [type |-> "EDIT", op |-> ops[i]]]
  BY DEF EditFrames
<1>3. frames \in Seq(ClientMessage)
  BY EditFramesType
<1> HIDE DEF ops, frames
<1>4. /\ Len(ops) \in Nat /\ Len(frames) = Len(ops)
      /\ \A i \in 1..Len(ops) : frames[i].type = "EDIT" /\ frames[i].op = ops[i]
  <2>1. Len(ops) \in Nat /\ DOMAIN frames = 1..Len(ops)
    BY <1>1, <1>2, LenProperties
  <2>2. Len(frames) \in Nat /\ DOMAIN frames = 1..Len(frames)
    BY <1>3, LenProperties
  <2>3. Len(frames) = Len(ops)
    BY <2>1, <2>2
  <2> QED BY <2>1, <2>3, <1>2
<1>5. PendingOps(frames) = ops
  <2>1. PendingOps(frames) \in Seq(Operation) /\ Len(PendingOps(frames)) = Len(ops)
    BY <1>3, <1>4, PendingOpsFacts
  <2>2. \A i \in 1..Len(ops) : PendingOps(frames)[i] = ops[i]
    BY <1>4 DEF PendingOps
  <2> QED BY <2>1, <2>2, <1>1, SeqEqual
<1> QED BY <1>3, <1>4, <1>5 DEF ops, frames

\* Only its own edits are under way when the guest types: they, and now the operations of
\* the change, lead from the server's document to what the guest shows.
LEMMA GuestTypesKeepsGuest ==
    ASSUME TurnTaking, IInv, ChunksInv, HistoryKept, GuestInv, NEW text \in Text, GuestTypes(text),
           unsent' = "nothing"
    PROVE  GuestInv'
<1> DEFINE frames == EditFrames(guestText, text)
<1>1. /\ GuestTurn /\ guestText' = text
      /\ toServer' = IF guestPc \in {"joined", "online"} /\ linkUp THEN toServer \o frames ELSE toServer
      /\ UNCHANGED <<document, revision, history, sessionPc, sessionApply, snapshot, hostPc, hostApply,
                     guestPc, guestRole, guestRev, guestChunks, backlog, linkUp, toGuest>>
  BY DEF GuestTypes, serverAndHost, sessionVars, hostVars
<1>2. /\ hostPc = "idle" /\ sessionPc # "chunks" /\ guestPc \notin {"connecting", "joined"}
      /\ \A m \in Range(toServer) : m.type # "SYNC_REQUEST"
      /\ \A m \in Range(toGuest) \cup Range(backlog) : IsOwnApply(m)
  BY <1>1 DEF GuestTurn
<1>3. AllOwn(Stream) /\ \A i \in 1..Len(Stream) : ~ IsHosts(Stream[i])
  BY <1>2, StreamFacts DEF AllOwn, IsOwn, IsHosts, IsOwnApply
<1>4. Stream' = Stream
  BY <1>1 DEF Stream
<1>5. TextFits(Stream', guestText', history')
  BY <1>3, <1>4 DEF TextFits
<1>6. Chained(Stream', guestRev', guestChunks')
  BY <1>1, <1>4 DEF GuestInv, StreamInv
<1>7. StreamInv'
  BY <1>1, <1>5, <1>6 DEF GuestInv, StreamInv
<1>8. ASSUME linkUp PROVE guestPc = "online" /\ Synced' /\ sessionPc # "none"
  <2>1. ~ Requested
    <3> SUFFICES ASSUME Requested PROVE FALSE
      OBVIOUS
    <3>1. toServer \in Seq(ClientMessage) /\ toServer # <<>>
      BY DEF Requested, IInv, TypeOK
    <3>2. Head(toServer) \in Range(toServer) /\ Head(toServer).type = "SYNC_REQUEST"
      <4>1. Head(<<[type |-> "SYNC_REQUEST"]>>).type = "SYNC_REQUEST"
        OBVIOUS
      <4> QED BY <4>1, <3>1, RangeHeadTail DEF Requested
    <3> QED BY <3>2, <1>2
  <2>2. guestPc = "online" /\ Synced
    BY <2>1, <1>2, <1>8 DEF GuestInv, LinkInv, Phase, Sending, IInv, TypeOK
  <2>3. Replays(document, PendingOps(toServer), guestText)
    BY <2>2, <1>2, <1>3 DEF Synced, Editor
  <2>4. toServer \in Seq(ClientMessage) /\ \A i \in 1..Len(toServer) : toServer[i].type = "EDIT"
    BY <2>2 DEF Synced, IInv, TypeOK
  <2>5. PendingOps(toServer) \in Seq(Operation)
    BY <2>4, PendingOpsFacts
  <2>6. guestText \in Text /\ document \in Text
    BY <2>3, <2>5, ReplaysType DEF IInv, TypeOK
  <2>7. guestText \in Seq(Char) /\ text \in Seq(Char)
    BY <2>6, TextIsSeq
  <2>8. /\ frames \in Seq(ClientMessage) /\ \A i \in 1..Len(frames) : frames[i].type = "EDIT"
        /\ PendingOps(frames) = ComputeEditorDiff(guestText, text)
        /\ ComputeEditorDiff(guestText, text) \in Seq(Operation)
    BY <2>7, EditFramesOps, DiffType
  <2>9. Replays(guestText, PendingOps(frames), text)
    BY <2>6, <2>8, DiffReplays
  <2> HIDE DEF frames
  <2>10. toServer' = toServer \o frames
    BY <2>2, <1>1, <1>8
  <2>11. /\ PendingOps(toServer') = PendingOps(toServer) \o PendingOps(frames)
         /\ \A i \in 1..Len(toServer') : toServer'[i].type = "EDIT"
    BY <2>4, <2>8, <2>10, PendingOpsConcat
  <2>12. Replays(document, PendingOps(toServer'), text)
    BY <2>3, <2>5, <2>6, <2>8, <2>9, <2>11, ReplaysConcat
  <2>13. Editor'
    BY <2>12, <1>1, <1>2 DEF Editor
  <2>14. Sent' = Sent
    BY <1>1 DEF Sent
  <2>15. Synced'
    BY <2>2, <2>11, <2>13, <2>14, <1>1, <1>2, <1>3, <1>4 DEF Synced
  <2> QED BY <2>2, <2>15 DEF Synced
<1>9. LinkInv'
  BY <1>1, <1>8 DEF GuestInv, LinkInv
<1> QED BY <1>1, <1>7, <1>8, <1>9 DEF GuestInv, Phase
-----------------------------------------------------------------------------
LEMMA HeadTailOfConcat ==
    ASSUME NEW S, NEW s \in Seq(S), NEW t \in Seq(S), s # <<>>
    PROVE  /\ s \o t # <<>> /\ (s \o t)[1] = Head(s)
           /\ Tail(s \o t) = Tail(s) \o t
<1> DEFINE c == s \o t
           r == Tail(s) \o t
<1>1. /\ c \in Seq(S) /\ Len(c) = Len(s) + Len(t) /\ Len(t) \in Nat /\ Len(s) \in Nat \ {0}
      /\ \A i \in 1..Len(s) + Len(t) : c[i] = IF i <= Len(s) THEN s[i] ELSE t[i - Len(s)]
  BY ConcatProperties, LenProperties, EmptySeq
<1>2. /\ Tail(s) \in Seq(S) /\ Len(Tail(s)) = Len(s) - 1 /\ Head(s) = s[1]
      /\ \A i \in 1..Len(s) - 1 : Tail(s)[i] = s[i + 1]
  BY HeadTailProperties
<1>3. /\ r \in Seq(S) /\ Len(r) = Len(s) - 1 + Len(t)
      /\ \A i \in 1..Len(s) - 1 + Len(t) :
           r[i] = IF i <= Len(s) - 1 THEN Tail(s)[i] ELSE t[i - (Len(s) - 1)]
  BY <1>1, <1>2, ConcatProperties
<1> HIDE DEF c, r
<1>4. c # <<>> /\ c[1] = Head(s)
  <2>1. Len(c) # 0 /\ Len(<<>>) = 0 /\ 1 \in 1..Len(s) + Len(t) /\ 1 <= Len(s)
    BY <1>1
  <2> QED BY <2>1, <1>1, <1>2
<1>5. /\ Tail(c) \in Seq(S) /\ Len(Tail(c)) = Len(s) + Len(t) - 1
      /\ \A i \in 1..Len(s) + Len(t) - 1 : Tail(c)[i] = c[i + 1]
  BY <1>1, <1>4, HeadTailProperties
<1>6. ASSUME NEW i \in 1..Len(s) + Len(t) - 1
      PROVE  Tail(c)[i] = r[i]
  <2>1. i + 1 \in 1..Len(s) + Len(t) /\ i \in 1..Len(s) - 1 + Len(t)
    BY <1>1
  <2>2. CASE i <= Len(s) - 1
    <3>1. i + 1 <= Len(s) /\ i \in 1..Len(s) - 1
      BY <2>2, <1>1
    <3> QED BY <2>1, <2>2, <3>1, <1>1, <1>2, <1>3, <1>5
  <2>3. CASE ~ (i <= Len(s) - 1)
    <3>1. ~ (i + 1 <= Len(s)) /\ i + 1 - Len(s) = i - (Len(s) - 1)
      BY <2>3, <1>1
    <3> QED BY <2>1, <2>3, <3>1, <1>1, <1>3, <1>5
  <2> QED BY <2>2, <2>3
<1>7. Tail(c) = r
  <2>1. Len(s) - 1 + Len(t) = Len(s) + Len(t) - 1
    BY <1>1
  <2> QED BY <2>1, <1>3, <1>5, <1>6, SeqEqual
<1> QED BY <1>4, <1>7 DEF c, r

\* The guest's window takes the first message of the stream.
LEMMA HandlesFirst ==
    ASSUME IInv, ChunksInv, GuestHandlesBacklog \/ GuestHandlesEvent
    PROVE  /\ Stream # <<>> /\ Stream' = Tail(Stream) /\ GuestHandles(Stream[1])
           /\ UNCHANGED <<document, revision, history, committed, sessionPc, sessionApply, snapshot,
                          hostPc, hostApply, guestPc, guestRole, linkUp>>
           /\ toGuest' = toGuest \/ (guestPc = "online" /\ toGuest # <<>>)
<1>1. toGuest \in Seq(ServerMessage) /\ backlog \in Seq(ServerMessage)
  BY StreamFacts
<1>2. /\ UNCHANGED <<document, revision, history, committed, sessionPc, sessionApply, snapshot,
                     hostPc, hostApply, guestPc, guestRole, linkUp>>
      /\ toGuest' = toGuest \/ (guestPc = "online" /\ toGuest # <<>>)
  BY DEF GuestHandlesBacklog, GuestHandlesEvent, guestRest, sessionVars, hostVars, logVars
<1>3. Stream # <<>> /\ Stream' = Tail(Stream) /\ GuestHandles(Stream[1])
  <2>1. CASE GuestHandlesBacklog
    <3>1. /\ backlog # <<>> /\ GuestHandles(Head(backlog)) /\ backlog' = Tail(backlog)
          /\ toGuest' = toGuest /\ Head(backlog) = backlog[1]
      BY <2>1, <1>1 DEF GuestHandlesBacklog
    <3>2. CASE guestPc = "connecting"
      BY <3>1, <3>2, <1>2 DEF Stream
    <3>3. CASE guestPc # "connecting"
      <4>1. Stream = backlog \o toGuest /\ Stream' = Tail(backlog) \o toGuest
        BY <3>1, <3>3, <1>2 DEF Stream
      <4> QED BY <4>1, <3>1, <1>1, HeadTailOfConcat
    <3> QED BY <3>2, <3>3
  <2>2. CASE GuestHandlesEvent
    <3>1. /\ guestPc = "online" /\ backlog = <<>> /\ toGuest # <<>> /\ GuestHandles(Head(toGuest))
          /\ toGuest' = Tail(toGuest) /\ backlog' = backlog /\ Head(toGuest) = toGuest[1]
      BY <2>2, <1>1 DEF GuestHandlesEvent
    <3>2. <<>> \o toGuest = toGuest /\ <<>> \o Tail(toGuest) = Tail(toGuest)
      BY <3>1, <1>1, ConcatEmptySeq, HeadTailProperties
    <3>3. Stream = toGuest /\ Stream' = Tail(toGuest)
      BY <3>1, <3>2, <1>2 DEF Stream
    <3> QED BY <3>1, <3>3
  <2> QED BY <2>1, <2>2
<1> QED BY <1>2, <1>3

\* Whatever the guest's window handles, it goes on to the next message of the stream, and
\* shows what the server had when the last one was sent.
LEMMA GuestHandlesKeepsGuest ==
    ASSUME IInv, ChunksInv, HistoryKept, OperationsAccepted, GuestInv,
           GuestHandlesBacklog \/ GuestHandlesEvent
    PROVE  GuestInv'
<1> DEFINE message == Stream[1]
           S == Stream
<1>1. /\ Stream # <<>> /\ Stream' = Tail(Stream) /\ GuestHandles(message)
      /\ UNCHANGED <<document, revision, history, committed, sessionPc, sessionApply, snapshot,
                     hostPc, hostApply, guestPc, guestRole, linkUp>>
      /\ toGuest' = toGuest \/ (guestPc = "online" /\ toGuest # <<>>)
  BY HandlesFirst
<1>2. /\ S \in Seq(ServerMessage) /\ Len(S) \in Nat \ {0} /\ 1 \in 1..Len(S)
      /\ message \in ServerMessage /\ message \in Range(S)
      /\ message \in Range(toGuest) \cup Range(backlog)
      /\ Tail(S) \in Seq(ServerMessage) /\ Len(Tail(S)) = Len(S) - 1
      /\ \A i \in 1..Len(S) - 1 : Tail(S)[i] = S[i + 1]
  <2>1. Len(S) \in Nat \ {0} /\ S \in Seq(ServerMessage)
    BY <1>1, StreamFacts, EmptySeq
  <2>2. 1 \in 1..Len(S)
    BY <2>1
  <2> QED BY <2>1, <2>2, <1>1, StreamFacts, HeadTailProperties
<1>3. /\ Begins(message, guestRev, guestChunks) /\ Chained(S, guestRev, guestChunks)
      /\ TextFits(S, guestText, history) /\ LastMissing(guestChunks)
  BY <1>1 DEF GuestInv, StreamInv, Chained
<1>4. IsHosts(message) => guestText = history[message.rev]
  <2>1. \A j \in 1..1 - 1 : FALSE
    OBVIOUS
  <2> QED BY <2>1, <1>2, <1>3 DEF TextFits
<1>5. Takes(message)
  <2>1. message.type = "APPLY" \/ IsChunk(message)
    BY <1>3 DEF Begins, IsOwn, IsHosts
  <2>2. CASE message.type = "APPLY"
    BY <2>2, <1>1, <1>2, <1>3, <1>4, TakesApply
  <2>3. CASE IsChunk(message)
    BY <2>3, <1>1, <1>2, <1>3, TakesChunk
  <2> QED BY <2>1, <2>2, <2>3
<1>6. /\ toServer' = toServer /\ LastMissing(guestChunks')
      /\ IsOwn(message) => guestText' = guestText
      /\ \A r : EndsAt(message, r) =>
           guestRev' = r /\ (~ IsOwn(message) => guestText' = history[r + 1])
      /\ IsChunk(message) /\ message.index + 1 # message.count =>
           Collected(guestChunks', message.rev, message.count, message.index + 1)
  BY <1>5 DEF Takes
<1> HIDE DEF message, S
<1>7. Chained(Tail(S), guestRev', guestChunks')
  <2>1. \A n \in ServerMessage : Follows(message, n) /\ n \in Range(S) => Begins(n, guestRev', guestChunks')
    BY <1>5, StreamFacts DEF Takes, S
  <2>2. message = S[1] /\ S # <<>>
    BY <1>1 DEF message, S
  <2> QED BY <2>1, <2>2, <1>2, <1>3, ChainedTail
<1>8. TextFits(Tail(S), guestText', history)
  <2>1. \A m \in Range(S) : m.type = "APPLY" => m.rev \in Nat
    BY StreamFacts DEF S, IInv, TypeOK
  <2>2. message = S[1] /\ S # <<>>
    BY <1>1 DEF message, S
  <2>3. \A r : EndsAt(message, r) /\ ~ IsOwn(message) => guestText' = history[r + 1]
    BY <1>6
  <2> QED BY <2>1, <2>2, <2>3, <1>2, <1>3, <1>6, TextFitsTail
<1>9. StreamInv'
  BY <1>1, <1>6, <1>7, <1>8 DEF StreamInv, S
<1>10. LinkInv'
  <2>1. guestRole = "Guest" \/ guestRev' = guestRev
    BY <1>1 DEF GuestHandlesBacklog, GuestHandlesEvent, GuestInv, LinkInv
  <2> QED BY <2>1, <1>1, <1>6 DEF GuestInv, LinkInv, IInv, TypeOK
<1>11. /\ guestPc = "connecting" /\ Connecting => Connecting'
       /\ guestPc = "joined" /\ Joined => Joined'
       /\ Requested => Requested'
  BY <1>1, <1>6 DEF Connecting, Joined, Requested, HostQuiet
\* The last message stays the last one, until it is the one that is handled.
<1>12. /\ Stream' # <<>> => Stream'[Len(Stream')] = S[Len(S)]
       /\ Stream' = <<>> => message = S[Len(S)]
  <2>1. ASSUME Tail(S) # <<>> PROVE Tail(S)[Len(Tail(S))] = S[Len(S)]
    <3>1. Len(Tail(S)) \in Nat \ {0}
      BY <2>1, <1>2, EmptySeq
    <3>2. Len(S) - 1 \in 1..Len(S) - 1 /\ Len(S) - 1 + 1 = Len(S)
      BY <3>1, <1>2
    <3> QED BY <3>2, <1>2
  <2>2. ASSUME Tail(S) = <<>> PROVE message = S[Len(S)]
    <3>1. Len(S) = 1
      <4>1. Len(<<>>) = 0
        OBVIOUS
      <4>2. Len(Tail(S)) = Len(S) - 1 /\ Len(S) \in Nat
        BY <1>2
      <4>3. Len(Tail(S)) = 0
        BY <4>1, <2>2, Zenon
      <4> DEFINE n == Len(S)
          t == Len(Tail(S))
      <4>4. n \in Nat /\ t = n - 1 /\ t = 0
        BY <4>2, <4>3
      <4> HIDE DEF n, t
      <4>5. n = 1
        BY <4>4
      <4> QED BY <4>5 DEF n
    <3> QED BY <3>1 DEF message, S
  <2> QED BY <2>1, <2>2, <1>1 DEF S
<1>13. ASSUME Sending, linkUp PROVE Sending'
  <2>1. /\ snapshot.rev = revision /\ snapshot.next \in Nat /\ snapshot.next + 1 \in 1..ChunkCount(snapshot.text)
    BY <1>13 DEF Sending, ChunksInv, SnapshotIsHistory, IInv, PcOK, Snapshot
  <2> DEFINE last == ChunkMessage(snapshot.text, snapshot.rev, snapshot.next - 1)
  <2>2. ChunkMessage(snapshot.text, snapshot.rev, snapshot.next - 1)' = last
    BY <1>1 DEF ChunkMessage, ChunkCount, Chunk, ChunkEnd
  <2>3. ASSUME snapshot.next > 0 PROVE S[Len(S)] = last
    BY <2>3, <1>1, <1>13 DEF Sending, S
  <2>4. ASSUME snapshot.next > 0, Stream' = <<>>
        PROVE  Collected(guestChunks', snapshot.rev, ChunkCount(snapshot.text), snapshot.next)
    <3>1. message = last
      BY <2>3, <2>4, <1>12
    <3>2. /\ IsChunk(last) /\ last.rev = snapshot.rev /\ last.index = snapshot.next - 1
          /\ last.count = ChunkCount(snapshot.text)
      BY DEF ChunkMessage, IsChunk
    <3> HIDE DEF last
    <3>3. last.index + 1 = snapshot.next /\ snapshot.next # ChunkCount(snapshot.text)
      BY <3>2, <2>1
    <3> QED BY <3>1, <3>2, <3>3, <1>6
  <2>5. ChunkCount(snapshot.text)' = ChunkCount(snapshot.text)
    BY <1>1 DEF ChunkCount
  <2> HIDE DEF last
  <2>6. snapshot.next > 0 =>
          IF Stream' = <<>>
          THEN Collected(guestChunks', snapshot.rev, ChunkCount(snapshot.text), snapshot.next)
          ELSE Stream'[Len(Stream')] = last
    BY <2>3, <2>4, <1>12
  <2>7. /\ snapshot' = snapshot /\ sessionPc' = "chunks" /\ toServer' = <<>>
        /\ HostQuiet' /\ revision' = revision
    BY <1>1, <1>6, <1>13 DEF Sending, HostQuiet
  <2> QED BY <2>1, <2>2, <2>5, <2>6, <2>7 DEF Sending
<1>14. ASSUME Synced PROVE Synced'
  <2>1. /\ EndsAt(S[Len(S)], Sent) /\ Sent' = Sent
    BY <1>1, <1>14 DEF Synced, S, Sent
  <2>2. IF Stream' = <<>> THEN guestRev' = Sent ELSE EndsAt(Stream'[Len(Stream')], Sent)
    BY <2>1, <1>6, <1>12
  <2>3. CASE AllOwn(S)
    <3>1. IsOwn(message) /\ Editor
      BY <2>3, <1>2, <1>14 DEF AllOwn, message, Synced, S
    <3>2. AllOwn(Tail(S))
      <4>1. \A i \in 1..Len(S) - 1 : i + 1 \in 1..Len(S)
        BY <1>2
      <4> QED BY <4>1, <2>3, <1>2 DEF AllOwn
    <3>3. Editor'
      BY <3>1, <1>1, <1>6 DEF Editor
    <3> QED BY <2>1, <2>2, <3>2, <3>3, <1>1, <1>6, <1>14 DEF Synced, S
  <2>4. CASE ~ AllOwn(S)
    <3>1. toServer = <<>> /\ sessionPc = "receive"
      BY <2>4, <1>14 DEF Synced, S
    <3>2. ASSUME AllOwn(Tail(S)) PROVE Editor'
      <4>1. Tail(S) = <<>> /\ ~ IsOwn(message)
        <5>1. message = S[1] /\ S # <<>>
          BY <1>1 DEF message, S
        <5> QED BY <5>1, <3>2, <2>4, <1>2, <1>3, OwnFollowsOwn
      <4>2. guestText' = history[Sent + 1]
        <5>1. message = S[Len(S)]
          BY <4>1, <1>1, <1>12 DEF S
        <5> QED BY <5>1, <4>1, <2>1, <1>6
      <4>3. revision \in Nat /\ document = history[revision + 1] /\ document \in Text
        BY DEF IInv, TypeOK, LogExplainsDocument
      <4>4. CASE hostPc = "broadcast"
        <5>1. Sent + 1 = revision
          BY <4>3, <4>4 DEF Sent
        <5> QED BY <5>1, <4>2, <4>4, <1>1 DEF Editor
      <4>5. CASE hostPc # "broadcast"
        <5>1. Sent = revision
          BY <3>1, <4>5 DEF Sent
        <5>2. guestText' = document
          BY <5>1, <4>2, <4>3
        <5>3. PendingOps(toServer) = <<>>
          BY <3>1 DEF PendingOps
        <5>4. Replays(document, <<>>, document)
          BY <4>3, ReplaysNothing
        <5> QED BY <5>2, <5>3, <5>4, <4>5, <1>1, <1>6 DEF Editor
      <4> QED BY <4>4, <4>5
    <3> QED BY <2>1, <2>2, <3>1, <3>2, <1>1, <1>6, <1>14 DEF Synced, S
  <2> QED BY <2>3, <2>4
<1>15. linkUp => Phase'
  BY <1>1, <1>11, <1>13, <1>14 DEF GuestInv, Phase
<1> QED BY <1>1, <1>9, <1>10, <1>15 DEF GuestInv
-----------------------------------------------------------------------------
\* A send that failed is not forgotten, so until one did there was none.
LEMMA FailureIsRemembered == IInv /\ [Next]_vars /\ unsent' = "nothing" => unsent = "nothing"
<1> SUFFICES ASSUME IInv, [Next]_vars, unsent' = "nothing" PROVE unsent = "nothing"
  OBVIOUS
<1>1. ASSUME NEW message, SendIgnoringFailure(message) PROVE unsent = "nothing"
  BY <1>1, IgnoringFacts
<1>2. CASE HostBroadcasts \/ SessionRefuses
  BY <1>1, <1>2 DEF HostBroadcasts, SessionRefuses
<1>3. CASE GuestConnects
  BY <1>3 DEF GuestConnects
<1>4. ASSUME NEW text \in Text, GuestTypes(text) PROVE unsent = "nothing"
  BY <1>4 DEF GuestTypes
<1>5. CASE HostCommits \/ SessionCommits
  BY <1>5 DEF HostCommits, SessionCommits, Commit
<1>6. CASE \/ UNCHANGED vars
           \/ /\ Next
              /\ ~ (\E text \in Text : GuestTypes(text))
              /\ ~ (HostBroadcasts \/ SessionRefuses \/ GuestConnects \/ HostCommits
                      \/ SessionCommits)
  <2>1. unsent' = unsent
    BY <1>6 DEF Next, Users, Host, Session, SessionServes, Guest, GuestHandlesFrames,
       HostTypes, HostRefused, HostFinishesChange, HostCopiesDocument, HostCopiesRevision,
       HostStartsDrain, HostHandlesEvent, HostFinishesDrain, SessionAdmits, SessionSendsJoinOk,
       SessionEnds, SessionPushesEvent, SessionSendsApply, SessionTakesSnapshot,
       SessionSendsChunk, GuestJoins, GuestStarts, GuestJoinFails, GuestNoticesLoss,
       GuestHandlesBacklog, GuestHandlesEvent, LinkBreaks, vars, guestRest, logVars
  <2> QED BY <2>1
<1> QED BY <1>2, <1>3, <1>4, <1>5, <1>6

LEMMA NextKeepsGuest ==
    ASSUME TurnTaking, IInv, ChunksInv, OperationsAccepted, HostFollows, HostFollows',
           HostChangesFit, GuestChangesFit, unsent = "nothing" => GuestInv, [Next]_vars
    PROVE  unsent' = "nothing" => GuestInv'
<1> SUFFICES ASSUME unsent' = "nothing" PROVE GuestInv'
  OBVIOUS
<1>none. unsent = "nothing"
  BY FailureIsRemembered
<1>inv. GuestInv
  BY <1>none
<1>1. HistoryKept
  BY NextKeepsHistory
<1>2. ASSUME NEW text \in Text, HostTypes(text) \/ GuestTypes(text) PROVE GuestInv'
  BY <1>1, <1>inv, <1>2, HostTypesKeepsGuest, QuietForGuestKeeps, GuestTypesKeepsGuest
<1>3. CASE Host
  <2>1. ~ HostRefused /\ ~ HostCopiesDocument /\ ~ HostCopiesRevision
    BY HostNeverRefused DEF HostCopiesDocument, HostCopiesRevision, HostFollows
  <2> QED BY <2>1, <1>1, <1>inv, <1>3, HostCommitsKeepsGuest, HostBroadcastsKeepsGuest, HostQuietForGuest,
             QuietForGuestKeeps DEF Host
<1>4. CASE Session
  BY <1>1, <1>none, <1>inv, <1>4, SessionAdmitsKeepsGuest, SessionEndsKeepsGuest, SessionCommitsKeepsGuest,
     SessionRefusesKeepsGuest, PushesQuietForGuest, QuietForGuestKeeps, SessionSendsApplyKeepsGuest,
     SessionTakesSnapshotKeepsGuest, SessionSendsChunkKeepsGuest
     DEF Session, SessionServes
<1>5. CASE Guest
  BY <1>1, <1>inv, <1>5, GuestConnectsKeepsGuest, GuestJoinsKeepsGuest, GuestStartsKeepsGuest,
     GuestLeavesKeepsGuest, GuestHandlesKeepsGuest
     DEF Guest, GuestHandlesFrames
<1>6. CASE LinkBreaks
  BY <1>1, <1>inv, <1>6, LinkBreaksKeepsGuest
<1>7. CASE UNCHANGED vars
  BY <1>7, <1>inv DEF vars, hostVars, sessionVars, guestVars, linkVars, logVars, GuestInv, LinkInv, StreamInv,
     Stream, Phase, Connecting, Joined, Requested, Sending, Synced, HostQuiet, Editor, Sent,
     ChunkMessage, ChunkCount, Chunk, ChunkEnd
<1> QED BY <1>2, <1>3, <1>4, <1>5, <1>6, <1>7 DEF Next, Users

LEMMA InitShowsGuest == Init => GuestInv
<1> SUFFICES ASSUME Init PROVE GuestInv
  OBVIOUS
<1>1. /\ guestPc = "offline" /\ ~ linkUp /\ toGuest = <<>> /\ backlog = <<>> /\ toServer = <<>>
      /\ guestRev = 0 /\ guestChunks.parts = <<>>
  BY DEF Init, NoChunks
<1>2. Stream = <<>> /\ Len(<<>>) = 0 /\ 1..0 = {}
  <2>1. <<>> \o <<>> = <<>>
    BY ConcatEmptySeq, EmptySeq
  <2> QED BY <2>1, <1>1 DEF Stream
<1>3. StreamInv
  BY <1>1, <1>2 DEF StreamInv, Chained, TextFits, LastMissing
<1> QED BY <1>1, <1>3 DEF GuestInv, LinkInv

\* When users take turns and no change inserts more than the server takes in one operation,
\* the guest's editor shows the server's document whenever nothing is under way for it,
\* unless a send failed on a connection that stayed up: after connections that broke and
\* rejoins, with what was typed while there was none.
THEOREM GuestShowsDocument ==
    ASSUME TurnTaking
    PROVE  Spec /\ []HostChangesFit /\ []GuestChangesFit => []GuestShowsServerDocument
<1> DEFINE Faithful == unsent = "nothing" => GuestInv
<1>1. IInv /\ ChunksInv /\ Faithful => GuestShowsServerDocument
  <2> SUFFICES ASSUME IInv, ChunksInv, GuestInv, GuestSettled, unsent = "nothing"
               PROVE  guestText = document /\ guestRev = revision
    BY DEF GuestShowsServerDocument
  <2>1. /\ guestPc = "online" /\ linkUp /\ sessionPc = "receive" /\ hostPc = "idle"
        /\ toServer = <<>> /\ toGuest = <<>> /\ backlog = <<>>
    BY DEF GuestSettled
  <2>2. Stream = <<>> /\ Len(<<>>) = 0
    <3>1. <<>> \o <<>> = <<>>
      BY ConcatEmptySeq, EmptySeq
    <3> QED BY <3>1, <2>1 DEF Stream
  <2>3. Synced
    <3>1. <<>> # <<[type |-> "SYNC_REQUEST"]>>
      <4>1. Len(<<[type |-> "SYNC_REQUEST"]>>) = 1
        OBVIOUS
      <4> QED BY <4>1, <2>2
    <3> QED BY <3>1, <2>1 DEF GuestInv, Phase, Requested, Sending
  <2>4. guestRev = revision
    BY <2>1, <2>2, <2>3 DEF Synced, Sent
  <2>5. AllOwn(Stream)
    BY <2>2 DEF AllOwn
  <2>6. Replays(document, PendingOps(toServer), guestText)
    BY <2>1, <2>3, <2>5 DEF Synced, Editor
  <2>7. PendingOps(toServer) = <<>>
    BY <2>1, <2>2 DEF PendingOps
  <2>8. document = guestText
    BY <2>6, <2>7, ReplaysEmpty
  <2> QED BY <2>4, <2>8
<1>2. Init => ChunksInv
  BY RangeEmpty DEF Init, ChunksInv, SnapshotIsHistory, PartsAreHistory, NoChunks
<1>3. IInv /\ QueueInv /\ OperationsAccepted /\ HostFollows /\ HostChangesFit /\ [Next]_vars
        => HostFollows'
  BY NextFollows
<1>4. IInv /\ ChunksInv /\ OperationsAccepted /\ HostFollows /\ HostFollows'
        /\ HostChangesFit /\ GuestChangesFit /\ Faithful /\ [Next]_vars => Faithful'
  BY NextKeepsGuest
<1>init. Init => Faithful
  BY InitShowsGuest
<1>5. Spec => [](IInv /\ QueueInv /\ OperationsAccepted /\ ChunksInv)
  BY <1>2, InitFollows, NextKeepsQueue, NextKeepsAccepted, NextKeepsChunks, Invariance, PTL DEF Spec
<1>6. Spec /\ []HostChangesFit => []HostFollows
  BY <1>3, <1>5, InitFollows, PTL DEF Spec
<1>7. Spec /\ []HostChangesFit /\ []GuestChangesFit => []Faithful
  BY <1>4, <1>5, <1>6, <1>init, PTL DEF Spec
<1> QED BY <1>1, <1>5, <1>7, PTL
=============================================================================
