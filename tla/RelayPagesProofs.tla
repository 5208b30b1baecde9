-------------------------- MODULE RelayPagesProofs ---------------------------
(*****************************************************************************)
(* What the host of a relay room sends is its history, a guest that only     *)
(* reads follows it, and two users who wait for each other agree: for every  *)
(* alphabet, every size of a chunk and of what the relay accepts, any number *)
(* of edits and of lost connections. The last two hold as long as the        *)
(* editors give every text back as they were given it (asGiven); Written may *)
(* be any function otherwise.                                                *)
(*                                                                           *)
(* All rest on the stream: the frames between the host and its guest, those  *)
(* the relay has passed on before those it has not.  Its frames are true of  *)
(* history and no revision in it goes back (StreamInv), the guest holds      *)
(* nothing newer than what is in it (HeldInv), and for a guest that only     *)
(* reads there is a place in it from which operations alone lead to the      *)
(* host's document, while the document they start from is shown already or   *)
(* all of its chunks are in the page or before that place (ReaderInv).       *)
(*                                                                           *)
(* Of two polite users, the guest is in one of five phases (PoliteInv): its  *)
(* PEER_JOINED is on its way (Waits), it reads on (Reads), its user types    *)
(* (Writes), its operations go to the host and come back (Operating), or the *)
(* chunks of its document go there (Sends); and what a lost connection left  *)
(* on its way to the host is one change or a part of it (Left).              *)
(*****************************************************************************)
EXTENDS RelayPages, EditorDiffProofs

-----------------------------------------------------------------------------
(* The chunks of a text put together. *)

\* What FlattenSeq computes, step by step.
LEMMA FlattenSeqSteps ==
    ASSUME NEW S, NEW seqs \in Seq(Seq(S)), seqs # <<>>
    PROVE  \E f : /\ OnSeq!FlattenSeq(seqs) = f[Len(seqs)]
                  /\ f[1] = seqs[1]
                  /\ \A i \in 2..Len(seqs) : f[i] = f[i - 1] \o seqs[i]
<1> DEFINE len == Len(seqs)
           flatten == FlattenFun(seqs, len)
<1>1. len \in Nat \ {0}
  BY EmptySeq, LenProperties
<1>2. OnSeq!FlattenSeq(seqs) = flatten[len]
  BY <1>1 DEF OnSeq!FlattenSeq, FlattenFun
<1>3. flatten[1] = seqs[1] /\ \A i \in 2..len : flatten[i] = flatten[i - 1] \o seqs[i]
  <2> HIDE DEF len
  <2> QED BY <1>1, FlattenSteps
<1> HIDE DEF flatten
<1> QED BY <1>2, <1>3

\* A whole document in chunks that are all there is a text.
LEMMA JoinedType ==
    ASSUME NEW chunks \in [rev : Nat, parts : Seq(Seq(Seq(Char)))], Complete(chunks)
    PROVE  Joined(chunks) \in Seq(Char)
<1> DEFINE parts == chunks.parts
           len   == Len(chunks.parts)
           seqs  == [k \in 1..len |-> parts[k][1]]
<1>1. parts \in Seq(Seq(Seq(Char))) /\ len \in Nat
  BY LenProperties
<1>2. ASSUME NEW n \in 1..len
      PROVE  parts[n][1] \in Seq(Char)
  <2>1. parts[n] \in Seq(Seq(Char)) /\ parts[n] # <<>>
    BY <1>1, LenProperties DEF Complete
  <2>2. Len(parts[n]) \in Nat \ {0}
    BY <2>1, EmptySeq
  <2>3. 1 \in 1..Len(parts[n])
    BY <2>2
  <2> QED BY <2>1, <2>3, LenProperties
<1>3. Joined(chunks) = OnSeq!FlattenSeq(seqs)
  BY DEF Joined
<1> HIDE DEF parts, len
<1>4. seqs \in Seq(Seq(Char)) /\ Len(seqs) = len
  <2>1. seqs \in [1..len -> Seq(Char)]
    BY <1>2
  <2> HIDE DEF seqs
  <2>2. seqs \in Seq(Seq(Char))
    BY <1>1, <2>1, SeqDef
  <2> QED BY <1>1, <2>1, <2>2, LenProperties
<1>5. CASE seqs = <<>>
  <2> HIDE DEF seqs
  <2>1. Len(seqs) = 0
    BY <1>5
  <2>2. Joined(chunks) = seqs
    BY <1>3, <2>1 DEF OnSeq!FlattenSeq
  <2>3. <<>> \in Seq(Char)
    OBVIOUS
  <2> QED BY <1>5, <2>2, <2>3
<1>6. CASE seqs # <<>>
  <2> HIDE DEF seqs
  <2>1. PICK f : /\ OnSeq!FlattenSeq(seqs) = f[len]
                 /\ f[1] = seqs[1]
                 /\ \A i \in 2..len : f[i] = f[i - 1] \o seqs[i]
    BY <1>4, <1>6, FlattenSeqSteps
  <2>2. len \in Nat \ {0}
    BY <1>4, <1>6, EmptySeq, LenProperties
  <2>3. \A k \in 1..len : seqs[k] \in Seq(Char)
    BY <1>4, LenProperties
  <2>4. f[len] \in Seq(Char)
    BY <2>1, <2>2, <2>3, FlattenType
  <2> QED BY <1>3, <2>1, <2>4
<1> QED BY <1>5, <1>6

\* chunkText: how many chunks there are, and what is in each.
Count(text) == PieceCount(text, RelayChunkSize)
Chunk(text, k) == Piece(text, RelayChunkSize, k)

\* chunkText in terms of these.
LEMMA PartsProperties ==
    ASSUME NEW type, NEW rev, NEW text
    PROVE  Parts(type, rev, text) =
             [k \in 1..Count(text) |->
                 [type |-> type, rev |-> rev, index |-> k, count |-> Count(text),
                  text |-> Chunk(text, k)]]
BY DEF Parts, Count, Chunk, PieceCount, Piece, PieceEnd

\* Every chunk begins within the text and the last one ends with it.
LEMMA CountProperties ==
    ASSUME NEW text \in Seq(Char)
    PROVE  /\ Count(text) \in Nat \ {0}
           /\ \A k \in 1..Count(text) - 1 : k * RelayChunkSize <= Len(text)
BY PieceCountProperties, RelayPagesAssumption DEF Count

\* A chunk is a text.
LEMMA ChunkType ==
    ASSUME NEW text \in Seq(Char), NEW k \in 1..Count(text)
    PROVE  Chunk(text, k) \in Seq(Char)
BY PieceType, RelayPagesAssumption DEF Count, Chunk

\* The chunks of a text put together are the text, however it was cut.
LEMMA JoinedParts ==
    ASSUME NEW text \in Seq(Char), NEW chunks,
           Len(chunks.parts) = Count(text),
           \A k \in 1..Count(text) : chunks.parts[k] = <<Chunk(text, k)>>
    PROVE  Joined(chunks) = text
<1> DEFINE count == Count(text)
           seqs  == [k \in 1..count |-> Chunk(text, k)]
<1>1. count \in Nat \ {0}
  BY CountProperties
<1>2. Joined(chunks) = OnSeq!FlattenSeq(seqs)
  <2>1. [k \in 1..Len(chunks.parts) |-> chunks.parts[k][1]] = seqs
    OBVIOUS
  <2> QED BY <2>1 DEF Joined
<1>3. seqs \in Seq(Seq(Char)) /\ Len(seqs) = count /\ seqs # <<>>
  <2>1. seqs \in [1..count -> Seq(Char)]
    BY ChunkType
  <2> DEFINE line == Seq(Char)
  <2>2. count \in Nat /\ seqs \in [1..count -> line]
    BY <1>1, <2>1
  <2> HIDE DEF seqs, count, line
  <2>3. seqs \in Seq(line) /\ Len(seqs) = count
    BY ONLY <2>2, FunctionIsSeq
  <2>4. seqs # <<>>
    BY <1>1, <2>3, EmptySeq
  <2> QED BY <2>3, <2>4 DEF line
<1>4. PICK f : /\ OnSeq!FlattenSeq(seqs) = f[count]
               /\ f[1] = seqs[1]
               /\ \A i \in 2..count : f[i] = f[i - 1] \o seqs[i]
  <2> HIDE DEF seqs, count
  <2> QED BY <1>3, FlattenSeqSteps
<1>5. f[1] = Chunk(text, 1) /\ \A i \in 2..count : f[i] = f[i - 1] \o Chunk(text, i)
  <2>1. 1 \in 1..count /\ \A i \in 2..count : i \in 1..count
    BY <1>1
  <2>2. \A i \in 1..count : seqs[i] = Chunk(text, i)
    OBVIOUS
  <2> HIDE DEF seqs
  <2> QED BY <2>1, <2>2, <1>4
<1>6. f[count] = text
  <2> HIDE DEF seqs
  <2> QED BY <1>5, PiecesJoin, RelayPagesAssumption DEF Count, Chunk
<1> QED BY <1>2, <1>4, <1>6

-----------------------------------------------------------------------------
(* Pages and frames. *)

ChunksType == [rev : Nat, parts : Seq(Seq(Seq(Char)))]

PageType ==
    [role : {"host", "offline", "joining", "guest"}, editor : Seq(Char), last : Seq(Char),
     rev : Nat, timer : BOOLEAN, composing : BOOLEAN,
     pending : Seq(Seq(Char)), deferred : Seq(Seq(Char)), chunks : ChunksType,
     asGiven : BOOLEAN]

DocumentChunk(type) ==
    {m \in [type : {type}, rev : Nat, index : Nat \ {0}, count : Nat \ {0}, text : Seq(Char)] :
        m.index <= m.count}

HostFrame ==
    [type : {"APPLY"}, rev : Nat, client : {"A", "B"}, op : Operation]
        \cup DocumentChunk("SYNC_RESPONSE")

GuestFrame ==
    [type : {"PEER_JOINED", "SYNC_REQUEST"}] \cup [type : {"EDIT"}, op : Operation]
        \cup DocumentChunk("DOCUMENT_SNAPSHOT")

\* An operation that lies in a text makes a text of it.
LEMMA FitsApplied ==
    ASSUME NEW text \in Seq(Char), NEW op \in Operation, Fits(text, op)
    PROVE  Applied(text, op) \in Seq(Char)
<1>1. CASE op \in InsertOperation
  <2>1. op.type = "INSERT" /\ op.pos \in Nat /\ op.text \in Seq(Char)
    BY <1>1 DEF InsertOperation
  <2>2. op.pos \in 0..Len(text)
    BY <2>1, LenProperties DEF Fits
  <2> QED BY <2>1, <2>2, InsertAtProperties DEF Applied
<1>2. CASE op \in DeleteOperation
  <2>1. op.type = "DELETE" /\ op.pos \in Nat /\ op.len \in Nat
    BY <1>2 DEF DeleteOperation
  <2>2. op.pos + op.len <= Len(text)
    BY <2>1 DEF Fits
  <2> QED BY <2>1, <2>2, RemoveAtProperties DEF Applied
<1> QED BY <1>1, <1>2 DEF Operation

\* The diff of two texts leads from one to the other, each operation within the text it
\* meets.
LEMMA DiffLeads ==
    ASSUME NEW old \in Seq(Char), NEW new \in Seq(Char), NEW ops,
           ops = ComputeEditorDiff(old, new)
    PROVE  /\ ops \in Seq(Operation)
           /\ \/ ops = <<>> /\ old = new
              \/ Len(ops) = 1 /\ Fits(old, ops[1]) /\ Applied(old, ops[1]) = new
              \/ /\ Len(ops) = 2
                 /\ Fits(old, ops[1]) /\ Applied(old, ops[1]) \in Seq(Char)
                 /\ Fits(Applied(old, ops[1]), ops[2])
                 /\ Applied(Applied(old, ops[1]), ops[2]) = new
<1> DEFINE prefix   == CommonPrefix(old, new)
           suffix   == CommonSuffix(old, new)
           deleted  == Deleted(old, new)
           inserted == Inserted(old, new)
           mid      == Middle(old, new)
           first  == IF deleted > 0 THEN <<Delete(prefix, deleted)>> ELSE <<>>
           second == IF inserted # <<>> THEN <<Insert(prefix, inserted)>> ELSE <<>>
<1>1. ops \in Seq(Operation)
  BY DiffType
<1>2. ops = first \o second
  BY DEF ComputeEditorDiff, Deleted, Inserted
<1>3. Split(old, new, prefix, suffix, inserted) /\ deleted = Len(old) - suffix - prefix
  BY DiffSplits DEF Inserted, Deleted
<1>4. /\ mid \in Seq(Char) /\ Len(mid) = prefix + suffix
      /\ inserted # <<>> => InsertAt(mid, prefix, inserted) = new
      /\ inserted = <<>> => mid = new
      /\ mid = IF deleted > 0 THEN RemoveAt(old, prefix, deleted) ELSE old
  BY DiffMeets DEF Middle
<1> HIDE DEF prefix, suffix, deleted, inserted, mid
<1>5. /\ prefix \in Nat /\ suffix \in Nat /\ deleted \in Nat /\ Len(old) \in Nat
      /\ prefix + deleted <= Len(old) /\ prefix <= Len(mid)
  BY <1>3, <1>4 DEF Split
<1>6. ASSUME deleted > 0
      PROVE  /\ Fits(old, Delete(prefix, deleted))
             /\ Applied(old, Delete(prefix, deleted)) = mid
  BY <1>4, <1>5, <1>6 DEF Fits, Applied, Delete
<1>7. ASSUME inserted # <<>>
      PROVE  /\ Fits(mid, Insert(prefix, inserted))
             /\ Applied(mid, Insert(prefix, inserted)) = new
  <2>1. prefix + 0 <= Len(mid)
    BY <1>5
  <2> QED BY <1>4, <1>7, <2>1 DEF Fits, Applied, Insert
<1>8. CASE deleted > 0 /\ inserted # <<>>
  <2> DEFINE d == Delete(prefix, deleted)
             i == Insert(prefix, inserted)
  <2>1. d \in Operation /\ i \in Operation
    BY <1>3, <1>5 DEF Delete, Insert, Operation, DeleteOperation, InsertOperation, Split
  <2>2. first = <<d>> /\ second = <<i>>
    BY <1>8
  <2> HIDE DEF first, second, d, i
  <2>3. /\ <<d>> \in Seq(Operation) /\ <<i>> \in Seq(Operation)
        /\ Len(<<d>>) = 1 /\ Len(<<i>>) = 1 /\ <<d>>[1] = d /\ <<i>>[1] = i
    BY <2>1
  <2>4. /\ Len(<<d>> \o <<i>>) = Len(<<d>>) + Len(<<i>>)
        /\ \A k \in 1..Len(<<d>>) + Len(<<i>>) :
              (<<d>> \o <<i>>)[k] = IF k <= Len(<<d>>) THEN <<d>>[k] ELSE <<i>>[k - Len(<<d>>)]
    BY <2>3, ConcatProperties
  <2>5. Len(ops) = 2 /\ ops[1] = d /\ ops[2] = i
    BY <1>2, <2>2, <2>3, <2>4
  <2> QED BY <1>1, <1>4, <1>6, <1>7, <1>8, <2>5 DEF d, i
<1>9. CASE deleted > 0 /\ inserted = <<>>
  <2>1. ops = <<Delete(prefix, deleted)>>
    BY <1>2, <1>9
  <2>2. Len(ops) = 1 /\ ops[1] = Delete(prefix, deleted)
    BY <2>1
  <2> QED BY <1>1, <1>4, <1>6, <1>9, <2>2
<1>10. CASE ~ (deleted > 0) /\ inserted # <<>>
  <2>1. ops = <<Insert(prefix, inserted)>>
    BY <1>2, <1>10
  <2>2. Len(ops) = 1 /\ ops[1] = Insert(prefix, inserted)
    BY <2>1
  <2> QED BY <1>1, <1>4, <1>7, <1>10, <2>2
<1>11. CASE ~ (deleted > 0) /\ inserted = <<>>
  <2>1. ops = <<>>
    BY <1>2, <1>11
  <2> QED BY <1>1, <1>4, <1>11, <2>1
<1> QED BY <1>8, <1>9, <1>10, <1>11

\* A document in chunks is a sequence of chunks.
LEMMA PartsType ==
    ASSUME NEW type, NEW rev \in Nat, NEW text \in Seq(Char)
    PROVE  /\ Parts(type, rev, text) \in Seq(DocumentChunk(type))
           /\ Len(Parts(type, rev, text)) = Count(text)
           /\ \A k \in 1..Count(text) :
                 Parts(type, rev, text)[k] =
                   [type |-> type, rev |-> rev, index |-> k, count |-> Count(text),
                    text |-> Chunk(text, k)]
<1> DEFINE part(k) == [type |-> type, rev |-> rev, index |-> k, count |-> Count(text),
                       text |-> Chunk(text, k)]
           parts == Parts(type, rev, text)
<1>1. Count(text) \in Nat \ {0}
  BY CountProperties
<1>2. parts = [k \in 1..Count(text) |-> part(k)]
  BY PartsProperties
<1>3. ASSUME NEW k \in 1..Count(text) PROVE part(k) \in DocumentChunk(type)
  <2>1. k \in Nat \ {0} /\ k <= Count(text) /\ Chunk(text, k) \in Seq(Char)
    BY <1>1, ChunkType
  <2> QED BY <2>1, <1>1 DEF DocumentChunk
<1> HIDE DEF parts, part
<1>4. parts \in [1..Count(text) -> DocumentChunk(type)]
  BY <1>2, <1>3
<1>5. parts \in Seq(DocumentChunk(type))
  BY <1>1, <1>4, SeqDef
<1>6. Len(parts) = Count(text)
  BY <1>1, <1>4, <1>5, LenProperties
<1> QED BY <1>2, <1>5, <1>6 DEF parts, part

-----------------------------------------------------------------------------
(* What the handlers make of a page is a page. *)

\* What an editor makes of a text is a text.
LEMMA LoadedType ==
    ASSUME NEW text \in Seq(Char)
    PROVE  Loaded(text) \in Seq(Char)
BY RelayPagesAssumption DEF Loaded

\* applyRelayDocument changes the editor, or what waits for the composition's end; an
\* editor that has given every text back as it was now holds this one.
LEMMA ShownType ==
    ASSUME NEW p \in PageType, NEW text \in Seq(Char)
    PROVE  /\ Shown(p, text) \in PageType
           /\ Shown(p, text).role = p.role /\ Shown(p, text).last = p.last
           /\ Shown(p, text).rev = p.rev /\ Shown(p, text).chunks = p.chunks
           /\ Shown(p, text).timer = p.timer /\ Shown(p, text).composing = p.composing
           /\ Shown(p, text).deferred = p.deferred
           /\ ~p.composing => Shown(p, text).pending = p.pending
           /\ ~p.composing /\ Shown(p, text).asGiven => Shown(p, text).editor = text
           /\ p.composing => Shown(p, text).editor = p.editor /\ Shown(p, text).pending = <<text>>
           /\ Shown(p, text).asGiven => p.asGiven
<1>1. CASE p.composing
  <2>1. <<text>> \in Seq(Seq(Char))
    OBVIOUS
  <2> QED BY <1>1, <2>1 DEF Shown, PageType
<1>2. CASE ~p.composing
  <2> DEFINE given == p.asGiven /\ text \notin DOMAIN Written
             held  == Loaded(text)
             q     == [p EXCEPT !.editor = held, !.asGiven = given]
  <2>1. held \in Seq(Char)
    BY LoadedType
  <2>2. given \in BOOLEAN
    OBVIOUS
  <2>3. Shown(p, text) = q
    BY <1>2 DEF Shown
  <2>4. given => held = text /\ p.asGiven
    BY DEF Loaded
  <2> HIDE DEF given, held
  <2>5. /\ q \in PageType /\ q.role = p.role /\ q.last = p.last /\ q.rev = p.rev
        /\ q.chunks = p.chunks /\ q.timer = p.timer /\ q.composing = p.composing
        /\ q.deferred = p.deferred /\ q.pending = p.pending /\ q.editor = held
        /\ q.asGiven = given
    BY <2>1, <2>2 DEF PageType
  <2> HIDE DEF q
  <2> QED BY <1>2, <2>3, <2>4, <2>5
<1> QED BY <1>1, <1>2

\* scheduleRelaySync changes the timer.
LEMMA ScheduledType ==
    ASSUME NEW p \in PageType
    PROVE  /\ Scheduled(p) \in PageType
           /\ Scheduled(p).role = p.role /\ Scheduled(p).last = p.last
           /\ Scheduled(p).rev = p.rev /\ Scheduled(p).chunks = p.chunks
<1> DEFINE t == p.timer \/ (p.role \in {"host", "guest"} /\ ~p.composing)
<1>1. t \in BOOLEAN
  BY DEF PageType
<1>2. Scheduled(p) = [p EXCEPT !.timer = t]
  BY DEF Scheduled
<1> HIDE DEF t
<1> QED BY <1>1, <1>2 DEF PageType

\* Typing changes the editor and the timer.
LEMMA TypedType ==
    ASSUME NEW p \in PageType, NEW text \in Seq(Char)
    PROVE  /\ Typed(p, text) \in PageType
           /\ Typed(p, text).role = p.role /\ Typed(p, text).last = p.last
           /\ Typed(p, text).rev = p.rev /\ Typed(p, text).chunks = p.chunks
<1> DEFINE q == [p EXCEPT !.editor = text]
<1>1. /\ q \in PageType /\ q.role = p.role /\ q.last = p.last /\ q.rev = p.rev
      /\ q.chunks = p.chunks
  BY DEF PageType
<1>2. Typed(p, text) = Scheduled(q)
  BY DEF Typed
<1> HIDE DEF q
<1> QED BY <1>1, <1>2, ScheduledType

\* compositionend changes what waits, and the timer.
LEMMA ComposedType ==
    ASSUME NEW p \in PageType
    PROVE  /\ Composed(p) \in PageType
           /\ Composed(p).role = p.role /\ Composed(p).last = p.last
           /\ Composed(p).rev = p.rev /\ Composed(p).chunks = p.chunks
<1> DEFINE d == p.deferred \o p.pending
           q == [p EXCEPT !.composing = FALSE, !.deferred = d, !.pending = <<>>]
<1>1. p.deferred \in Seq(Seq(Char)) /\ p.pending \in Seq(Seq(Char))
  BY DEF PageType
<1>2. d \in Seq(Seq(Char)) /\ <<>> \in Seq(Seq(Char))
  BY <1>1, ConcatProperties
<1>3. Composed(p) = Scheduled(q)
  BY DEF Composed
<1> HIDE DEF d
<1>4. /\ q \in PageType /\ q.role = p.role /\ q.last = p.last /\ q.rev = p.rev
      /\ q.chunks = p.chunks
  BY <1>2 DEF PageType
<1> HIDE DEF q
<1> QED BY <1>3, <1>4, ScheduledType

\* Its timer shows the document that waited.
LEMMA ShownLateType ==
    ASSUME NEW p \in PageType, p.deferred # <<>>
    PROVE  /\ ShownLate(p) \in PageType
           /\ ShownLate(p).role = p.role /\ ShownLate(p).last = p.last
           /\ ShownLate(p).rev = p.rev /\ ShownLate(p).chunks = p.chunks
           /\ ShownLate(p).asGiven => p.asGiven
<1> DEFINE q == [p EXCEPT !.deferred = Tail(p.deferred)]
<1>1. p.deferred \in Seq(Seq(Char))
  BY DEF PageType
<1>2. Head(p.deferred) \in Seq(Char) /\ Tail(p.deferred) \in Seq(Seq(Char))
  BY <1>1, HeadTailProperties
<1>3. /\ q \in PageType /\ q.role = p.role /\ q.last = p.last /\ q.rev = p.rev
      /\ q.chunks = p.chunks /\ q.asGiven = p.asGiven
  BY <1>2 DEF PageType
<1>4. ShownLate(p) = Shown(q, Head(p.deferred))
  BY DEF ShownLate
<1> HIDE DEF q
<1> QED BY <1>2, <1>3, <1>4, ShownType

\* A chunk is put where it belongs, with the others of its revision.
LEMMA CollectedType ==
    ASSUME NEW p \in PageType, NEW type, NEW m \in DocumentChunk(type)
    PROVE  /\ Collected(p, m) \in ChunksType /\ Collected(p, m).rev = m.rev
           /\ Len(Collected(p, m).parts) = m.count
           /\ \A k \in 1..m.count :
                 Collected(p, m).parts[k] =
                   IF k = m.index THEN <<m.text>>
                   ELSE IF p.chunks.rev = m.rev /\ Len(p.chunks.parts) = m.count
                     THEN p.chunks.parts[k] ELSE <<>>
<1> DEFINE old == IF p.chunks.rev = m.rev /\ Len(p.chunks.parts) = m.count
                    THEN p.chunks.parts ELSE [k \in 1..m.count |-> <<>>]
           new == [old EXCEPT ![m.index] = <<m.text>>]
<1>1. /\ p.chunks.parts \in Seq(Seq(Seq(Char))) /\ m.rev \in Nat /\ m.text \in Seq(Char)
      /\ m.count \in Nat \ {0} /\ m.index \in 1..m.count
  BY DEF PageType, ChunksType, DocumentChunk
<1>2. old \in [1..m.count -> Seq(Seq(Char))]
  BY <1>1, LenProperties
<1>3. Collected(p, m) = [rev |-> m.rev, parts |-> new]
  BY DEF Collected
<1>4. \A k \in 1..m.count :
        old[k] = IF p.chunks.rev = m.rev /\ Len(p.chunks.parts) = m.count
                   THEN p.chunks.parts[k] ELSE <<>>
  OBVIOUS
<1> HIDE DEF old
<1>5. <<m.text>> \in Seq(Seq(Char))
  BY <1>1
<1>6. /\ new \in [1..m.count -> Seq(Seq(Char))]
      /\ \A k \in 1..m.count : new[k] = IF k = m.index THEN <<m.text>> ELSE old[k]
  BY <1>1, <1>2, <1>5
<1> HIDE DEF new
<1>7. new \in Seq(Seq(Seq(Char))) /\ Len(new) = m.count
  <2> DEFINE n == m.count
             pages == Seq(Seq(Char))
  <2>1. n \in Nat /\ new \in [1..n -> pages]
    BY <1>1, <1>6
  <2> HIDE DEF n, pages
  <2>2. new \in Seq(pages) /\ Len(new) = n
    BY ONLY <2>1, FunctionIsSeq
  <2> QED BY <2>2 DEF n, pages
<1> QED BY <1>1, <1>3, <1>4, <1>6, <1>7 DEF ChunksType

-----------------------------------------------------------------------------
(* What the host sends. *)

PagesInv ==
    /\ host \in PageType /\ host.role = "host"
    /\ guest \in PageType /\ guest.role # "host"
    /\ toHub \in Seq(HostFrame) /\ toGuest \in Seq(HostFrame \cup [type : {"JOIN_OK"}])
    /\ toHost \in Seq(GuestFrame)
    /\ history \in Seq(Seq(Char)) /\ Len(history) = host.rev + 1
    /\ host.last = history[host.rev + 1]

\* A frame says what the history h says.
Tells(h, m) ==
    /\ m.type = "APPLY" =>
           /\ m.rev \in 1..Len(h) - 1
           /\ Fits(h[m.rev], m.op) /\ Applied(h[m.rev], m.op) = h[m.rev + 1]
    /\ m.type = "SYNC_RESPONSE" =>
           /\ m.rev + 1 \in 1..Len(h) /\ m.index \in 1..Count(h[m.rev + 1])
           /\ m = Parts("SYNC_RESPONSE", m.rev, h[m.rev + 1])[m.index]

\* The host goes on as q, tells its guest so, and its history grows by texts.
Says(q, frames, texts) ==
    /\ q \in PageType /\ q.role = "host"
    /\ frames \in Seq(HostFrame) /\ texts \in Seq(Seq(Char))
    /\ q.rev = host.rev + Len(texts) /\ q.last = (history \o texts)[q.rev + 1]
    /\ \A k \in 1..Len(frames) : Tells(history \o texts, frames[k])

\* It does so with operations of its own, or with the whole document.
Operates(frames, texts) ==
    /\ Len(frames) = Len(texts)
    /\ \A k \in 1..Len(frames) :
          frames[k].type = "APPLY" /\ frames[k].client = "A" /\ frames[k].rev = host.rev + k

Answers(q, frames) == frames = Parts("SYNC_RESPONSE", q.rev, q.last)

\* Or it passes on an operation of the guest.
PassesOn(frames) ==
    Len(frames) = 1 /\ frames[1].type = "APPLY" /\ frames[1].rev = host.rev + 1

\* The fields of a page.
LEMMA PageFields ==
    ASSUME NEW p \in PageType
    PROVE  /\ p.editor \in Seq(Char) /\ p.last \in Seq(Char) /\ p.rev \in Nat /\ p.rev + 1 \in Nat
           /\ p.timer \in BOOLEAN /\ p.composing \in BOOLEAN /\ p.chunks \in ChunksType
           /\ p.pending \in Seq(Seq(Char)) /\ p.deferred \in Seq(Seq(Char))
BY DEF PageType

\* sendRelayFullSync sends the document of the newest revision, whole.
LEMMA FullSyncSays ==
    ASSUME PagesInv, NEW p \in PageType, NEW texts \in Seq(Seq(Char)),
           p.role = "host", p.rev = host.rev + Len(texts), p.last = (history \o texts)[p.rev + 1],
           SendRelayFullSync(p, texts)
    PROVE  \E q, frames, new :
              HostBecomes(q, frames, new) /\ Says(q, frames, new) /\ Answers(q, frames)
<1> DEFINE unsent == p.editor # p.last
           q   == IF unsent THEN [p EXCEPT !.rev = @ + 1, !.last = p.editor] ELSE p
           new == IF unsent THEN Append(texts, q.last) ELSE texts
           frames == Parts("SYNC_RESPONSE", q.rev, q.last)
<1>1. HostBecomes(q, frames, new)
  BY DEF SendRelayFullSync
<1>2. /\ q \in PageType /\ q.role = "host" /\ q.rev \in Nat /\ q.last \in Seq(Char)
      /\ unsent => q.rev = p.rev + 1
      /\ ~unsent => q = p
  <2>1. /\ p.rev \in Nat /\ p.rev + 1 \in Nat /\ p.last \in Seq(Char) /\ p.editor \in Seq(Char)
    BY PageFields
  <2>2. CASE unsent
    <3>1. q = [p EXCEPT !.rev = p.rev + 1, !.last = p.editor]
      BY <2>2
    <3> HIDE DEF q
    <3> QED BY <2>1, <2>2, <3>1 DEF PageType
  <2>3. CASE ~unsent
    BY <2>1, <2>3
  <2> QED BY <2>2, <2>3
<1>3. history \in Seq(Seq(Char)) /\ Len(history) = host.rev + 1 /\ host.rev \in Nat /\ p.rev \in Nat
  BY DEF PagesInv, PageType
<1>4. new \in Seq(Seq(Char)) /\ q.rev = host.rev + Len(new) /\ q.last = (history \o new)[q.rev + 1]
  <2> HIDE DEF q
  <2>1. CASE unsent
    <3>1. /\ new = Append(texts, q.last) /\ Len(texts) \in Nat
      BY <2>1, LenProperties
    <3> DEFINE len == Len(texts)
               last == q.last
    <3> HIDE DEF new
    <3>a. texts \in Seq(Seq(Char)) /\ last \in Seq(Char) /\ new = Append(texts, last)
      BY <1>2, <3>1
    <3> HIDE DEF last
    <3>b. /\ new \in Seq(Seq(Char)) /\ Len(new) = len + 1 /\ new[len + 1] = last /\ len \in Nat
      BY <3>a, AppendProperties, LenProperties
    <3>2. /\ new \in Seq(Seq(Char)) /\ Len(new) = Len(texts) + 1 /\ new[Len(texts) + 1] = q.last
      BY <3>b DEF last
    <3>3. q.rev = host.rev + Len(new) /\ q.rev + 1 = Len(history) + (Len(texts) + 1)
          /\ Len(texts) + 1 \in 1..Len(new)
      <4>1. len \in Nat /\ Len(new) = len + 1 /\ q.rev = host.rev + len + 1
        BY <3>b, <2>1, <1>2, <1>3
      <4> HIDE DEF len
      <4>2. /\ q.rev = host.rev + Len(new) /\ q.rev + 1 = Len(history) + (len + 1)
            /\ len + 1 \in 1..Len(new)
        <5> DEFINE hr == host.rev
                   hl == Len(history)
                   nl == Len(new)
                   qr == q.rev
        <5>1. len \in Nat /\ nl = len + 1 /\ qr = hr + len + 1 /\ hr \in Nat /\ hl = hr + 1
          BY <4>1, <1>3
        <5> HIDE DEF hr, hl, nl, qr
        <5>2. qr = hr + nl /\ qr + 1 = hl + (len + 1) /\ len + 1 \in 1..nl
          BY <5>1
        <5> QED BY <5>2 DEF hr, hl, nl, qr
      <4> QED BY <4>2 DEF len
    <3>4. (history \o new)[Len(history) + (Len(texts) + 1)] = new[Len(texts) + 1]
      <4>1. \A i \in 1..Len(new) : (history \o new)[Len(history) + i] = new[i]
        <5>1. history \in Seq(Seq(Char)) /\ new \in Seq(Seq(Char))
          BY <3>b, <1>3
        <5> QED BY <5>1, ConcatAt
      <4> QED BY <3>3, <4>1
    <3> QED BY <3>2, <3>3, <3>4
  <2>2. CASE ~unsent
    BY <2>2, <1>2
  <2> QED BY <2>1, <2>2
<1> HIDE DEF q, new
<1>5. frames \in Seq(HostFrame) /\ \A k \in 1..Len(frames) : Tells(history \o new, frames[k])
  <2>1. /\ frames \in Seq(DocumentChunk("SYNC_RESPONSE")) /\ Len(frames) = Count(q.last)
        /\ \A k \in 1..Count(q.last) :
              frames[k].type = "SYNC_RESPONSE" /\ frames[k].rev = q.rev /\ frames[k].index = k
    <3> DEFINE rev == q.rev
               last == q.last
    <3>1. rev \in Nat /\ last \in Seq(Char) /\ frames = Parts("SYNC_RESPONSE", rev, last)
      BY <1>2
    <3> HIDE DEF rev, last, frames
    <3>2. /\ frames \in Seq(DocumentChunk("SYNC_RESPONSE")) /\ Len(frames) = Count(last)
          /\ \A k \in 1..Count(last) :
                frames[k] = [type |-> "SYNC_RESPONSE", rev |-> rev, index |-> k,
                             count |-> Count(last), text |-> Chunk(last, k)]
      BY <3>1, PartsType
    <3>3. \A k \in 1..Count(last) :
              frames[k].type = "SYNC_RESPONSE" /\ frames[k].rev = rev /\ frames[k].index = k
      BY <3>2
    <3> QED BY <3>2, <3>3 DEF rev, last
  <2>2. frames \in Seq(HostFrame)
    BY <2>1 DEF HostFrame
  <2>3. q.rev + 1 \in 1..Len(history \o new)
    <3>1. Len(history \o new) = Len(history) + Len(new) /\ Len(new) \in Nat
      BY <1>3, <1>4, ConcatAt
    <3> QED BY <3>1, <1>3, <1>4
  <2>4. ASSUME NEW k \in 1..Len(frames) PROVE Tells(history \o new, frames[k])
    BY <2>1, <2>3, <1>4 DEF Tells
  <2> QED BY <2>2, <2>4
<1>6. Says(q, frames, new) /\ Answers(q, frames)
  <2> HIDE DEF frames
  <2>1. Says(q, frames, new)
    BY <1>2, <1>4, <1>5 DEF Says
  <2> QED BY <2>1 DEF Answers, frames
<1> QED BY <1>1, <1>6

\* flushRelayLocalChange sends the operations that lead to what the host sees.
LEMMA FlushesSays ==
    ASSUME PagesInv, NEW p \in PageType,
           p.role = "host", p.rev = host.rev, p.last = host.last, HostFlushes(p)
    PROVE  \E q, frames, texts :
              HostBecomes(q, frames, texts) /\ Says(q, frames, texts) /\ Operates(frames, texts)
<1> DEFINE ops    == ComputeEditorDiff(p.last, p.editor)
           q      == [p EXCEPT !.last = p.editor, !.rev = @ + Len(ops)]
           frames == [k \in 1..Len(ops) |-> Apply(p.rev + k, "A", ops[k])]
           texts  == [k \in 1..Len(ops) |-> IF k = Len(ops) THEN p.editor ELSE Applied(p.last, ops[k])]
           h      == history \o texts
           n      == Len(ops)
<1>1. HostBecomes(q, frames, texts)
  BY DEF HostFlushes
<1>2. p.last \in Seq(Char) /\ p.editor \in Seq(Char) /\ p.rev \in Nat
  BY DEF PageType
<1>3. /\ ops \in Seq(Operation)
      /\ \/ ops = <<>> /\ p.last = p.editor
         \/ n = 1 /\ Fits(p.last, ops[1]) /\ Applied(p.last, ops[1]) = p.editor
         \/ /\ n = 2
            /\ Fits(p.last, ops[1]) /\ Applied(p.last, ops[1]) \in Seq(Char)
            /\ Fits(Applied(p.last, ops[1]), ops[2])
            /\ Applied(Applied(p.last, ops[1]), ops[2]) = p.editor
  BY <1>2, DiffLeads
<1>4. n \in 0..2 /\ (n = 0 => p.last = p.editor) /\ \A k \in 1..n : ops[k] \in Operation
  BY <1>3, LenProperties
<1>5. history \in Seq(Seq(Char)) /\ Len(history) = p.rev + 1 /\ history[p.rev + 1] = p.last
  BY DEF PagesInv
<1>6. q \in PageType /\ q.role = "host" /\ q.rev = p.rev + n /\ q.last = p.editor
  <2> HIDE DEF ops
  <2>1. p.rev + n \in Nat
    BY <1>2, <1>4
  <2> QED BY <2>1, <1>2 DEF PageType
<1> HIDE DEF ops, q
<1>7. texts \in Seq(Seq(Char)) /\ Len(texts) = n
  <2>1. \A k \in 1..n : (IF k = n THEN p.editor ELSE Applied(p.last, ops[k])) \in Seq(Char)
    BY <1>2, <1>3, <1>4
  <2>2. texts \in [1..n -> Seq(Char)]
    BY <2>1
  <2> HIDE DEF texts, n
  <2>3. n \in Nat
    BY <1>4
  <2>4. texts \in Seq(Seq(Char))
    BY <2>2, <2>3, SeqDef
  <2> QED BY <2>2, <2>3, <2>4, LenProperties
<1>8. /\ frames \in Seq(HostFrame) /\ Len(frames) = n
      /\ \A k \in 1..n : frames[k] = Apply(p.rev + k, "A", ops[k])
  <2>1. \A k \in 1..n : Apply(p.rev + k, "A", ops[k]) \in HostFrame
    BY <1>2, <1>4 DEF Apply, HostFrame
  <2>2. frames \in [1..n -> HostFrame]
    BY <2>1
  <2>3. \A k \in 1..n : frames[k] = Apply(p.rev + k, "A", ops[k])
    OBVIOUS
  <2> HIDE DEF frames, n
  <2>4. n \in Nat
    BY <1>4
  <2>5. frames \in Seq(HostFrame)
    BY <2>2, <2>4, SeqDef
  <2> QED BY <2>2, <2>3, <2>4, <2>5, LenProperties
<1>9. /\ n = 1 => texts[1] = p.editor
      /\ n = 2 => texts[1] = Applied(p.last, ops[1]) /\ texts[2] = p.editor
  <2>1. \A k \in 1..n : texts[k] = IF k = n THEN p.editor ELSE Applied(p.last, ops[k])
    OBVIOUS
  <2> HIDE DEF texts, n
  <2>2. n = 1 => 1 \in 1..n
    OBVIOUS
  <2>3. n = 2 => 1 \in 1..n /\ 2 \in 1..n
    OBVIOUS
  <2> QED BY <2>1, <2>2, <2>3
<1> HIDE DEF texts, frames, n
<1>10. /\ h \in Seq(Seq(Char)) /\ Len(h) = p.rev + 1 + n
       /\ h[p.rev + 1] = p.last
       /\ \A k \in 1..n : h[p.rev + 1 + k] = texts[k]
  <2>1. /\ h \in Seq(Seq(Char)) /\ Len(h) = Len(history) + Len(texts)
        /\ \A i \in 1..Len(history) : h[i] = history[i]
        /\ \A i \in 1..Len(texts) : h[Len(history) + i] = texts[i]
    <3>1. history \in Seq(Seq(Char)) /\ texts \in Seq(Seq(Char))
      BY <1>5, <1>7
    <3> QED BY <3>1, ConcatAt
  <2>2. p.rev + 1 \in 1..Len(history)
    BY <1>2, <1>5
  <2> QED BY <2>1, <2>2, <1>5, <1>7
<1> HIDE DEF h
<1>11. q.last = h[q.rev + 1]
  <2>1. CASE n = 0
    BY <2>1, <1>2, <1>4, <1>6, <1>10
  <2>2. CASE n # 0
    <3>1. n \in 1..n /\ q.rev + 1 = p.rev + 1 + n /\ texts[n] = p.editor
      BY <2>2, <1>2, <1>4, <1>6, <1>9
    <3> QED BY <3>1, <1>6, <1>10
  <2> QED BY <2>1, <2>2
<1>12. ASSUME NEW k \in 1..n PROVE Tells(h, frames[k])
  <2>1. frames[k].type = "APPLY" /\ frames[k].rev = p.rev + k /\ frames[k].op = ops[k]
    BY <1>8 DEF Apply
  <2>2. p.rev + k \in 1..Len(h) - 1
    <3> DEFINE r == p.rev
               l == Len(h)
    <3>1. r \in Nat /\ l = r + 1 + n /\ n \in 0..2 /\ k \in 1..n
      BY <1>2, <1>4, <1>10
    <3> HIDE DEF r, l
    <3>2. r + k \in 1..l - 1
      BY <3>1
    <3> QED BY <3>2 DEF r, l
  <2>3. Fits(h[p.rev + k], ops[k]) /\ Applied(h[p.rev + k], ops[k]) = h[p.rev + k + 1]
    <3>1. CASE k = 1
      <4>1. h[p.rev + 1] = p.last /\ h[p.rev + 1 + 1] = texts[1] /\ p.rev + k = p.rev + 1
        BY <3>1, <1>10
      <4>2. Fits(p.last, ops[1]) /\ Applied(p.last, ops[1]) = texts[1]
        <5>1. ops # <<>>
          <6>1. ops = <<>> => n = 0
            BY DEF n
          <6> QED BY <6>1, <1>4
        <5>2. n = 1 \/ n = 2
          BY <1>4
        <5> QED BY <5>1, <5>2, <1>3, <1>9
      <4> QED BY <3>1, <4>1, <4>2
    <3>2. CASE k # 1
      <4>1. n = 2 /\ k = 2 /\ 1 \in 1..n /\ 2 \in 1..n
        BY <3>2, <1>4
      <4>2. h[p.rev + 1 + 1] = texts[1] /\ h[p.rev + 1 + 2] = texts[2]
        BY <4>1, <1>10
      <4>3. p.rev + k = p.rev + 1 + 1 /\ p.rev + k + 1 = p.rev + 1 + 2
        BY <4>1, <1>2
      <4>4. Fits(texts[1], ops[2]) /\ Applied(texts[1], ops[2]) = texts[2]
        <5>1. ops # <<>> /\ n # 1
          <6>1. ops = <<>> => n = 0
            BY DEF n
          <6> QED BY <4>1, <6>1
        <5> QED BY <4>1, <5>1, <1>3, <1>9
      <4> QED BY <4>1, <4>2, <4>3, <4>4
    <3> QED BY <3>1, <3>2
  <2> QED BY <2>1, <2>2, <2>3 DEF Tells
<1>13. Says(q, frames, texts)
  BY <1>6, <1>7, <1>8, <1>11, <1>12 DEF Says, h
<1>14. Operates(frames, texts)
  BY <1>7, <1>8 DEF Operates, Apply
<1> QED BY <1>1, <1>13, <1>14

\* The host says nothing.
LEMMA SilentSays ==
    ASSUME PagesInv, NEW q \in PageType, q.role = "host", q.rev = host.rev, q.last = host.last
    PROVE  Says(q, <<>>, <<>>) /\ Operates(<<>>, <<>>)
<1>1. history \in Seq(Seq(Char)) /\ host.rev \in Nat /\ host.last = history[host.rev + 1]
  BY PageFields DEF PagesInv
<1>2. history \o <<>> = history
  BY <1>1, ConcatEmptySeq
<1>3. /\ <<>> \in Seq(HostFrame) /\ <<>> \in Seq(Seq(Char)) /\ Len(<<>>) = 0
      /\ \A k \in 1..0 : FALSE
  OBVIOUS
<1>4. q.rev = host.rev + 0
  BY <1>1
<1>5. Says(q, <<>>, <<>>)
  BY <1>1, <1>2, <1>3, <1>4 DEF Says
<1>6. Operates(<<>>, <<>>)
  BY <1>3 DEF Operates
<1> QED BY <1>5, <1>6

\* What a user of the host does is told in operations.
LEMMA HostEditsSays ==
    ASSUME PagesInv,
           (\E text \in TypedTexts : HostTypes(text)) \/ HostComposes \/ HostSaves \/ HostGoesOn
    PROVE  /\ \E q, frames, texts :
                 HostBecomes(q, frames, texts) /\ Says(q, frames, texts) /\ Operates(frames, texts)
           /\ toHost' = toHost /\ UNCHANGED <<polite, follows>>
<1>1. host \in PageType /\ host.role = "host"
  BY DEF PagesInv
<1>2. ASSUME NEW q \in PageType, q.role = "host", q.rev = host.rev, q.last = host.last,
             HostBecomes(q, <<>>, <<>>)
      PROVE  \E p, frames, texts :
                 HostBecomes(p, frames, texts) /\ Says(p, frames, texts) /\ Operates(frames, texts)
  BY <1>2, SilentSays
<1>3. ASSUME NEW text \in TypedTexts, HostTypes(text)
      PROVE  /\ \E q, frames, texts :
                   HostBecomes(q, frames, texts) /\ Says(q, frames, texts) /\ Operates(frames, texts)
             /\ toHost' = toHost /\ UNCHANGED <<polite, follows>>
  <2>1. text \in Seq(Char)
    BY RelayPagesAssumption, TextIsSeq
  <2>2. /\ Typed(host, text) \in PageType /\ Typed(host, text).role = "host"
        /\ Typed(host, text).rev = host.rev /\ Typed(host, text).last = host.last
    BY <1>1, <2>1, TypedType
  <2> QED BY <1>2, <1>3, <2>2 DEF HostTypes
<1>4. CASE HostComposes
  <2> DEFINE q == [host EXCEPT !.composing = TRUE]
  <2>1. q \in PageType /\ q.role = "host" /\ q.rev = host.rev /\ q.last = host.last
    BY <1>1 DEF PageType
  <2> QED BY <1>2, <1>4, <2>1 DEF HostComposes
<1>5. CASE HostSaves
  BY <1>1, <1>5, FlushesSays DEF HostSaves
<1>6. CASE HostGoesOn
  <2>1. CASE host.composing /\ HostBecomes(Composed(host), <<>>, <<>>)
    <3>1. /\ Composed(host) \in PageType /\ Composed(host).role = "host"
          /\ Composed(host).rev = host.rev /\ Composed(host).last = host.last
      BY <1>1, ComposedType
    <3> QED BY <1>2, <1>6, <2>1, <3>1 DEF HostGoesOn
  <2>2. CASE host.deferred # <<>> /\ HostBecomes(ShownLate(host), <<>>, <<>>)
    <3>1. /\ ShownLate(host) \in PageType /\ ShownLate(host).role = "host"
          /\ ShownLate(host).rev = host.rev /\ ShownLate(host).last = host.last
      BY <1>1, <2>2, ShownLateType
    <3> QED BY <1>2, <1>6, <2>2, <3>1 DEF HostGoesOn
  <2>3. CASE host.timer /\ HostFlushes([host EXCEPT !.timer = FALSE])
    <3> DEFINE q == [host EXCEPT !.timer = FALSE]
    <3>1. q \in PageType /\ q.role = "host" /\ q.rev = host.rev /\ q.last = host.last
      BY <1>1 DEF PageType
    <3>2. HostFlushes(q)
      BY <2>3
    <3> HIDE DEF q
    <3>3. \E p, frames, texts :
             HostBecomes(p, frames, texts) /\ Says(p, frames, texts) /\ Operates(frames, texts)
      BY <3>1, <3>2, FlushesSays
    <3> QED BY <1>6, <3>3 DEF HostGoesOn
  <2> QED BY <1>6, <2>1, <2>2, <2>3 DEF HostGoesOn
<1> QED BY <1>3, <1>4, <1>5, <1>6

\* applyRelayPeerOperation passes the guest's operation on, or answers with the document.
LEMMA AppliesSays ==
    ASSUME PagesInv, NEW op \in Operation, HostApplies(host, op)
    PROVE  \E q, frames, texts :
               /\ HostBecomes(q, frames, texts) /\ Says(q, frames, texts)
               /\ PassesOn(frames) \/ Answers(q, frames)
<1>1. /\ host \in PageType /\ host.role = "host" /\ host.last \in Seq(Char) /\ host.rev \in Nat
      /\ history \in Seq(Seq(Char)) /\ Len(history) = host.rev + 1
      /\ host.last = history[host.rev + 1]
  BY PageFields DEF PagesInv
<1>2. CASE Fits(host.last, op)
  <2> DEFINE text == Applied(host.last, op)
             p    == [host EXCEPT !.last = text, !.rev = @ + 1]
             q    == Shown(p, text)
             m    == Apply(host.rev + 1, "B", op)
             h    == history \o <<text>>
  <2>1. HostBecomes(q, <<m>>, <<text>>)
    BY <1>2 DEF HostApplies
  <2>2. text \in Seq(Char)
    BY <1>1, <1>2, FitsApplied
  <2>3. Applied(host.last, op) = text
    OBVIOUS
  <2> HIDE DEF text
  <2>4. /\ p \in PageType /\ p.role = "host" /\ p.rev = host.rev + 1 /\ p.last = text
    <3>1. host.rev + 1 \in Nat
      BY <1>1
    <3>2. p = [host EXCEPT !.last = text, !.rev = host.rev + 1]
      OBVIOUS
    <3> HIDE DEF p
    <3> QED BY <1>1, <2>2, <3>1, <3>2 DEF PageType
  <2> HIDE DEF p
  <2>5. q \in PageType /\ q.role = "host" /\ q.rev = host.rev + 1 /\ q.last = text
    BY <2>2, <2>4, ShownType
  <2> HIDE DEF q
  <2>6. <<text>> \in Seq(Seq(Char)) /\ Len(<<text>>) = 1 /\ <<text>>[1] = text
    BY <2>2
  <2>7. /\ m \in HostFrame /\ m.type = "APPLY" /\ m.rev = host.rev + 1 /\ m.op = op
    BY <1>1 DEF Apply, HostFrame
  <2> HIDE DEF m
  <2>8. <<m>> \in Seq(HostFrame) /\ Len(<<m>>) = 1 /\ <<m>>[1] = m
    BY <2>7
  <2>9. /\ Len(h) = host.rev + 1 + 1
        /\ h[host.rev + 1] = host.last /\ h[host.rev + 1 + 1] = text
    <3> DEFINE r == host.rev
    <3> DEFINE l == Len(history)
    <3>1. /\ Len(h) = l + 1
          /\ \A i \in 1..l : h[i] = history[i]
          /\ \A i \in 1..1 : h[l + i] = <<text>>[i]
      <4> DEFINE line == Seq(Char)
                 more == <<text>>
      <4>1. history \o more = h
        OBVIOUS
      <4> HIDE DEF h
      <4>2. history \in Seq(line) /\ more \in Seq(line)
        BY <1>1, <2>6
      <4>3. Len(more) = 1
        BY <2>6
      <4> HIDE DEF line, more
      <4>4. /\ Len(history \o more) = Len(history) + Len(more)
            /\ \A i \in 1..Len(history) : (history \o more)[i] = history[i]
            /\ \A i \in 1..Len(more) : (history \o more)[Len(history) + i] = more[i]
        BY ONLY <4>2, ConcatAt
      <4>5. /\ Len(h) = l + 1
            /\ \A i \in 1..l : h[i] = history[i]
            /\ \A i \in 1..1 : h[l + i] = more[i]
        BY ONLY <4>1, <4>3, <4>4
      <4> QED BY ONLY <4>5 DEF more
    <3> HIDE DEF h
    <3>2. r + 1 \in 1..l /\ 1 \in 1..1 /\ l = r + 1 /\ history[r + 1] = host.last
      BY <1>1
    <3> HIDE DEF l, r
    <3>3. Len(h) = r + 1 + 1 /\ h[r + 1] = host.last /\ h[r + 1 + 1] = text
      BY ONLY <3>1, <3>2, <2>6
    <3> QED BY <3>3 DEF r
  <2> HIDE DEF h
  <2>10. Tells(h, m)
    <3>1. host.rev + 1 \in 1..Len(h) - 1
      BY <1>1, <2>9
    <3> QED BY <3>1, <1>2, <2>3, <2>7, <2>9 DEF Tells
  <2>11. Says(q, <<m>>, <<text>>)
    <3> DEFINE frames == <<m>>
               new    == <<text>>
    <3>1. /\ frames \in Seq(HostFrame) /\ new \in Seq(Seq(Char)) /\ h = history \o new
          /\ Len(frames) = 1 /\ frames[1] = m /\ Len(new) = 1
      BY <2>6, <2>8 DEF h
    <3>2. q.rev = host.rev + Len(new) /\ q.last = h[q.rev + 1]
      BY <2>5, <2>9, <3>1
    <3> HIDE DEF frames, new
    <3>3. \A k \in 1..Len(frames) : Tells(history \o new, frames[k])
      <4>1. Len(frames) = 1
        BY <3>1
      <4>2. \A k \in 1..1 : k = 1
        OBVIOUS
      <4> QED BY <4>1, <4>2, <3>1, <2>10
    <3>4. Says(q, frames, new)
      BY <2>5, <3>1, <3>2, <3>3 DEF Says
    <3> QED BY <3>4 DEF frames, new
  <2>12. PassesOn(<<m>>)
    BY <2>7, <2>8 DEF PassesOn
  <2> QED BY <2>1, <2>11, <2>12
<1>3. CASE ~Fits(host.last, op)
  <2>1. SendRelayFullSync(host, <<>>)
    BY <1>3 DEF HostApplies
  <2>2. <<>> \in Seq(Seq(Char)) /\ Len(<<>>) = 0 /\ host.rev = host.rev + 0
    BY <1>1
  <2>3. host.last = (history \o <<>>)[host.rev + 1]
    BY <1>1, ConcatEmptySeq
  <2> QED BY <2>1, <2>2, <2>3, <1>1, FullSyncSays
<1> QED BY <1>2, <1>3

\* receiveRelaySnapshot waits for the other chunks, or answers with the document it got.
LEMMA CollectsSays ==
    ASSUME PagesInv, NEW m \in DocumentChunk("DOCUMENT_SNAPSHOT"), HostCollects(host, m)
    PROVE  \E q, frames, texts :
               /\ HostBecomes(q, frames, texts) /\ Says(q, frames, texts)
               /\ Operates(frames, texts) \/ Answers(q, frames)
<1> DEFINE chunks == Collected(host, m)
           text   == Joined(chunks)
<1>1. /\ host \in PageType /\ host.role = "host" /\ host.last \in Seq(Char) /\ host.rev \in Nat
      /\ history \in Seq(Seq(Char)) /\ Len(history) = host.rev + 1
      /\ host.last = history[host.rev + 1]
  BY PageFields DEF PagesInv
<1>2. chunks \in ChunksType
  BY <1>1, CollectedType
<1>3. CASE ~Complete(chunks)
  <2> DEFINE q == [host EXCEPT !.chunks = chunks]
  <2>1. HostBecomes(q, <<>>, <<>>)
    BY <1>3 DEF HostCollects
  <2> HIDE DEF chunks
  <2>2. q \in PageType /\ q.role = "host" /\ q.rev = host.rev /\ q.last = host.last
    BY <1>1, <1>2 DEF PageType
  <2> HIDE DEF q
  <2> QED BY <2>1, <2>2, SilentSays
<1>4. CASE Complete(chunks)
  <2> DEFINE empty == [chunks EXCEPT !.parts = <<>>]
             p == [host EXCEPT !.chunks = empty, !.rev = @ + 1, !.last = text]
             q == Shown(p, text)
  <2>1. SendRelayFullSync(q, <<text>>)
    BY <1>4 DEF HostCollects
  <2>2. text \in Seq(Char)
    BY <1>2, <1>4, JoinedType DEF ChunksType
  <2> HIDE DEF text, chunks
  <2>3. empty \in ChunksType
    <3>1. <<>> \in Seq(Seq(Seq(Char)))
      OBVIOUS
    <3> QED BY <1>2, <3>1 DEF ChunksType
  <2> HIDE DEF empty
  <2>4. p \in PageType /\ p.role = "host" /\ p.rev = host.rev + 1 /\ p.last = text
    <3>1. host.rev + 1 \in Nat
      BY <1>1
    <3>2. p = [host EXCEPT !.chunks = empty, !.rev = host.rev + 1, !.last = text]
      OBVIOUS
    <3> HIDE DEF p
    <3> QED BY <1>1, <2>2, <2>3, <3>1, <3>2 DEF PageType
  <2> HIDE DEF p
  <2>5. q \in PageType /\ q.role = "host" /\ q.rev = host.rev + 1 /\ q.last = text
    BY <2>2, <2>4, ShownType
  <2> HIDE DEF q
  <2>6. <<text>> \in Seq(Seq(Char)) /\ Len(<<text>>) = 1 /\ <<text>>[1] = text
    BY <2>2
  <2>7. (history \o <<text>>)[q.rev + 1] = text
    <3>1. \A i \in 1..Len(<<text>>) : (history \o <<text>>)[Len(history) + i] = <<text>>[i]
      <4> DEFINE new == <<text>>
      <4>1. new \in Seq(Seq(Char))
        BY <2>6
      <4> HIDE DEF new
      <4>2. \A i \in 1..Len(new) : (history \o new)[Len(history) + i] = new[i]
        <5>1. history \in Seq(Seq(Char))
          BY <1>1
        <5> QED BY <5>1, <4>1, ConcatAt
      <4> QED BY <4>2 DEF new
    <3>2. 1 \in 1..1 /\ q.rev + 1 = Len(history) + 1
      BY <1>1, <2>5
    <3> QED BY <3>1, <3>2, <2>6
  <2>8. q.rev = host.rev + Len(<<text>>) /\ q.last = (history \o <<text>>)[q.rev + 1]
    BY <2>5, <2>6, <2>7
  <2> QED BY <2>1, <2>5, <2>6, <2>8, FullSyncSays
<1> QED BY <1>3, <1>4

\* Whatever reaches the host, it answers a guest that joins or asks with the document.
LEMMA HostHandlesSays ==
    ASSUME PagesInv, HostHandles
    PROVE  /\ \E q, frames, texts :
                  /\ HostBecomes(q, frames, texts) /\ Says(q, frames, texts)
                  /\ Operates(frames, texts) \/ Answers(q, frames) \/ PassesOn(frames)
                  /\ Head(toHost).type \in {"PEER_JOINED", "SYNC_REQUEST"} => Answers(q, frames)
           /\ toHost # <<>> /\ toHost' = Tail(toHost) /\ UNCHANGED <<polite, follows>>
<1> DEFINE m == Head(toHost)
<1>1. toHost \in Seq(GuestFrame) /\ toHost # <<>>
  BY DEF PagesInv, HostHandles
<1>2. m \in GuestFrame
  BY <1>1, HeadTailProperties
<1>3. /\ toHost' = Tail(toHost) /\ UNCHANGED <<polite, follows>>
      /\ m.type \in {"PEER_JOINED", "SYNC_REQUEST"} => SendRelayFullSync(host, <<>>)
      /\ m.type = "EDIT" => HostApplies(host, m.op)
      /\ m.type = "DOCUMENT_SNAPSHOT" => HostCollects(host, m)
  BY DEF HostHandles
<1> HIDE DEF m
<1>4. CASE m.type \in {"PEER_JOINED", "SYNC_REQUEST"}
  <2>1. /\ host \in PageType /\ host.role = "host" /\ host.rev \in Nat
        /\ history \in Seq(Seq(Char)) /\ host.last = history[host.rev + 1]
    BY PageFields DEF PagesInv
  <2>2. <<>> \in Seq(Seq(Char)) /\ Len(<<>>) = 0 /\ host.rev = host.rev + 0
    BY <2>1
  <2>3. host.last = (history \o <<>>)[host.rev + 1]
    BY <2>1, ConcatEmptySeq
  <2>4. \E q, frames, texts :
           HostBecomes(q, frames, texts) /\ Says(q, frames, texts) /\ Answers(q, frames)
    BY <2>1, <2>2, <2>3, <1>3, <1>4, FullSyncSays
  <2> QED BY <2>4, <1>1, <1>3
<1>5. CASE m.type = "EDIT"
  <2>1. m.op \in Operation
    BY <1>2, <1>5 DEF GuestFrame, DocumentChunk
  <2> QED BY <2>1, <1>1, <1>3, <1>5, AppliesSays DEF m
<1>6. CASE m.type = "DOCUMENT_SNAPSHOT"
  <2>1. m \in DocumentChunk("DOCUMENT_SNAPSHOT")
    BY <1>2, <1>6 DEF GuestFrame
  <2> QED BY <2>1, <1>1, <1>3, <1>6, CollectsSays DEF m
<1>7. m.type \in {"PEER_JOINED", "SYNC_REQUEST", "EDIT", "DOCUMENT_SNAPSHOT"}
  BY <1>2 DEF GuestFrame, DocumentChunk
<1> QED BY <1>4, <1>5, <1>6, <1>7

-----------------------------------------------------------------------------
(* What is under way from the host to its guest. *)

Frame == HostFrame \cup [type : {"JOIN_OK"}]

\* The frames the guest handles next, one after the other.
Stream == toGuest \o toHub

\* Revisions never go back from one frame to the next, and JOIN_OK comes before all.
Ordered(S) ==
    \A i, j \in 1..Len(S) : i < j =>
        /\ S[j].type # "JOIN_OK"
        /\ S[i].type # "JOIN_OK" => S[i].rev <= S[j].rev

StreamInv ==
    /\ \A k \in 1..Len(Stream) : Tells(history, Stream[k])
    /\ Ordered(Stream)
    /\ guest.role = "offline" => toGuest = <<>>

\* T is what is left of S when some elements are taken out.
LeftOf(T, S) ==
    \E f \in [1..Len(T) -> 1..Len(S)] :
        /\ \A i \in 1..Len(T) : T[i] = S[f[i]]
        /\ \A i, j \in 1..Len(T) : i < j => f[i] < f[j]

\* Frames sent in three parts.
LEMMA FramesAssociate ==
    ASSUME NEW r \in Seq(Frame), NEW s \in Seq(Frame), NEW t \in Seq(Frame)
    PROVE  (r \o s) \o t = r \o (s \o t)
BY ConcatAssociative

\* The stream and its two parts.
LEMMA StreamType ==
    ASSUME PagesInv
    PROVE  /\ Stream \in Seq(Frame) /\ Len(Stream) = Len(toGuest) + Len(toHub)
           /\ toGuest \in Seq(Frame) /\ toHub \in Seq(Frame)
           /\ Len(toGuest) \in Nat /\ Len(toHub) \in Nat /\ Len(Stream) \in Nat
           /\ \A i \in 1..Len(toGuest) : Stream[i] = toGuest[i]
           /\ \A i \in 1..Len(toHub) : Stream[Len(toGuest) + i] = toHub[i]
<1>1. toGuest \in Seq(Frame) /\ toHub \in Seq(HostFrame)
  BY DEF PagesInv, Frame
<1>2. toHub \in Seq(Frame)
  <2>1. HostFrame \subseteq Frame
    BY DEF Frame
  <2>2. Len(toHub) \in Nat /\ toHub \in [1..Len(toHub) -> HostFrame]
    BY <1>1, LenProperties
  <2>3. toHub \in [1..Len(toHub) -> Frame]
    BY <2>1, <2>2
  <2> QED BY <2>2, <2>3, SeqDef
<1>3. /\ Stream \in Seq(Frame) /\ Len(Stream) = Len(toGuest) + Len(toHub)
      /\ Len(toGuest) \in Nat /\ Len(toHub) \in Nat
      /\ \A i \in 1..Len(toGuest) : Stream[i] = toGuest[i]
      /\ \A i \in 1..Len(toHub) : Stream[Len(toGuest) + i] = toHub[i]
  BY <1>1, <1>2, ConcatAt DEF Stream
<1> QED BY <1>1, <1>2, <1>3

\* Frames have a type, and those of the host a revision.
LEMMA FrameFields ==
    ASSUME NEW m \in Frame
    PROVE  /\ m.type \in {"JOIN_OK", "APPLY", "SYNC_RESPONSE"}
           /\ m.type = "JOIN_OK" <=> m \notin HostFrame
           /\ m.type # "JOIN_OK" => m.rev \in Nat
           /\ m.type = "APPLY" => m.op \in Operation /\ m.client \in {"A", "B"}
           /\ m.type = "SYNC_RESPONSE" => m \in DocumentChunk("SYNC_RESPONSE")
BY DEF Frame, HostFrame, DocumentChunk

\* The host's frames say revisions from its own on, and no lower one after a higher one.
LEMMA SaidRevisions ==
    ASSUME PagesInv, NEW q, NEW frames, NEW texts, Says(q, frames, texts),
           Operates(frames, texts) \/ Answers(q, frames) \/ PassesOn(frames)
    PROVE  /\ \A k \in 1..Len(frames) : frames[k].type # "JOIN_OK" /\ host.rev <= frames[k].rev
           /\ \A i, j \in 1..Len(frames) : i < j => frames[i].rev <= frames[j].rev
<1>1. /\ host.rev \in Nat /\ q.rev = host.rev + Len(texts) /\ Len(texts) \in Nat
      /\ frames \in Seq(HostFrame) /\ Len(frames) \in Nat /\ q \in PageType
  BY PageFields, LenProperties DEF PagesInv, Says
<1>2. CASE Operates(frames, texts)
  <2>1. \A k \in 1..Len(frames) : frames[k].type = "APPLY" /\ frames[k].rev = host.rev + k
    BY <1>2 DEF Operates
  <2>2. \A k \in 1..Len(frames) : k \in Nat /\ host.rev <= host.rev + k
    BY <1>1
  <2>3. \A i, j \in 1..Len(frames) : i < j => host.rev + i <= host.rev + j
    BY <1>1
  <2> QED BY <2>1, <2>2, <2>3
<1>3. CASE Answers(q, frames)
  <2>1. q.rev \in Nat /\ q.last \in Seq(Char) /\ host.rev <= q.rev
    BY <1>1, PageFields
  <2>2. \A k \in 1..Len(frames) : frames[k].type = "SYNC_RESPONSE" /\ frames[k].rev = q.rev
    <3> DEFINE rev == q.rev
               last == q.last
    <3>1. rev \in Nat /\ last \in Seq(Char) /\ frames = Parts("SYNC_RESPONSE", rev, last)
      BY <2>1, <1>3 DEF Answers
    <3> HIDE DEF rev, last
    <3>2. /\ Len(frames) = Count(last)
          /\ \A k \in 1..Count(last) :
                frames[k] = [type |-> "SYNC_RESPONSE", rev |-> rev, index |-> k,
                             count |-> Count(last), text |-> Chunk(last, k)]
      BY <3>1, PartsType
    <3>3. \A k \in 1..Len(frames) : frames[k].type = "SYNC_RESPONSE" /\ frames[k].rev = rev
      BY <3>2
    <3> QED BY <3>3 DEF rev
  <2>3. q.rev <= q.rev
    BY <2>1
  <2> QED BY <2>1, <2>2, <2>3
<1>4. CASE PassesOn(frames)
  <2>1. \A k \in 1..1 : k = 1
    OBVIOUS
  <2>2. host.rev <= host.rev + 1
    BY <1>1
  <2>3. \A i, j \in 1..1 : ~(i < j)
    OBVIOUS
  <2> QED BY <1>4, <2>1, <2>2, <2>3 DEF PassesOn
<1> QED BY <1>2, <1>3, <1>4

\* What a frame says stays true of a longer history.
LEMMA TellsLonger ==
    ASSUME NEW S, NEW h \in Seq(S), NEW texts \in Seq(S), NEW m, m.rev \in Nat, Tells(h, m)
    PROVE  Tells(h \o texts, m)
<1> DEFINE g == h \o texts
<1>1. /\ Len(g) = Len(h) + Len(texts) /\ Len(h) \in Nat /\ Len(texts) \in Nat
      /\ \A i \in 1..Len(h) : g[i] = h[i]
  BY ConcatAt
<1> HIDE DEF g
<1>2. \A i \in 1..Len(h) : i \in 1..Len(g)
  BY <1>1
<1>3. ASSUME m.type = "APPLY"
      PROVE  m.rev \in 1..Len(g) - 1 /\ Fits(g[m.rev], m.op) /\ Applied(g[m.rev], m.op) = g[m.rev + 1]
  <2>1. m.rev \in 1..Len(h) - 1
    BY <1>3 DEF Tells
  <2>2. m.rev \in 1..Len(h) /\ m.rev + 1 \in 1..Len(h) /\ m.rev \in 1..Len(g) - 1
    BY <2>1, <1>1
  <2> QED BY <2>2, <1>1, <1>3 DEF Tells
<1>4. ASSUME m.type = "SYNC_RESPONSE"
      PROVE  /\ m.rev + 1 \in 1..Len(g) /\ m.index \in 1..Count(g[m.rev + 1])
             /\ m = Parts("SYNC_RESPONSE", m.rev, g[m.rev + 1])[m.index]
  <2>1. m.rev + 1 \in 1..Len(h)
    BY <1>4 DEF Tells
  <2>2. g[m.rev + 1] = h[m.rev + 1] /\ m.rev + 1 \in 1..Len(g)
    BY <2>1, <1>1, <1>2
  <2> QED BY <2>2, <1>4 DEF Tells
<1> QED BY <1>3, <1>4 DEF Tells, g

\* What the host tells is in order after what it told before.
LEMMA SaidInOrder ==
    ASSUME NEW S \in Seq(Frame), NEW frames \in Seq(HostFrame), NEW rev \in Nat, Ordered(S),
           \A k \in 1..Len(S) : S[k].type # "JOIN_OK" => S[k].rev <= rev,
           \A k \in 1..Len(frames) : frames[k].type # "JOIN_OK" /\ rev <= frames[k].rev,
           \A i, j \in 1..Len(frames) : i < j => frames[i].rev <= frames[j].rev
    PROVE  Ordered(S \o frames)
<1> DEFINE T == S \o frames
           n == Len(S)
<1>1. /\ frames \in Seq(Frame) /\ Len(frames) \in Nat
      /\ \A k \in 1..Len(frames) : frames[k] \in HostFrame /\ frames[k].rev \in Nat
  <2>1. /\ Len(frames) \in Nat /\ frames \in [1..Len(frames) -> HostFrame]
    BY LenProperties
  <2>2. HostFrame \subseteq Frame /\ \A m \in HostFrame : m.rev \in Nat
    BY DEF Frame, HostFrame, DocumentChunk
  <2>3. frames \in [1..Len(frames) -> Frame]
    BY <2>1, <2>2
  <2> QED BY <2>1, <2>2, <2>3, SeqDef
<1>2. /\ Len(T) = n + Len(frames) /\ n \in Nat /\ T \in Seq(Frame)
      /\ \A i \in 1..n : T[i] = S[i]
      /\ \A i \in 1..Len(frames) : T[n + i] = frames[i]
  <2> HIDE DEF T
  <2>1. S \o frames = T
    BY DEF T
  <2>2. S \in Seq(Frame) /\ frames \in Seq(Frame)
    BY <1>1
  <2>3. /\ S \o frames \in Seq(Frame) /\ Len(S \o frames) = Len(S) + Len(frames)
        /\ Len(S) \in Nat /\ Len(frames) \in Nat
        /\ \A i \in 1..Len(S) : (S \o frames)[i] = S[i]
        /\ \A i \in 1..Len(frames) : (S \o frames)[Len(S) + i] = frames[i]
    BY <2>2, ConcatAt
  <2> QED BY <2>1, <2>3
<1> HIDE DEF T, n
<1>3. ASSUME NEW i \in 1..Len(T), NEW j \in 1..Len(T), i < j
      PROVE  T[j].type # "JOIN_OK" /\ (T[i].type # "JOIN_OK" => T[i].rev <= T[j].rev)
  <2>1. CASE j \in 1..n
    <3>1. i \in 1..n
      BY <1>2, <1>3, <2>1
    <3> QED BY <1>2, <1>3, <2>1, <3>1 DEF Ordered, n
  <2>2. CASE j \notin 1..n
    <3>1. j - n \in 1..Len(frames) /\ n + (j - n) = j
      BY <1>1, <1>2, <2>2
    <3>2. T[j] = frames[j - n]
      BY <1>2, <3>1
    <3>3. T[j].type # "JOIN_OK" /\ rev <= T[j].rev /\ T[j].rev \in Nat
      BY <3>1, <3>2, <1>1
    <3>4. CASE i \in 1..n
      <4>1. T[i] = S[i] /\ S[i] \in Frame
        BY <1>2, <3>4, LenProperties DEF n
      <4>2. T[i].type # "JOIN_OK" => T[i].rev <= rev /\ T[i].rev \in Nat
        BY <4>1, <3>4, FrameFields DEF n
      <4>3. \A x, y, z \in Nat : x <= y /\ y <= z => x <= z
        OBVIOUS
      <4> QED BY <3>3, <4>2, <4>3
    <3>5. CASE i \notin 1..n
      <4>1. i - n \in 1..Len(frames) /\ n + (i - n) = i /\ i - n < j - n
        BY <1>1, <1>2, <1>3, <3>5
      <4>2. T[i] = frames[i - n]
        BY <1>2, <4>1
      <4> QED BY <3>1, <3>2, <3>3, <4>1, <4>2
    <3> QED BY <3>4, <3>5
  <2> QED BY <2>1, <2>2
<1> QED BY <1>3 DEF Ordered, T

\* What the host tells goes to the end of the stream and is true.
LEMMA HostKeepsStream ==
    ASSUME PagesInv, StreamInv, NEW q, NEW frames, NEW texts,
           HostBecomes(q, frames, texts), Says(q, frames, texts),
           Operates(frames, texts) \/ Answers(q, frames) \/ PassesOn(frames),
           toHost' \in Seq(GuestFrame)
    PROVE  /\ PagesInv' /\ StreamInv'
           /\ Stream' = Stream \o frames
           /\ \A k \in 1..Len(Stream) : Stream[k].type # "JOIN_OK" => Stream[k].rev <= host.rev
<1>1. /\ host' = q /\ toHub' = toHub \o frames /\ history' = history \o texts
      /\ guest' = guest /\ toGuest' = toGuest
  BY DEF HostBecomes
<1>2. /\ q \in PageType /\ q.role = "host"
      /\ frames \in Seq(HostFrame) /\ texts \in Seq(Seq(Char))
      /\ q.rev = host.rev + Len(texts) /\ q.last = (history \o texts)[q.rev + 1]
      /\ \A k \in 1..Len(frames) : Tells(history \o texts, frames[k])
  BY DEF Says
<1>3. /\ host.rev \in Nat /\ history \in Seq(Seq(Char)) /\ Len(history) = host.rev + 1
      /\ toHub \in Seq(HostFrame)
  BY PageFields DEF PagesInv
<1>4. history' \in Seq(Seq(Char)) /\ Len(history') = q.rev + 1
  <2> DEFINE r == host.rev
             n == Len(texts)
             l == Len(history)
             h == history \o texts
  <2>1. h \in Seq(Seq(Char)) /\ Len(h) = l + n /\ n \in Nat
    <3> HIDE DEF h
    <3>1. history \o texts = h
      BY DEF h
    <3>2. history \in Seq(Seq(Char)) /\ texts \in Seq(Seq(Char))
      BY <1>2, <1>3
    <3> QED BY <3>1, <3>2, ConcatAt
  <2>2. q.rev = r + n /\ l = r + 1 /\ r \in Nat
    BY <1>2, <1>3
  <2> HIDE DEF r, n, l
  <2>3. l + n = q.rev + 1
    BY <2>1, <2>2
  <2> QED BY <2>1, <2>3, <1>1
<1>5. toHub' \in Seq(HostFrame)
  BY <1>1, <1>2, <1>3, ConcatProperties
<1>6. PagesInv'
  BY <1>1, <1>2, <1>4, <1>5 DEF PagesInv
<1>7. /\ Stream \in Seq(Frame) /\ Len(Stream) \in Nat /\ toGuest \in Seq(Frame) /\ toHub \in Seq(Frame)
  BY StreamType
<1>8. frames \in Seq(Frame) /\ Len(frames) \in Nat
  <2>1. HostFrame \subseteq Frame
    BY DEF Frame
  <2>2. Len(frames) \in Nat /\ frames \in [1..Len(frames) -> HostFrame]
    BY <1>2, LenProperties
  <2>3. frames \in [1..Len(frames) -> Frame]
    BY <2>1, <2>2
  <2> QED BY <2>2, <2>3, SeqDef
<1>9. Stream' = Stream \o frames
  <2>1. toGuest \in Seq(Frame) /\ toHub \in Seq(Frame) /\ frames \in Seq(Frame)
    BY <1>7, <1>8
  <2>2. (toGuest \o toHub) \o frames = toGuest \o (toHub \o frames)
    BY ONLY <2>1, FramesAssociate
  <2> QED BY <1>1, <2>2 DEF Stream
<1>10. ASSUME NEW k \in 1..Len(Stream), Stream[k].type # "JOIN_OK"
       PROVE  Stream[k].rev \in Nat /\ Stream[k].rev <= host.rev
  <2> DEFINE m == Stream[k]
  <2>1. m \in Frame
    BY <1>7, LenProperties
  <2>2. m.type \in {"APPLY", "SYNC_RESPONSE"} /\ m.rev \in Nat
    BY <2>1, <1>10, FrameFields
  <2>3. Tells(history, m)
    BY DEF StreamInv
  <2> HIDE DEF m
  <2>4. m.rev \in 1..Len(history) - 1 \/ m.rev + 1 \in 1..Len(history)
    BY <2>2, <2>3 DEF Tells
  <2>5. m.rev <= host.rev
    BY <2>2, <2>4, <1>3
  <2> QED BY <2>2, <2>5 DEF m
<1>11. /\ Len(Stream') = Len(Stream) + Len(frames)
       /\ \A i \in 1..Len(Stream) : Stream'[i] = Stream[i]
       /\ \A i \in 1..Len(frames) : Stream'[Len(Stream) + i] = frames[i]
  <2>1. /\ Len(Stream \o frames) = Len(Stream) + Len(frames)
        /\ \A i \in 1..Len(Stream) : (Stream \o frames)[i] = Stream[i]
        /\ \A i \in 1..Len(frames) : (Stream \o frames)[Len(Stream) + i] = frames[i]
    BY <1>7, <1>8, ConcatAt
  <2> QED BY <2>1, <1>9
<1>12. ASSUME NEW k \in 1..Len(Stream') PROVE Tells(history', Stream'[k])
  <2>1. CASE k \in 1..Len(Stream)
    <3> DEFINE m == Stream[k]
    <3>1. Stream'[k] = m /\ m \in Frame /\ Tells(history, m)
      BY <2>1, <1>7, <1>11, LenProperties DEF StreamInv
    <3> HIDE DEF m
    <3>2. CASE m.type = "JOIN_OK"
      BY <3>1, <3>2 DEF Tells
    <3>3. CASE m.type # "JOIN_OK"
      <4>1. m.rev \in Nat
        BY <3>1, <3>3, FrameFields
      <4>2. Tells(history \o texts, m)
        BY <4>1, <3>1, <1>2, <1>3, TellsLonger
      <4> QED BY <4>2, <3>1, <1>1
    <3> QED BY <3>2, <3>3
  <2>2. CASE k \notin 1..Len(Stream)
    <3> DEFINE n == Len(Stream)
    <3>0. n \in Nat /\ Len(Stream') = n + Len(frames)
      BY <1>7, <1>11
    <3>a. k \in 1..n + Len(frames) /\ k \notin 1..n
      BY <2>2, <3>0
    <3>b. \A i \in 1..Len(frames) : Stream'[n + i] = frames[i]
      BY <1>11
    <3> HIDE DEF n
    <3>1. k - n \in 1..Len(frames) /\ n + (k - n) = k
      BY <3>0, <3>a, <1>8
    <3>2. Stream'[k] = frames[k - n]
      BY <3>1, <3>b
    <3> QED BY <3>1, <3>2, <1>1, <1>2
  <2> QED BY <2>1, <2>2
<1>13. Ordered(Stream')
  <2>1. /\ \A k \in 1..Len(frames) : frames[k].type # "JOIN_OK" /\ host.rev <= frames[k].rev
        /\ \A i, j \in 1..Len(frames) : i < j => frames[i].rev <= frames[j].rev
    BY SaidRevisions
  <2>2. Ordered(Stream \o frames)
    <3>1. /\ Ordered(Stream)
          /\ \A k \in 1..Len(Stream) : Stream[k].type # "JOIN_OK" => Stream[k].rev <= host.rev
      BY <1>10 DEF StreamInv
    <3> QED BY <3>1, <2>1, <1>2, <1>3, <1>7, SaidInOrder
  <2> QED BY <2>2, <1>9
<1>14. StreamInv'
  BY <1>1, <1>12, <1>13 DEF StreamInv
<1> QED BY <1>6, <1>9, <1>10, <1>14

\* Taking frames out of the stream leaves it in order, and true.
LEMMA LeftInOrder ==
    ASSUME NEW S \in Seq(Frame), NEW T \in Seq(Frame), LeftOf(T, S)
    PROVE  /\ Ordered(S) => Ordered(T)
           /\ \A i \in 1..Len(T) : \E j \in 1..Len(S) : T[i] = S[j]
<1>1. PICK f \in [1..Len(T) -> 1..Len(S)] :
        /\ \A i \in 1..Len(T) : T[i] = S[f[i]]
        /\ \A i, j \in 1..Len(T) : i < j => f[i] < f[j]
  BY DEF LeftOf
<1>2. ASSUME Ordered(S), NEW i \in 1..Len(T), NEW j \in 1..Len(T), i < j
      PROVE  T[j].type # "JOIN_OK" /\ (T[i].type # "JOIN_OK" => T[i].rev <= T[j].rev)
  <2>1. f[i] \in 1..Len(S) /\ f[j] \in 1..Len(S) /\ f[i] < f[j]
    BY <1>1, <1>2
  <2>2. T[i] = S[f[i]] /\ T[j] = S[f[j]]
    BY <1>1
  <2> HIDE DEF Frame
  <2> QED BY <2>1, <2>2, <1>2 DEF Ordered
<1>3. \A i \in 1..Len(T) : f[i] \in 1..Len(S) /\ T[i] = S[f[i]]
  BY <1>1
<1> QED BY <1>2, <1>3 DEF Ordered

\* The head is taken out.
LEMMA TailLeft ==
    ASSUME NEW S \in Seq(Frame), S # <<>>
    PROVE  /\ Tail(S) \in Seq(Frame) /\ LeftOf(Tail(S), S)
           /\ Len(S) \in Nat \ {0} /\ Len(Tail(S)) = Len(S) - 1
           /\ Head(S) = S[1] /\ \A i \in 1..Len(S) - 1 : Tail(S)[i] = S[i + 1]
<1> DEFINE T == Tail(S)
           n == Len(S)
<1>1. /\ T \in Seq(Frame) /\ n \in Nat \ {0} /\ Len(T) = n - 1 /\ Head(S) = S[1]
      /\ \A i \in 1..Len(T) : T[i] = S[i + 1]
  BY HeadTailProperties, LenProperties, EmptySeq
<1> DEFINE f == [i \in 1..Len(T) |-> i + 1]
<1> HIDE DEF T, n
<1>2. \A i \in 1..Len(T) : f[i] = i + 1 /\ i + 1 \in 1..n /\ i \in Nat
  BY <1>1
<1>3. f \in [1..Len(T) -> 1..n]
  BY <1>2
<1>4. \A i, j \in 1..Len(T) : i < j => f[i] < f[j]
  BY <1>1, <1>2
<1> HIDE DEF f
<1>5. \A i \in 1..Len(T) : T[i] = S[f[i]]
  BY <1>1, <1>2
<1>6. LeftOf(T, S)
  BY <1>3, <1>4, <1>5 DEF LeftOf, n
<1> QED BY <1>1, <1>6 DEF T, n

\* The first frame of the stream is the first that reached the guest.
LEMMA StreamHead ==
    ASSUME PagesInv, toGuest # <<>>
    PROVE  /\ Stream # <<>> /\ Head(Stream) = Head(toGuest) /\ Tail(Stream) = Tail(toGuest) \o toHub
           /\ Head(toGuest) \in Frame /\ Tail(toGuest) \in Seq(HostFrame \cup [type : {"JOIN_OK"}])
<1>1. /\ Stream \in Seq(Frame) /\ Len(Stream) = Len(toGuest) + Len(toHub)
      /\ toGuest \in Seq(Frame) /\ toHub \in Seq(Frame)
      /\ Len(toGuest) \in Nat \ {0} /\ Len(toHub) \in Nat /\ Len(Stream) \in Nat
      /\ \A i \in 1..Len(toGuest) : Stream[i] = toGuest[i]
      /\ \A i \in 1..Len(toHub) : Stream[Len(toGuest) + i] = toHub[i]
  BY StreamType, EmptySeq
<1>2. Stream # <<>>
  <2>1. Len(Stream) # 0
    BY <1>1
  <2> HIDE DEF Stream
  <2> QED BY <2>1, <1>1, EmptySeq
<1> DEFINE n == Len(toGuest)
           l == Len(toHub)
           S == Stream
<1>3. /\ Tail(toGuest) \in Seq(Frame) /\ Len(Tail(toGuest)) = n - 1 /\ Head(toGuest) = toGuest[1]
      /\ \A i \in 1..n - 1 : Tail(toGuest)[i] = toGuest[i + 1]
  BY <1>1, TailLeft
<1>4. /\ Tail(S) \in Seq(Frame) /\ Len(Tail(S)) = Len(S) - 1 /\ Head(S) = S[1]
      /\ \A i \in 1..Len(S) - 1 : Tail(S)[i] = S[i + 1]
  <2> HIDE DEF S
  <2>1. S \in Seq(Frame) /\ S # <<>>
    BY <1>1, <1>2 DEF S
  <2> QED BY <2>1, TailLeft
<1> DEFINE t == Tail(toGuest)
           T == t \o toHub
<1>5. /\ T \in Seq(Frame) /\ Len(T) = Len(t) + l
      /\ \A i \in 1..Len(t) : T[i] = t[i]
      /\ \A i \in 1..l : T[Len(t) + i] = toHub[i]
  <2> HIDE DEF T, t
  <2>1. t \o toHub = T /\ t \in Seq(Frame)
    BY <1>3 DEF T, t
  <2>2. toHub \in Seq(Frame)
    BY <1>1
  <2>3. /\ t \o toHub \in Seq(Frame) /\ Len(t \o toHub) = Len(t) + Len(toHub)
        /\ \A i \in 1..Len(t) : (t \o toHub)[i] = t[i]
        /\ \A i \in 1..Len(toHub) : (t \o toHub)[Len(t) + i] = toHub[i]
    <3>1. t \in Seq(Frame)
      BY <2>1
    <3> QED BY <3>1, <2>2, ConcatAt
  <2> QED BY <2>1, <2>3
<1>6. \A i \in 1..n : S[i] = toGuest[i]
  BY <1>1
<1>7. \A i \in 1..l : S[n + i] = toHub[i]
  BY <1>1
<1>8. Len(S) = n + l /\ n \in Nat \ {0} /\ l \in Nat /\ Len(t) = n - 1
  BY <1>1, <1>3
<1>9. \A i \in 1..n - 1 : t[i] = toGuest[i + 1]
  BY <1>3
<1> HIDE DEF S, T, t, n, l
<1>10. ASSUME NEW i \in 1..n + l - 1 PROVE Tail(S)[i] = T[i]
  <2>1. Tail(S)[i] = S[i + 1]
    BY <1>4, <1>8
  <2>2. CASE i \in 1..n - 1
    <3>1. i + 1 \in 1..n /\ i \in 1..Len(t)
      BY <2>2, <1>8
    <3> QED BY <2>1, <2>2, <3>1, <1>5, <1>6, <1>9
  <2>3. CASE i \notin 1..n - 1
    <3> DEFINE k == i + 1 - n
    <3>1. k \in 1..l /\ n + k = i + 1 /\ (n - 1) + k = i
      BY <2>3, <1>8
    <3> HIDE DEF k
    <3>2. S[n + k] = toHub[k] /\ T[Len(t) + k] = toHub[k]
      BY <3>1, <1>5, <1>7
    <3>3. Len(t) = n - 1
      BY <1>8
    <3> QED BY ONLY <2>1, <3>1, <3>2, <3>3
  <2> QED BY <2>2, <2>3
<1>11. Len(Tail(S)) = n + l - 1 /\ Len(T) = n + l - 1
  BY <1>4, <1>5, <1>8
<1>12. Tail(S) = T
  BY <1>4, <1>5, <1>10, <1>11, SeqEqual
<1>13. 1 \in 1..n
  BY <1>8
<1>14. Head(S) = Head(toGuest) /\ toGuest[1] \in Frame
  BY <1>1, <1>3, <1>4, <1>6, <1>13, LenProperties DEF n
<1>15. Frame = HostFrame \cup [type : {"JOIN_OK"}]
  BY DEF Frame
<1> QED BY <1>2, <1>3, <1>12, <1>14, <1>15 DEF S, T, t

\* The relay passes a frame on, or takes it out of the stream.
LEMMA HubKeepsStream ==
    ASSUME PagesInv, StreamInv, HubRelays
    PROVE  /\ PagesInv' /\ StreamInv'
           /\ UNCHANGED <<host, guest, toHost, history>>
           /\ \/ Stream' = Stream /\ follows' = follows
              \/ /\ LeftOf(Stream', Stream)
                 /\ guest.role = "offline" \/ (follows' = "no" /\ ~polite')
<1> DEFINE m == Head(toHub)
<1>1. toHub # <<>> /\ toHub' = Tail(toHub) /\ UNCHANGED <<host, guest, toHost, history>>
  BY DEF HubRelays
<1>2. /\ toHub \in Seq(HostFrame) /\ m \in HostFrame /\ Tail(toHub) \in Seq(HostFrame)
      /\ toHub \in Seq(Frame) /\ toGuest \in Seq(Frame) /\ Stream \in Seq(Frame)
      /\ m \in Frame /\ Len(toGuest) \in Nat
      /\ m = toHub[1]
  <2>1. toHub \in Seq(HostFrame)
    BY DEF PagesInv
  <2>2. m \in HostFrame /\ Tail(toHub) \in Seq(HostFrame) /\ m = toHub[1]
    BY <2>1, <1>1, HeadTailProperties
  <2> HIDE DEF m
  <2>3. m \in Frame
    BY <2>2 DEF Frame
  <2> QED BY <2>1, <2>2, <2>3, StreamType
<1>3. /\ Tail(toHub) \in Seq(Frame) /\ Len(toHub) \in Nat \ {0} /\ Len(Tail(toHub)) = Len(toHub) - 1
      /\ \A i \in 1..Len(toHub) - 1 : Tail(toHub)[i] = toHub[i + 1]
  BY <1>1, <1>2, TailLeft
<1>4. toHub = <<m>> \o Tail(toHub)
  <2>1. m = Head(toHub)
    OBVIOUS
  <2> HIDE DEF m
  <2>2. toHub # <<>> /\ toHub \in Seq(Frame)
    BY <1>1, <1>2
  <2> QED BY <2>1, <2>2, HeadTailProperties
<1>5. /\ toGuest' = (IF guest.role # "offline" /\ Accepted(m) THEN Append(toGuest, m) ELSE toGuest)
      /\ follows' = (IF guest.role # "offline" /\ ~Accepted(m) THEN "no" ELSE follows)
      /\ polite' => (guest.role # "offline" => Accepted(m))
  BY DEF HubRelays
<1> HIDE DEF m
<1>6. CASE guest.role # "offline" /\ Accepted(m)
  <2>1. toGuest' = Append(toGuest, m) /\ follows' = follows
    BY <1>5, <1>6
  <2>2. Append(toGuest, m) = toGuest \o <<m>> /\ Append(toGuest, m) \in Seq(Frame)
    BY <1>2, AppendIsConcat, AppendProperties
  <2>3. (toGuest \o <<m>>) \o Tail(toHub) = toGuest \o (<<m>> \o Tail(toHub))
    <3> DEFINE first == <<m>>
               rest  == Tail(toHub)
    <3>1. toGuest \in Seq(Frame) /\ first \in Seq(Frame) /\ rest \in Seq(Frame)
      BY <1>2, <1>3
    <3> HIDE DEF first, rest
    <3>2. (toGuest \o first) \o rest = toGuest \o (first \o rest)
      BY ONLY <3>1, FramesAssociate
    <3> QED BY ONLY <3>2 DEF first, rest
  <2>4. Stream' = Stream
    BY <2>1, <2>2, <2>3, <1>1, <1>4 DEF Stream
  <2>5. PagesInv'
    BY <2>1, <2>2, <1>1, <1>2 DEF PagesInv, Frame
  <2>6. StreamInv'
    <3>1. \A k \in 1..Len(Stream') : Tells(history', Stream'[k])
      BY <2>4, <1>1 DEF StreamInv
    <3>2. Ordered(Stream')
      BY <2>4 DEF StreamInv
    <3>3. guest' = guest
      BY <1>1
    <3>4. guest'.role # "offline"
      BY <3>3, <1>6
    <3> QED BY <3>1, <3>2, <3>4 DEF StreamInv
  <2> QED BY <2>1, <2>4, <2>5, <2>6, <1>1
<1>7. CASE ~(guest.role # "offline" /\ Accepted(m))
  <2>1. toGuest' = toGuest /\ (guest.role = "offline" \/ (follows' = "no" /\ ~polite'))
    BY <1>5, <1>7
  <2> DEFINE T == toGuest \o Tail(toHub)
             n == Len(toGuest)
             l == Len(toHub)
             S == Stream
             f == [i \in 1..Len(T) |-> IF i <= n THEN i ELSE i + 1]
  <2>2. Stream' = T
    BY <2>1, <1>1 DEF Stream
  <2>3. /\ T \in Seq(Frame) /\ Len(T) = n + (l - 1)
        /\ \A i \in 1..n : T[i] = toGuest[i]
        /\ \A i \in 1..l - 1 : T[n + i] = toHub[i + 1]
    <3> DEFINE t == Tail(toHub)
    <3>1. t \in Seq(Frame) /\ Len(t) = l - 1 /\ \A i \in 1..l - 1 : t[i] = toHub[i + 1]
      BY <1>3
    <3> HIDE DEF t
    <3>2. /\ toGuest \o t \in Seq(Frame) /\ Len(toGuest \o t) = Len(toGuest) + Len(t)
          /\ \A i \in 1..Len(toGuest) : (toGuest \o t)[i] = toGuest[i]
          /\ \A i \in 1..Len(t) : (toGuest \o t)[Len(toGuest) + i] = t[i]
      <4>1. t \in Seq(Frame) /\ toGuest \in Seq(Frame)
        BY <3>1, <1>2
      <4> QED BY <4>1, ConcatAt
    <3>3. T = toGuest \o t
      BY DEF t
    <3> HIDE DEF T
    <3> QED BY <3>1, <3>2, <3>3
  <2>4. /\ Len(S) = n + l /\ n \in Nat /\ l \in Nat \ {0}
        /\ \A i \in 1..n : S[i] = toGuest[i]
        /\ \A i \in 1..l : S[n + i] = toHub[i]
    BY StreamType, <1>3
  <2> HIDE DEF T, n, l, S
  <2>5. /\ f \in [1..Len(T) -> 1..Len(S)]
        /\ \A i \in 1..Len(T) : f[i] = (IF i <= n THEN i ELSE i + 1) /\ i \in Nat
    BY <2>3, <2>4
  <2> HIDE DEF f
  <2>6. ASSUME NEW i \in 1..Len(T) PROVE T[i] = S[f[i]]
    <3>1. CASE i <= n
      <4>1. i \in 1..n /\ f[i] = i
        BY <3>1, <2>3, <2>4, <2>5
      <4> QED BY <4>1, <2>3, <2>4
    <3>2. CASE ~(i <= n)
      <4>1. /\ i - n \in 1..l - 1 /\ n + (i - n) = i /\ f[i] = i + 1
            /\ i - n + 1 \in 1..l /\ n + (i - n + 1) = i + 1
        BY <3>2, <2>3, <2>4, <2>5
      <4>2. T[n + (i - n)] = toHub[i - n + 1]
        BY <4>1, <2>3
      <4>3. S[n + (i - n + 1)] = toHub[i - n + 1]
        BY <4>1, <2>4
      <4> QED BY <4>1, <4>2, <4>3
    <3> QED BY <3>1, <3>2
  <2>7. \A i, j \in 1..Len(T) : i < j => f[i] < f[j]
    BY <2>3, <2>4, <2>5
  <2>8. LeftOf(T, S)
    BY <2>5, <2>6, <2>7 DEF LeftOf
  <2>9. (Ordered(S) => Ordered(T)) /\ \A i \in 1..Len(T) : \E j \in 1..Len(S) : T[i] = S[j]
    BY <2>3, <2>8, <1>2, LeftInOrder DEF S
  <2>10. StreamInv'
    <3>1. \A i \in 1..Len(T) : Tells(history, T[i])
      BY <2>9 DEF StreamInv, S
    <3>2. Ordered(T)
      BY <2>9 DEF StreamInv, S
    <3> QED BY <3>1, <3>2, <2>1, <2>2, <1>1 DEF StreamInv
  <2>11. PagesInv'
    BY <2>1, <1>1, <1>2 DEF PagesInv
  <2> QED BY <2>1, <2>2, <2>8, <2>10, <2>11, <1>1 DEF S
<1> QED BY <1>6, <1>7

\* A page of the guest that goes on as p with the stream as it was.
LEMMA GuestBecomesTyped ==
    ASSUME PagesInv, NEW p \in PageType, p.role # "host", NEW frames \in Seq(GuestFrame),
           GuestBecomes(p, frames), toGuest' \in Seq(Frame)
    PROVE  PagesInv'
<1>1. toHost \in Seq(GuestFrame)
  BY DEF PagesInv
<1>2. toHost \o frames \in Seq(GuestFrame)
  BY <1>1, ConcatProperties
<1> QED BY <1>2 DEF PagesInv, GuestBecomes, Frame

\* flushRelayLocalChange of the guest changes nothing but what it has sent.
LEMMA GuestFlushesTyped ==
    ASSUME NEW p \in PageType, GuestFlushes(p)
    PROVE  \E q \in PageType, frames \in Seq(GuestFrame) :
               /\ GuestBecomes(q, frames) /\ q.role = p.role /\ q.rev = p.rev /\ q.chunks = p.chunks
<1> DEFINE ops    == ComputeEditorDiff(p.last, p.editor)
           n      == Len(ops)
           q      == [p EXCEPT !.last = p.editor]
           large  == \E k \in 1..Len(ops) : ops[k].type = "INSERT" /\ Len(ops[k].text) > RelayChunkSize
           edits_ == [k \in 1..Len(ops) |-> [type |-> "EDIT", op |-> ops[k]]]
           whole  == Parts("DOCUMENT_SNAPSHOT", p.rev, p.editor)
<1>1. GuestBecomes(q, IF large THEN whole ELSE edits_)
  BY DEF GuestFlushes
<1>2. p.last \in Seq(Char) /\ p.editor \in Seq(Char) /\ p.rev \in Nat
  BY PageFields
<1>3. ops \in Seq(Operation)
  BY <1>2, DiffType
<1> HIDE DEF ops
<1>4. n \in Nat /\ \A k \in 1..n : ops[k] \in Operation
  BY <1>3, LenProperties
<1>5. edits_ \in Seq(GuestFrame)
  <2>1. \A k \in 1..n : [type |-> "EDIT", op |-> ops[k]] \in GuestFrame
    BY <1>4 DEF GuestFrame
  <2>2. edits_ \in [1..n -> GuestFrame]
    BY <2>1
  <2> HIDE DEF edits_, n
  <2> QED BY <1>4, <2>2, SeqDef
<1>6. whole \in Seq(GuestFrame)
  <2> DEFINE rev == p.rev
             text == p.editor
  <2>1. rev \in Nat /\ text \in Seq(Char) /\ whole = Parts("DOCUMENT_SNAPSHOT", rev, text)
    BY <1>2
  <2> HIDE DEF rev, text, whole
  <2>2. whole \in Seq(DocumentChunk("DOCUMENT_SNAPSHOT"))
    BY <2>1, PartsType
  <2>3. DocumentChunk("DOCUMENT_SNAPSHOT") \subseteq GuestFrame
    BY DEF GuestFrame
  <2>4. Len(whole) \in Nat /\ whole \in [1..Len(whole) -> DocumentChunk("DOCUMENT_SNAPSHOT")]
    BY <2>2, LenProperties
  <2>5. whole \in [1..Len(whole) -> GuestFrame]
    BY <2>3, <2>4
  <2> QED BY <2>4, <2>5, SeqDef
<1>7. q \in PageType /\ q.role = p.role /\ q.rev = p.rev /\ q.chunks = p.chunks
  BY <1>2 DEF PageType
<1> HIDE DEF q, edits_, whole, large
<1> QED BY <1>1, <1>5, <1>6, <1>7

\* What the guest's user does.
GuestEdits ==
    \/ \E text \in TypedTexts : GuestTypes(text)
    \/ GuestComposes \/ GuestSaves \/ GuestGoesOn

\* It changes no revision and no chunk.
LEMMA GuestEditsTyped ==
    ASSUME PagesInv, GuestEdits
    PROVE  /\ \E q \in PageType, frames \in Seq(GuestFrame) :
                 /\ GuestBecomes(q, frames)
                 /\ q.role = guest.role /\ q.rev = guest.rev /\ q.chunks = guest.chunks
           /\ UNCHANGED <<toGuest, polite>>
<1>1. guest \in PageType /\ <<>> \in Seq(GuestFrame)
  BY DEF PagesInv
<1>2. ASSUME NEW text \in TypedTexts, GuestTypes(text)
      PROVE  /\ \E q \in PageType, frames \in Seq(GuestFrame) :
                   /\ GuestBecomes(q, frames)
                   /\ q.role = guest.role /\ q.rev = guest.rev /\ q.chunks = guest.chunks
             /\ UNCHANGED <<toGuest, polite>>
  <2>1. text \in Seq(Char)
    BY RelayPagesAssumption, TextIsSeq
  <2>2. /\ Typed(guest, text) \in PageType /\ Typed(guest, text).role = guest.role
        /\ Typed(guest, text).rev = guest.rev /\ Typed(guest, text).chunks = guest.chunks
    BY <1>1, <2>1, TypedType
  <2> QED BY <1>1, <1>2, <2>2 DEF GuestTypes
<1>3. CASE GuestComposes
  <2> DEFINE q == [guest EXCEPT !.composing = TRUE]
  <2>1. q \in PageType /\ q.role = guest.role /\ q.rev = guest.rev /\ q.chunks = guest.chunks
    BY <1>1 DEF PageType
  <2> QED BY <1>1, <1>3, <2>1 DEF GuestComposes
<1>4. CASE GuestSaves
  BY <1>1, <1>4, GuestFlushesTyped DEF GuestSaves
<1>5. CASE GuestGoesOn
  <2>1. CASE guest.composing /\ GuestBecomes(Composed(guest), <<>>)
    BY <1>1, <1>5, <2>1, ComposedType DEF GuestGoesOn
  <2>2. CASE guest.deferred # <<>> /\ GuestBecomes(ShownLate(guest), <<>>)
    BY <1>1, <1>5, <2>2, ShownLateType DEF GuestGoesOn
  <2>3. CASE guest.timer /\ GuestFlushes([guest EXCEPT !.timer = FALSE])
    <3> DEFINE q == [guest EXCEPT !.timer = FALSE]
    <3>1. q \in PageType /\ q.role = guest.role /\ q.rev = guest.rev /\ q.chunks = guest.chunks
      BY <1>1 DEF PageType
    <3>2. GuestFlushes(q)
      BY <2>3
    <3> HIDE DEF q
    <3>3. \E p \in PageType, frames \in Seq(GuestFrame) :
             GuestBecomes(p, frames) /\ p.role = q.role /\ p.rev = q.rev /\ p.chunks = q.chunks
      BY <3>1, <3>2, GuestFlushesTyped
    <3> QED BY <1>5, <3>1, <3>3 DEF GuestGoesOn
  <2> QED BY <1>5, <2>1, <2>2, <2>3 DEF GuestGoesOn
<1> QED BY <1>2, <1>3, <1>4, <1>5 DEF GuestEdits

\* The page once all chunks of the document arrived.
Synchronised(p, m) ==
    LET chunks == Collected(p, m)
        text   == Joined(chunks)
    IN  Shown([p EXCEPT !.chunks = [chunks EXCEPT !.parts = <<>>], !.last = text, !.rev = m.rev], text)

\* It counts the document it got and shows it, unless a composition is under way or its
\* editor alters it.
LEMMA SynchronisedType ==
    ASSUME NEW p \in PageType, NEW m \in DocumentChunk("SYNC_RESPONSE"), Complete(Collected(p, m))
    PROVE  /\ Synchronised(p, m) \in PageType /\ Joined(Collected(p, m)) \in Seq(Char)
           /\ Synchronised(p, m).role = p.role /\ Synchronised(p, m).rev = m.rev
           /\ Synchronised(p, m).chunks.rev = m.rev /\ Synchronised(p, m).chunks.parts = <<>>
           /\ Synchronised(p, m).last = Joined(Collected(p, m))
           /\ Synchronised(p, m).timer = p.timer /\ Synchronised(p, m).composing = p.composing
           /\ Synchronised(p, m).deferred = p.deferred
           /\ ~p.composing => Synchronised(p, m).pending = p.pending
           /\ ~p.composing /\ Synchronised(p, m).asGiven =>
                  Synchronised(p, m).editor = Joined(Collected(p, m))
           /\ p.composing => /\ Synchronised(p, m).editor = p.editor
                             /\ Synchronised(p, m).pending = <<Joined(Collected(p, m))>>
           /\ Synchronised(p, m).asGiven => p.asGiven
<1> DEFINE chunks == Collected(p, m)
           text   == Joined(chunks)
           empty  == [chunks EXCEPT !.parts = <<>>]
           q      == [p EXCEPT !.chunks = empty, !.last = text, !.rev = m.rev]
<1>1. chunks \in ChunksType /\ chunks.rev = m.rev
  BY CollectedType
<1>2. text \in Seq(Char)
  BY <1>1, JoinedType DEF ChunksType
<1>3. Synchronised(p, m) = Shown(q, text)
  BY DEF Synchronised
<1>4. m.rev \in Nat
  BY DEF DocumentChunk
<1> HIDE DEF text, chunks
<1>5. empty \in ChunksType /\ empty.rev = m.rev /\ empty.parts = <<>>
  <2>1. <<>> \in Seq(Seq(Seq(Char)))
    OBVIOUS
  <2> QED BY <2>1, <1>1 DEF ChunksType
<1> HIDE DEF empty
<1>6. /\ q \in PageType /\ q.role = p.role /\ q.rev = m.rev /\ q.chunks = empty /\ q.last = text
      /\ q.timer = p.timer /\ q.composing = p.composing /\ q.deferred = p.deferred
      /\ q.pending = p.pending /\ q.editor = p.editor /\ q.asGiven = p.asGiven
  BY <1>2, <1>4, <1>5 DEF PageType
<1> HIDE DEF q
<1>7. /\ Shown(q, text) \in PageType
      /\ Shown(q, text).role = q.role /\ Shown(q, text).last = q.last
      /\ Shown(q, text).rev = q.rev /\ Shown(q, text).chunks = q.chunks
      /\ Shown(q, text).timer = q.timer /\ Shown(q, text).composing = q.composing
      /\ Shown(q, text).deferred = q.deferred
      /\ ~q.composing => Shown(q, text).pending = q.pending
      /\ ~q.composing /\ Shown(q, text).asGiven => Shown(q, text).editor = text
      /\ q.composing => Shown(q, text).editor = q.editor /\ Shown(q, text).pending = <<text>>
      /\ Shown(q, text).asGiven => q.asGiven
  BY <1>2, <1>6, ShownType
<1> QED BY <1>2, <1>3, <1>5, <1>6, <1>7 DEF text, chunks

\* The page that has applied an operation of the host.
Followed(p, m) ==
    LET text == Applied(p.editor, m.op)
    IN  Shown([p EXCEPT !.rev = m.rev, !.last = text], text)

\* It counts the document the operation leads to and shows it, unless its editor alters it.
LEMMA FollowedType ==
    ASSUME NEW p \in PageType, NEW m, m.rev \in Nat, m.op \in Operation, Fits(p.editor, m.op)
    PROVE  /\ Followed(p, m) \in PageType
           /\ Followed(p, m).role = p.role /\ Followed(p, m).rev = m.rev
           /\ Followed(p, m).chunks = p.chunks /\ Followed(p, m).last = Applied(p.editor, m.op)
           /\ Followed(p, m).timer = p.timer /\ Followed(p, m).composing = p.composing
           /\ Followed(p, m).deferred = p.deferred
           /\ ~p.composing => Followed(p, m).pending = p.pending
           /\ ~p.composing /\ Followed(p, m).asGiven => Followed(p, m).editor = Applied(p.editor, m.op)
           /\ Followed(p, m).asGiven => p.asGiven
<1> DEFINE text == Applied(p.editor, m.op)
           rev  == m.rev
           q    == [p EXCEPT !.rev = rev, !.last = text]
<1>1. text \in Seq(Char) /\ rev \in Nat
  BY PageFields, FitsApplied
<1>2. Followed(p, m) = Shown(q, text)
  BY DEF Followed
<1> HIDE DEF text, rev
<1>3. /\ q \in PageType /\ q.role = p.role /\ q.rev = rev /\ q.chunks = p.chunks /\ q.last = text
      /\ q.timer = p.timer /\ q.composing = p.composing /\ q.deferred = p.deferred
      /\ q.pending = p.pending /\ q.asGiven = p.asGiven
  BY <1>1 DEF PageType
<1> HIDE DEF q
<1>4. /\ Shown(q, text) \in PageType
      /\ Shown(q, text).role = q.role /\ Shown(q, text).last = q.last
      /\ Shown(q, text).rev = q.rev /\ Shown(q, text).chunks = q.chunks
      /\ Shown(q, text).timer = q.timer /\ Shown(q, text).composing = q.composing
      /\ Shown(q, text).deferred = q.deferred
      /\ ~q.composing => Shown(q, text).pending = q.pending
      /\ ~q.composing /\ Shown(q, text).asGiven => Shown(q, text).editor = text
      /\ Shown(q, text).asGiven => q.asGiven
  BY <1>1, <1>3, ShownType
<1> QED BY <1>2, <1>3, <1>4 DEF text, rev

\* What handleRelayMessage and handleRelayPayload make of the guest, frame by frame.
LEMMA GuestHandlesCases ==
    ASSUME PagesInv, GuestHandles, NEW m, m = Head(toGuest)
    PROVE  /\ m \in Frame
           /\ \E q \in PageType, frames \in Seq(GuestFrame) :
                 /\ GuestBecomes(q, frames)
                 /\ q.role = guest.role \/ q.role = "guest"
                 /\ \/ /\ m.type = "JOIN_OK"
                       /\ q = [guest EXCEPT !.role = "guest", !.rev = 0, !.last = guest.editor]
                       /\ frames = <<[type |-> "SYNC_REQUEST"]>> /\ follows' = follows
                    \/ /\ m.type = "SYNC_RESPONSE" /\ Complete(Collected(guest, m))
                       /\ q = Synchronised(guest, m) /\ frames = <<>>
                       /\ follows' = IF follows = "waits" THEN "follows" ELSE follows
                    \/ /\ m.type = "SYNC_RESPONSE" /\ ~Complete(Collected(guest, m))
                       /\ q = [guest EXCEPT !.chunks = Collected(guest, m)]
                       /\ frames = <<>> /\ follows' = follows
                    \/ /\ m.type = "APPLY" /\ m.rev <= guest.rev
                       /\ q = guest /\ frames = <<>> /\ follows' = follows
                    \/ /\ m.type = "APPLY" /\ ~(m.rev <= guest.rev) /\ m.client = "B"
                       /\ q = [guest EXCEPT !.rev = m.rev, !.last = guest.editor]
                       /\ frames = <<>> /\ follows' = follows
                    \/ /\ m.type = "APPLY" /\ ~(m.rev <= guest.rev) /\ m.client # "B"
                       /\ Fits(guest.editor, m.op) /\ q = Followed(guest, m)
                       /\ frames = <<>> /\ follows' = follows
                    \/ /\ m.type = "APPLY" /\ ~(m.rev <= guest.rev) /\ m.client # "B"
                       /\ ~Fits(guest.editor, m.op) /\ q = guest
                       /\ frames = <<[type |-> "SYNC_REQUEST"]>> /\ follows' = follows
<1>1. guest \in PageType /\ <<>> \in Seq(GuestFrame) /\ toGuest # <<>>
  BY DEF PagesInv, GuestHandles
<1>2. m \in Frame
  BY <1>1, StreamHead
<1>3. /\ m.type \in {"JOIN_OK", "APPLY", "SYNC_RESPONSE"}
      /\ m.type # "JOIN_OK" => m.rev \in Nat
      /\ m.type = "APPLY" => m.op \in Operation /\ m.client \in {"A", "B"}
      /\ m.type = "SYNC_RESPONSE" => m \in DocumentChunk("SYNC_RESPONSE")
  BY <1>2, FrameFields
<1>4. <<[type |-> "SYNC_REQUEST"]>> \in Seq(GuestFrame)
  <2>1. [type |-> "SYNC_REQUEST"] \in GuestFrame
    BY DEF GuestFrame
  <2> HIDE DEF GuestFrame
  <2> QED BY <2>1
<1>5. CASE m.type = "JOIN_OK"
  <2> DEFINE q == [guest EXCEPT !.role = "guest", !.rev = 0, !.last = guest.editor]
  <2>1. GuestBecomes(q, <<[type |-> "SYNC_REQUEST"]>>) /\ follows' = follows
    BY <1>5 DEF GuestHandles
  <2>2. q \in PageType /\ q.role = "guest"
    BY <1>1, PageFields DEF PageType
  <2> QED BY <1>2, <1>4, <1>5, <2>1, <2>2
<1>6. CASE m.type = "SYNC_RESPONSE"
  <2>1. GuestCollects(guest, m)
    BY <1>6 DEF GuestHandles
  <2>2. m \in DocumentChunk("SYNC_RESPONSE")
    BY <1>3, <1>6
  <2>3. CASE Complete(Collected(guest, m))
    <3>1. /\ GuestBecomes(Synchronised(guest, m), <<>>)
          /\ follows' = IF follows = "waits" THEN "follows" ELSE follows
      BY <2>1, <2>3 DEF GuestCollects, Synchronised
    <3>2. Synchronised(guest, m) \in PageType /\ Synchronised(guest, m).role = guest.role
      BY <1>1, <2>2, <2>3, SynchronisedType
    <3> QED BY <1>1, <1>2, <1>6, <2>3, <3>1, <3>2
  <2>4. CASE ~Complete(Collected(guest, m))
    <3> DEFINE q == [guest EXCEPT !.chunks = Collected(guest, m)]
    <3>1. GuestBecomes(q, <<>>) /\ follows' = follows
      BY <2>1, <2>4 DEF GuestCollects
    <3>2. Collected(guest, m) \in ChunksType
      BY <1>1, <2>2, CollectedType
    <3>3. q \in PageType /\ q.role = guest.role
      BY <1>1, <3>2 DEF PageType
    <3> QED BY <1>1, <1>2, <1>6, <2>4, <3>1, <3>3
  <2> QED BY <2>3, <2>4
<1>7. CASE m.type = "APPLY"
  <2>1. GuestApplies(guest, m) /\ follows' = follows
    BY <1>7 DEF GuestHandles
  <2>2. m.rev \in Nat /\ m.op \in Operation
    BY <1>3, <1>7
  <2>3. CASE m.rev <= guest.rev
    BY <1>1, <1>2, <1>7, <2>1, <2>3 DEF GuestApplies
  <2>4. CASE ~(m.rev <= guest.rev) /\ m.client = "B"
    <3> DEFINE q == [guest EXCEPT !.rev = m.rev, !.last = guest.editor]
    <3>1. GuestBecomes(q, <<>>)
      BY <2>1, <2>4 DEF GuestApplies
    <3>2. q \in PageType /\ q.role = guest.role
      BY <1>1, <2>2, PageFields DEF PageType
    <3> QED BY <1>1, <1>2, <1>7, <2>1, <2>4, <3>1, <3>2
  <2>5. CASE ~(m.rev <= guest.rev) /\ m.client # "B" /\ Fits(guest.editor, m.op)
    <3>1. GuestBecomes(Followed(guest, m), <<>>)
      BY <2>1, <2>5 DEF GuestApplies, Followed
    <3>2. Followed(guest, m) \in PageType /\ Followed(guest, m).role = guest.role
      BY <1>1, <2>2, <2>5, FollowedType
    <3> QED BY <1>1, <1>2, <1>7, <2>1, <2>5, <3>1, <3>2
  <2>6. CASE ~(m.rev <= guest.rev) /\ m.client # "B" /\ ~Fits(guest.editor, m.op)
    <3>1. GuestBecomes(guest, <<[type |-> "SYNC_REQUEST"]>>)
      BY <2>1, <2>6 DEF GuestApplies
    <3> QED BY <1>1, <1>2, <1>4, <1>7, <2>1, <2>6, <3>1
  <2> QED BY <2>3, <2>4, <2>5, <2>6
<1> QED BY <1>3, <1>5, <1>6, <1>7

\* The guest takes the first frame out of the stream.
LEMMA GuestHandlesKeepsStream ==
    ASSUME PagesInv, StreamInv, GuestHandles
    PROVE  /\ PagesInv' /\ StreamInv' /\ Stream # <<>> /\ Head(Stream) = Head(toGuest)
           /\ Stream' = Tail(Stream) /\ UNCHANGED <<host, toHub, history, polite>>
           /\ guest.role # "offline" /\ guest'.role # "offline"
<1>1. /\ toGuest # <<>> /\ toGuest' = Tail(toGuest) /\ polite' = polite
      /\ guest.role # "offline"
  BY DEF GuestHandles, StreamInv
<1>2. PICK q \in PageType, frames \in Seq(GuestFrame) :
          GuestBecomes(q, frames) /\ (q.role = guest.role \/ q.role = "guest")
  BY GuestHandlesCases
<1>3. guest' = q /\ UNCHANGED <<host, toHub, history>>
  BY <1>2 DEF GuestBecomes
<1>4. /\ Stream # <<>> /\ Head(Stream) = Head(toGuest) /\ Tail(Stream) = Tail(toGuest) \o toHub
      /\ Tail(toGuest) \in Seq(HostFrame \cup [type : {"JOIN_OK"}]) /\ Stream \in Seq(Frame)
  BY <1>1, StreamHead, StreamType
<1>5. Stream' = Tail(Stream)
  BY <1>1, <1>3, <1>4 DEF Stream
<1>6. q.role # "host" /\ q.role # "offline"
  BY <1>1, <1>2 DEF PagesInv
<1>7. PagesInv'
  <2>1. toGuest' \in Seq(Frame)
    BY <1>1, <1>4 DEF Frame
  <2> QED BY <2>1, <1>2, <1>6, GuestBecomesTyped
<1>8. StreamInv'
  <2> DEFINE S == Stream
             T == Tail(S)
  <2>1. /\ T \in Seq(Frame) /\ LeftOf(T, S)
    <3> HIDE DEF S
    <3>1. S \in Seq(Frame) /\ S # <<>>
      BY <1>4 DEF S
    <3> QED BY <3>1, TailLeft
  <2>2. (Ordered(S) => Ordered(T)) /\ \A i \in 1..Len(T) : \E j \in 1..Len(S) : T[i] = S[j]
    <3> HIDE DEF S, T
    <3>1. S \in Seq(Frame)
      BY <1>4 DEF S
    <3> QED BY <3>1, <2>1, LeftInOrder
  <2> HIDE DEF T
  <2>3. \A i \in 1..Len(T) : Tells(history, T[i])
    BY <2>2 DEF StreamInv
  <2>4. Ordered(T)
    BY <2>2 DEF StreamInv
  <2>5. Stream' = T
    BY <1>5 DEF T
  <2>6. guest'.role # "offline"
    BY <1>3, <1>6
  <2>7. \A i \in 1..Len(Stream') : Tells(history', Stream'[i])
    BY <2>3, <2>5, <1>3
  <2>8. Ordered(Stream')
    BY <2>4, <2>5
  <2> QED BY <2>6, <2>7, <2>8 DEF StreamInv
<1>9. guest'.role # "offline"
  BY <1>3, <1>6
<1> QED BY <1>1, <1>3, <1>4, <1>5, <1>7, <1>8, <1>9

\* What the guest's user does changes nothing that is under way.
LEMMA GuestEditsKeepStream ==
    ASSUME PagesInv, StreamInv, GuestEdits
    PROVE  /\ PagesInv' /\ StreamInv' /\ Stream' = Stream
           /\ UNCHANGED <<host, toHub, toGuest, history, polite>>
           /\ guest'.role = guest.role /\ guest'.rev = guest.rev /\ guest'.chunks = guest.chunks
<1>1. PICK q \in PageType, frames \in Seq(GuestFrame) :
          /\ GuestBecomes(q, frames)
          /\ q.role = guest.role /\ q.rev = guest.rev /\ q.chunks = guest.chunks
  BY GuestEditsTyped
<1>2. guest' = q /\ UNCHANGED <<host, toHub, history, toGuest, polite>>
  BY <1>1, GuestEditsTyped DEF GuestBecomes
<1>3. Stream' = Stream
  BY <1>2 DEF Stream
<1>4. PagesInv'
  <2>1. toGuest' \in Seq(Frame) /\ q.role # "host"
    BY <1>1, <1>2, StreamType DEF PagesInv
  <2> QED BY <2>1, <1>1, GuestBecomesTyped
<1>5. guest'.role = "offline" => toGuest' = <<>>
  BY <1>1, <1>2 DEF StreamInv
<1>6. \A i \in 1..Len(Stream') : Tells(history', Stream'[i])
  BY <1>2, <1>3 DEF StreamInv
<1>7. Ordered(Stream')
  BY <1>3 DEF StreamInv
<1>8. StreamInv'
  BY <1>5, <1>6, <1>7 DEF StreamInv
<1> QED BY <1>1, <1>2, <1>3, <1>4, <1>8

\* Whoever joins finds what is on its way from the host behind JOIN_OK.
LEMMA GuestJoinsKeepsStream ==
    ASSUME PagesInv, StreamInv, GuestJoins
    PROVE  /\ PagesInv' /\ StreamInv' /\ UNCHANGED <<host, toHub, history, polite>>
           /\ Stream' = <<[type |-> "JOIN_OK"]>> \o Stream
           /\ guest' = [guest EXCEPT !.role = "joining", !.rev = 0, !.last = guest.editor,
                                     !.chunks = NoChunks]
           /\ toHost' = toHost \o <<[type |-> "PEER_JOINED"]>>
           /\ follows' = IF AtRest(guest) THEN "waits" ELSE "no"
<1> DEFINE q == [guest EXCEPT !.role = "joining", !.rev = 0, !.last = guest.editor, !.chunks = NoChunks]
           j == [type |-> "JOIN_OK"]
           J == <<j>>
<1>1. /\ GuestBecomes(q, <<[type |-> "PEER_JOINED"]>>) /\ toGuest' = J /\ polite' = polite
      /\ guest.role = "offline" /\ follows' = IF AtRest(guest) THEN "waits" ELSE "no"
  BY DEF GuestJoins
<1>2. /\ guest' = q /\ toHost' = toHost \o <<[type |-> "PEER_JOINED"]>>
      /\ UNCHANGED <<host, toHub, history>>
  BY <1>1 DEF GuestBecomes
<1>3. q \in PageType /\ q.role = "joining"
  <2>1. <<>> \in Seq(Seq(Seq(Char)))
    OBVIOUS
  <2>2. NoChunks \in ChunksType
    BY <2>1 DEF NoChunks, ChunksType
  <2>3. guest \in PageType
    BY DEF PagesInv
  <2> QED BY <2>2, <2>3, PageFields DEF PageType
<1> HIDE DEF q
<1>4. j \in Frame /\ j.type = "JOIN_OK"
  BY DEF Frame
<1> HIDE DEF j
<1>5. J \in Seq(Frame) /\ Len(J) = 1 /\ J[1] = j
  <2> HIDE DEF Frame
  <2> QED BY <1>4
<1> HIDE DEF J
<1>6. PagesInv'
  <2>1. <<[type |-> "PEER_JOINED"]>> \in Seq(GuestFrame)
    <3>1. [type |-> "PEER_JOINED"] \in GuestFrame
      BY DEF GuestFrame
    <3> HIDE DEF GuestFrame
    <3> QED BY <3>1
  <2>2. toGuest' \in Seq(Frame) /\ q.role # "host"
    BY <1>1, <1>3, <1>5
  <2> QED BY <2>1, <2>2, <1>1, <1>3, GuestBecomesTyped
<1>7. toGuest = <<>> /\ toHub \in Seq(Frame) /\ Stream \in Seq(Frame)
  BY <1>1, StreamType DEF StreamInv
<1>8. Stream = toHub
  BY <1>7, ConcatEmptySeq DEF Stream
<1> DEFINE T == J \o Stream
           n == Len(Stream)
<1>9. Stream' = T
  BY <1>1, <1>2, <1>8 DEF Stream
<1>10. /\ Len(T) = 1 + n /\ n \in Nat
       /\ T[1] = j
       /\ \A i \in 1..n : T[1 + i] = Stream[i]
  <2> HIDE DEF T
  <2>1. /\ Len(J \o Stream) = Len(J) + Len(Stream) /\ Len(Stream) \in Nat
        /\ \A i \in 1..Len(J) : (J \o Stream)[i] = J[i]
        /\ \A i \in 1..Len(Stream) : (J \o Stream)[Len(J) + i] = Stream[i]
    <3>1. J \in Seq(Frame) /\ Stream \in Seq(Frame)
      BY <1>5, <1>7
    <3> HIDE DEF n
    <3> QED BY <3>1, ConcatAt
  <2>2. J \o Stream = T
    BY DEF T
  <2>3. 1 \in 1..1
    OBVIOUS
  <2> QED BY <2>1, <2>2, <2>3, <1>5
<1> HIDE DEF T
<1>11. ASSUME NEW i \in 1..Len(T), i # 1 PROVE i - 1 \in 1..n /\ T[i] = Stream[i - 1]
  <2> HIDE DEF n
  <2>1. i - 1 \in 1..n /\ 1 + (i - 1) = i
    BY <1>10, <1>11
  <2> QED BY <2>1, <1>10
<1>12. ASSUME NEW i \in 1..Len(T) PROVE Tells(history, T[i])
  <2>1. CASE i = 1
    BY <2>1, <1>4, <1>10 DEF Tells
  <2>2. CASE i # 1
    BY <2>2, <1>11 DEF StreamInv
  <2> QED BY <2>1, <2>2
<1>13. ASSUME NEW i \in 1..Len(T), NEW k \in 1..Len(T), i < k
       PROVE  T[k].type # "JOIN_OK" /\ (T[i].type # "JOIN_OK" => T[i].rev <= T[k].rev)
  <2>1. k # 1
    BY <1>13, <1>10
  <2>2. k - 1 \in 1..n /\ T[k] = Stream[k - 1]
    BY <2>1, <1>11
  <2>3. Stream[k - 1].type # "JOIN_OK"
    <3>1. \A x \in 1..Len(toHub) : toHub[x] \in HostFrame
      BY LenProperties DEF PagesInv
    <3>2. Stream[k - 1] \in HostFrame
      BY <3>1, <2>2, <1>8
    <3> QED BY <3>2 DEF HostFrame, DocumentChunk
  <2>4. CASE i = 1
    BY <2>2, <2>3, <2>4, <1>4, <1>10
  <2>5. CASE i # 1
    <3>1. i - 1 \in 1..n /\ T[i] = Stream[i - 1]
      BY <2>5, <1>11
    <3>2. i - 1 < k - 1
      BY <1>13, <1>10
    <3>3. Stream[i - 1].type # "JOIN_OK" => Stream[i - 1].rev <= Stream[k - 1].rev
      BY <3>1, <3>2, <2>2 DEF StreamInv, Ordered
    <3> QED BY <2>2, <2>3, <3>1, <3>3
  <2> QED BY <2>4, <2>5
<1>14. StreamInv'
  <2>1. \A i \in 1..Len(Stream') : Tells(history', Stream'[i])
    BY <1>2, <1>9, <1>12
  <2>2. Ordered(Stream')
    BY <1>9, <1>13 DEF Ordered
  <2>3. guest'.role # "offline"
    BY <1>2, <1>3
  <2> QED BY <2>1, <2>2, <2>3 DEF StreamInv
<1> QED BY <1>1, <1>2, <1>6, <1>9, <1>14 DEF q, T, J, j

\* A lost connection takes the frames that had reached the guest with it.
LEMMA GuestLosesKeepsStream ==
    ASSUME PagesInv, StreamInv, NEW kept \in 0..Len(toHost), GuestLoses(kept)
    PROVE  /\ PagesInv' /\ StreamInv' /\ UNCHANGED <<host, toHub, history, polite>>
           /\ guest' = [guest EXCEPT !.role = "offline", !.timer = FALSE] /\ follows' = "no"
<1>1. /\ guest' = [guest EXCEPT !.role = "offline", !.timer = FALSE] /\ follows' = "no"
      /\ toHost' = SubSeq(toHost, 1, kept) /\ toGuest' = <<>>
      /\ UNCHANGED <<host, toHub, history, polite>>
  BY DEF GuestLoses
<1>2. PagesInv'
  <2>1. SubSeq(toHost, 1, kept) \in Seq(GuestFrame)
    <3>1. toHost \in Seq(GuestFrame) /\ Len(toHost) \in Nat
      BY LenProperties DEF PagesInv
    <3>2. kept \in Nat /\ kept <= Len(toHost) /\ 1 \in Nat \ {0}
      BY <3>1
    <3> QED BY <3>1, <3>2, RangeSubSeq
  <2>2. guest' \in PageType /\ guest'.role # "host"
    <3> DEFINE q == [guest EXCEPT !.role = "offline", !.timer = FALSE]
    <3>1. q \in PageType /\ q.role # "host"
      BY DEF PagesInv, PageType
    <3> HIDE DEF q
    <3> QED BY <3>1, <1>1 DEF q
  <2>3. toGuest' \in Seq(HostFrame \cup [type : {"JOIN_OK"}])
    <3>1. <<>> \in Seq(HostFrame \cup [type : {"JOIN_OK"}])
      OBVIOUS
    <3> QED BY <3>1, <1>1
  <2> QED BY <2>1, <2>2, <2>3, <1>1 DEF PagesInv
<1> DEFINE n == Len(toGuest)
           l == Len(toHub)
           f == [i \in 1..l |-> n + i]
           T == toHub
<1>3. Stream' = T
  <2>1. toHub \in Seq(Frame)
    BY StreamType
  <2> QED BY <2>1, <1>1, ConcatEmptySeq DEF Stream
<1>4. /\ Stream \in Seq(Frame) /\ T \in Seq(Frame) /\ Len(Stream) = n + l /\ n \in Nat /\ l \in Nat
      /\ \A i \in 1..l : Stream[n + i] = T[i]
  BY StreamType
<1>5. LeftOf(T, Stream)
  <2> DEFINE S == Stream
  <2> HIDE DEF n, S
  <2>1. Len(S) = n + l /\ \A i \in 1..l : S[n + i] = T[i]
    BY <1>4 DEF S
  <2> HIDE DEF l
  <2>2. /\ \A i \in 1..l : f[i] = n + i /\ i \in Nat
        /\ f \in [1..l -> 1..Len(S)]
    BY <1>4, <2>1
  <2> HIDE DEF f
  <2>3. \A i, k \in 1..l : i < k => f[i] < f[k]
    BY <1>4, <2>2
  <2>4. \A i \in 1..l : T[i] = S[f[i]]
    BY <2>1, <2>2
  <2> QED BY <2>2, <2>3, <2>4 DEF LeftOf, l, S
<1> HIDE DEF f
<1>6. (Ordered(Stream) => Ordered(T)) /\ \A i \in 1..Len(T) : \E k \in 1..Len(Stream) : T[i] = Stream[k]
  <2> HIDE DEF T
  <2> QED BY <1>4, <1>5, LeftInOrder
<1>7. StreamInv'
  <2> HIDE DEF T
  <2>1. \A i \in 1..Len(Stream') : Tells(history', Stream'[i])
    BY <1>1, <1>3, <1>6 DEF StreamInv
  <2>2. Ordered(Stream')
    BY <1>3, <1>6 DEF StreamInv
  <2> QED BY <2>1, <2>2, <1>1 DEF StreamInv
<1> QED BY <1>1, <1>2, <1>7

\* At first nothing is under way.
LEMMA InitStream == Init => PagesInv /\ StreamInv
<1> SUFFICES ASSUME Init PROVE PagesInv /\ StreamInv
  OBVIOUS
<1>1. PICK text \in HostTexts : host = Page("host", text) /\ history = <<text>>
  BY DEF Init
<1>2. PICK other \in GuestTexts : guest = Page("offline", other)
  BY DEF Init
<1>3. text \in Seq(Char) /\ other \in Seq(Char)
  BY RelayPagesAssumption, TextIsSeq
<1>4. \A t \in Seq(Char), role \in {"host", "offline"} :
          /\ Page(role, t) \in PageType
          /\ Page(role, t).role = role /\ Page(role, t).rev = 0 /\ Page(role, t).last = t
  <2>1. <<>> \in Seq(Seq(Seq(Char))) /\ <<>> \in Seq(Seq(Char))
    OBVIOUS
  <2>2. NoChunks \in ChunksType
    BY <2>1 DEF NoChunks, ChunksType
  <2> QED BY <2>1, <2>2 DEF Page, PageType
<1>5. history \in Seq(Seq(Char)) /\ Len(history) = 0 + 1 /\ history[0 + 1] = text
  <2> HIDE DEF Init
  <2> QED BY <1>1, <1>3
<1>6. toGuest = <<>> /\ toHub = <<>> /\ toHost = <<>>
  BY DEF Init
<1>7. /\ <<>> \in Seq(HostFrame) /\ <<>> \in Seq(GuestFrame)
      /\ <<>> \in Seq(HostFrame \cup [type : {"JOIN_OK"}])
  OBVIOUS
<1>8. PagesInv
  BY <1>1, <1>2, <1>3, <1>4, <1>5, <1>6, <1>7 DEF PagesInv
<1>9. Len(Stream) = 0
  BY <1>6, <1>8, StreamType, EmptySeq
<1>10. \A i \in 1..Len(Stream) : FALSE
  BY <1>9
<1>11. StreamInv
  BY <1>6, <1>10 DEF StreamInv, Ordered
<1> QED BY <1>8, <1>11

\* What the host's user does.
HostEdits == (\E text \in TypedTexts : HostTypes(text)) \/ HostComposes \/ HostSaves \/ HostGoesOn

\* The steps of the host, of the relay and of the guest.
LEMMA NextCases ==
    ASSUME Next
    PROVE  \/ HostEdits \/ HostHandles \/ HubRelays
           \/ GuestEdits \/ GuestHandles \/ GuestJoins
           \/ \E kept \in 0..Len(toHost) : GuestLoses(kept)
BY DEF Next, HostEdits, GuestEdits

\* The host tells its history, whatever it does.
LEMMA HostStepsKeepStream ==
    ASSUME PagesInv, StreamInv, HostEdits \/ HostHandles
    PROVE  PagesInv' /\ StreamInv'
<1>1. CASE HostEdits
  <2>1. PICK q, frames, texts :
            HostBecomes(q, frames, texts) /\ Says(q, frames, texts) /\ Operates(frames, texts)
    BY <1>1, HostEditsSays DEF HostEdits
  <2>2. toHost' \in Seq(GuestFrame)
    BY <1>1, HostEditsSays DEF HostEdits, PagesInv
  <2> QED BY <2>1, <2>2, HostKeepsStream
<1>2. CASE HostHandles
  <2>1. PICK q, frames, texts :
            /\ HostBecomes(q, frames, texts) /\ Says(q, frames, texts)
            /\ Operates(frames, texts) \/ Answers(q, frames) \/ PassesOn(frames)
    BY <1>2, HostHandlesSays
  <2>2. toHost' \in Seq(GuestFrame)
    <3>1. toHost # <<>> /\ toHost' = Tail(toHost) /\ toHost \in Seq(GuestFrame)
      BY <1>2, HostHandlesSays DEF PagesInv
    <3> QED BY <3>1, HeadTailProperties
  <2> QED BY <2>1, <2>2, HostKeepsStream
<1> QED BY <1>1, <1>2

\* So every step leaves the stream true and in order.
LEMMA NextKeepsStream ==
    ASSUME PagesInv, StreamInv, [Next]_vars
    PROVE  PagesInv' /\ StreamInv'
<1>1. CASE Next
  <2>1. CASE HostEdits \/ HostHandles
    BY <2>1, HostStepsKeepStream
  <2>2. CASE HubRelays
    BY <2>2, HubKeepsStream
  <2>3. CASE GuestEdits
    BY <2>3, GuestEditsKeepStream
  <2>4. CASE GuestHandles
    BY <2>4, GuestHandlesKeepsStream
  <2>5. CASE GuestJoins
    BY <2>5, GuestJoinsKeepsStream
  <2>6. ASSUME NEW kept \in 0..Len(toHost), GuestLoses(kept) PROVE PagesInv' /\ StreamInv'
    BY <2>6, GuestLosesKeepsStream
  <2> QED BY <1>1, <2>1, <2>2, <2>3, <2>4, <2>5, <2>6, NextCases
<1>2. CASE UNCHANGED vars
  <2>1. UNCHANGED <<host, guest, toHub, toGuest, toHost, history>>
    BY <1>2 DEF vars, channels
  <2>2. Stream' = Stream
    BY <2>1 DEF Stream
  <2> QED BY <2>1, <2>2 DEF PagesInv, StreamInv
<1> QED BY <1>1, <1>2

\* A true stream tells the history.
LEMMA StreamIsHistory == PagesInv /\ StreamInv => StreamTellsHistory
<1> SUFFICES ASSUME PagesInv, StreamInv PROVE StreamTellsHistory
  OBVIOUS
<1>1. host.rev \in Nat /\ Len(history) = host.rev + 1 /\ host.last = history[host.rev + 1]
  BY PageFields DEF PagesInv
<1>2. /\ Len(Stream) = Len(toGuest) + Len(toHub) /\ Len(toGuest) \in Nat /\ Len(toHub) \in Nat
      /\ \A i \in 1..Len(toGuest) : Stream[i] = toGuest[i]
      /\ \A i \in 1..Len(toHub) : Stream[Len(toGuest) + i] = toHub[i]
  BY StreamType
<1>3. ASSUME NEW channel \in {toHub, toGuest}, NEW k \in 1..Len(channel)
      PROVE  Tells(history, channel[k])
  <2>1. CASE channel = toGuest
    <3>1. k \in 1..Len(Stream)
      BY <2>1, <1>2
    <3> QED BY <2>1, <3>1, <1>2 DEF StreamInv
  <2>2. CASE channel = toHub
    <3>1. Len(toGuest) + k \in 1..Len(Stream)
      BY <2>2, <1>2
    <3> QED BY <2>2, <3>1, <1>2 DEF StreamInv
  <2> QED BY <2>1, <2>2
<1> QED BY <1>1, <1>3 DEF StreamTellsHistory, Tells

\* What the host sends is its history and nothing else: every APPLY under way leads from
\* the revision before it to its own, every part of a synchronisation is a part of the
\* document of its revision, and the newest revision is relayLastText.
THEOREM StreamTells == Spec => []StreamTellsHistory
<1>1. Init => PagesInv /\ StreamInv
  BY InitStream
<1>2. (PagesInv /\ StreamInv) /\ [Next]_vars => (PagesInv /\ StreamInv)'
  BY NextKeepsStream
<1> QED BY <1>1, <1>2, StreamIsHistory, PTL DEF Spec

-----------------------------------------------------------------------------
(* What the guest has got already is not newer than what is under way to it. *)

\* The page p, with the history h and the stream S: what it holds of a document is of the
\* document of that revision.
Held(p, h, S) ==
    /\ p.rev + 1 <= Len(h) /\ p.chunks.rev + 1 <= Len(h)
    /\ \A i \in 1..Len(S) :
          S[i].type # "JOIN_OK" => p.rev <= S[i].rev /\ p.chunks.rev <= S[i].rev
    /\ p.chunks.parts # <<>> => Len(p.chunks.parts) = Count(h[p.chunks.rev + 1])
    /\ \A k \in 1..Len(p.chunks.parts) :
          p.chunks.parts[k] # <<>> => p.chunks.parts[k] = <<Chunk(h[p.chunks.rev + 1], k)>>

HeldInv == guest.role # "offline" => Held(guest, history, Stream)

\* What the page holds stays that when the host tells more,
LEMMA HeldLonger ==
    ASSUME NEW p \in PageType, NEW h \in Seq(Seq(Char)), NEW texts \in Seq(Seq(Char)),
           NEW S \in Seq(Frame), NEW frames \in Seq(Frame), Held(p, h, S),
           \A k \in 1..Len(frames) : Len(h) <= frames[k].rev + 1 /\ frames[k].rev \in Nat
    PROVE  Held(p, h \o texts, S \o frames)
<1> DEFINE g == h \o texts
           T == S \o frames
           rev == p.rev
           got == p.chunks.rev
           parts == p.chunks.parts
<1>1. rev \in Nat /\ got \in Nat
  BY PageFields DEF ChunksType
<1>2. /\ Len(g) = Len(h) + Len(texts) /\ Len(h) \in Nat /\ Len(texts) \in Nat
      /\ \A i \in 1..Len(h) : g[i] = h[i]
  BY ConcatAt
<1>3. /\ Len(T) = Len(S) + Len(frames) /\ Len(S) \in Nat /\ Len(frames) \in Nat
      /\ \A i \in 1..Len(S) : T[i] = S[i]
      /\ \A i \in 1..Len(frames) : T[Len(S) + i] = frames[i]
  BY ConcatAt
<1>4. /\ rev + 1 <= Len(h) /\ got + 1 <= Len(h)
      /\ \A i \in 1..Len(S) : S[i].type # "JOIN_OK" => rev <= S[i].rev /\ got <= S[i].rev
      /\ parts # <<>> => Len(parts) = Count(h[got + 1])
      /\ \A k \in 1..Len(parts) : parts[k] # <<>> => parts[k] = <<Chunk(h[got + 1], k)>>
  BY DEF Held
<1> HIDE DEF g, T, rev, got, parts
<1>5. got + 1 \in 1..Len(h) /\ rev + 1 <= Len(g) /\ got + 1 <= Len(g)
  BY <1>1, <1>2, <1>4
<1>6. g[got + 1] = h[got + 1]
  BY <1>2, <1>5
<1>7. ASSUME NEW i \in 1..Len(T), T[i].type # "JOIN_OK" PROVE rev <= T[i].rev /\ got <= T[i].rev
  <2>1. CASE i \in 1..Len(S)
    BY <2>1, <1>3, <1>4, <1>7
  <2>2. CASE i \notin 1..Len(S)
    <3> DEFINE n == Len(S)
               l == Len(frames)
    <3>1. i \in 1..n + l /\ i \notin 1..n /\ n \in Nat /\ l \in Nat
      BY <2>2, <1>3
    <3> HIDE DEF n, l
    <3>2. i - n \in 1..l /\ n + (i - n) = i
      BY <3>1
    <3>3. T[i] = frames[i - n] /\ Len(h) <= frames[i - n].rev + 1 /\ frames[i - n].rev \in Nat
      BY <3>2, <1>3 DEF n, l
    <3> DEFINE r == frames[i - n].rev
    <3>4. Len(h) <= r + 1 /\ r \in Nat
      BY <3>3
    <3> HIDE DEF r
    <3>5. rev <= r /\ got <= r
      BY <3>4, <1>1, <1>2, <1>4
    <3> QED BY <3>3, <3>5 DEF r
  <2> QED BY <2>1, <2>2
<1> QED BY <1>4, <1>5, <1>6, <1>7 DEF Held, g, T, rev, got, parts

\* and when frames are taken out of the stream.
LEMMA HeldLeft ==
    ASSUME NEW p, NEW h, NEW S \in Seq(Frame), NEW T \in Seq(Frame), LeftOf(T, S), Held(p, h, S)
    PROVE  Held(p, h, T)
<1>1. \A i \in 1..Len(T) : \E j \in 1..Len(S) : T[i] = S[j]
  BY LeftInOrder
<1> QED BY <1>1 DEF Held

\* All chunks of the document of that revision make the document.
LEMMA HeldCompletes ==
    ASSUME PagesInv, Held(guest, history, Stream),
           NEW m, m \in DocumentChunk("SYNC_RESPONSE"), Tells(history, m)
    PROVE  /\ m.rev + 1 \in 1..Len(history) /\ m.count = Count(history[m.rev + 1])
           /\ Len(Collected(guest, m).parts) = Count(history[m.rev + 1])
           /\ \A k \in 1..m.count :
                 Collected(guest, m).parts[k] # <<>> =>
                     Collected(guest, m).parts[k] = <<Chunk(history[m.rev + 1], k)>>
           /\ Complete(Collected(guest, m)) => Joined(Collected(guest, m)) = history[m.rev + 1]
<1> DEFINE text == history[m.rev + 1]
           rev  == m.rev
           c    == Collected(guest, m)
           held == guest.chunks
<1>1. /\ m.type = "SYNC_RESPONSE" /\ rev \in Nat /\ m.index \in Nat \ {0} /\ m.count \in Nat \ {0}
      /\ m.index <= m.count
  BY DEF DocumentChunk
<1>2. /\ rev + 1 \in 1..Len(history) /\ m.index \in 1..Count(text)
      /\ m = Parts("SYNC_RESPONSE", rev, text)[m.index]
  BY <1>1 DEF Tells
<1>3. text \in Seq(Char)
  BY <1>2, LenProperties DEF PagesInv
<1>4. guest \in PageType
  BY DEF PagesInv
<1> HIDE DEF text, rev
<1>5. m.count = Count(text) /\ m.text = Chunk(text, m.index)
  <2>1. Parts("SYNC_RESPONSE", rev, text)[m.index]
           = [type |-> "SYNC_RESPONSE", rev |-> rev, index |-> m.index, count |-> Count(text),
              text |-> Chunk(text, m.index)]
    BY <1>1, <1>2, <1>3, PartsType
  <2> QED BY <1>2, <2>1
<1>6. /\ Len(c.parts) = m.count
      /\ \A k \in 1..m.count :
            c.parts[k] = IF k = m.index THEN <<m.text>>
                         ELSE IF held.rev = m.rev /\ Len(held.parts) = m.count
                           THEN held.parts[k] ELSE <<>>
  BY <1>4, CollectedType
<1>7. ASSUME NEW k \in 1..m.count, c.parts[k] # <<>> PROVE c.parts[k] = <<Chunk(text, k)>>
  <2>1. CASE k = m.index
    BY <2>1, <1>5, <1>6
  <2>2. CASE k # m.index
    <3>1. c.parts[k] = held.parts[k] /\ held.rev = m.rev /\ Len(held.parts) = m.count
      BY <2>2, <1>6, <1>7
    <3>2. k \in 1..Len(held.parts) /\ held.parts[k] # <<>>
      BY <3>1, <1>7
    <3>3. held.parts[k] = <<Chunk(history[held.rev + 1], k)>>
      BY <3>2 DEF Held
    <3> QED BY <3>1, <3>3 DEF text, rev
  <2> QED BY <2>1, <2>2
<1> HIDE DEF c
<1>8. ASSUME Complete(c) PROVE Joined(c) = text
  <2>1. \A k \in 1..Count(text) : c.parts[k] = <<Chunk(text, k)>>
    BY <1>5, <1>6, <1>7, <1>8 DEF Complete
  <2>2. Len(c.parts) = Count(text)
    BY <1>5, <1>6
  <2> QED BY <2>1, <2>2, <1>3, JoinedParts
<1> QED BY <1>2, <1>5, <1>6, <1>7, <1>8 DEF text, rev, c

\* Nothing behind the first frame is older.
LEMMA HeadFirst ==
    ASSUME NEW S \in Seq(Frame), S # <<>>, Ordered(S), NEW i \in 1..Len(Tail(S))
    PROVE  /\ Tail(S)[i].type # "JOIN_OK"
           /\ Head(S).type # "JOIN_OK" => Head(S).rev <= Tail(S)[i].rev
<1> DEFINE T == Tail(S)
<1>1. /\ Len(S) \in Nat \ {0} /\ Len(T) = Len(S) - 1 /\ Head(S) = S[1]
      /\ \A k \in 1..Len(S) - 1 : T[k] = S[k + 1]
  BY TailLeft
<1>2. i \in 1..Len(T)
  OBVIOUS
<1> HIDE DEF T
<1>3. i \in 1..Len(S) - 1 /\ 1 \in 1..Len(S) /\ i + 1 \in 1..Len(S) /\ 1 < i + 1
  BY <1>1, <1>2
<1>4. T[i] = S[i + 1]
  BY <1>1, <1>3
<1> QED BY <1>1, <1>3, <1>4 DEF Ordered, T

\* The guest takes over a revision that nothing under way is older than.
LEMMA HeldHandles ==
    ASSUME PagesInv, StreamInv, HeldInv, GuestHandles
    PROVE  HeldInv'
<1> DEFINE m == Head(toGuest)
           T == Tail(Stream)
           h == history
<1>1. /\ Stream # <<>> /\ Head(Stream) = m /\ Stream' = T
      /\ history' = h /\ guest.role # "offline"
  BY GuestHandlesKeepsStream
<1>2. /\ Stream \in Seq(Frame) /\ Ordered(Stream)
  BY StreamType DEF StreamInv
<1>3. /\ T \in Seq(Frame) /\ LeftOf(T, Stream) /\ Len(Stream) \in Nat \ {0} /\ Head(Stream) = Stream[1]
  <2> DEFINE S == Stream
  <2> HIDE DEF S
  <2>1. S \in Seq(Frame) /\ S # <<>>
    BY <1>1, <1>2 DEF S
  <2>2. /\ Tail(S) \in Seq(Frame) /\ LeftOf(Tail(S), S) /\ Len(S) \in Nat \ {0} /\ Head(S) = S[1]
    BY <2>1, TailLeft
  <2> QED BY <2>2 DEF S
<1>4. Held(guest, h, Stream)
  BY <1>1 DEF HeldInv
<1>5. Held(guest, h, T)
  <2> HIDE DEF T
  <2> QED BY <1>2, <1>3, <1>4, HeldLeft
<1>6. Tells(h, m)
  <2>1. 1 \in 1..Len(Stream)
    BY <1>3
  <2> QED BY <2>1, <1>1, <1>3 DEF StreamInv
<1>7. \A i \in 1..Len(T) : T[i].type # "JOIN_OK" /\ (m.type # "JOIN_OK" => m.rev <= T[i].rev)
  <2> DEFINE S == Stream
  <2>0. S \in Seq(Frame) /\ S # <<>> /\ Ordered(S) /\ Head(S) = m /\ T = Tail(S)
    BY <1>1, <1>2
  <2> HIDE DEF S, m, T
  <2> QED BY <2>0, HeadFirst
<1>8. PICK q \in PageType, frames \in Seq(GuestFrame) :
        /\ GuestBecomes(q, frames)
        /\ \/ /\ m.type = "JOIN_OK"
              /\ q = [guest EXCEPT !.role = "guest", !.rev = 0, !.last = guest.editor]
           \/ /\ m.type = "SYNC_RESPONSE" /\ Complete(Collected(guest, m))
              /\ q = Synchronised(guest, m)
           \/ /\ m.type = "SYNC_RESPONSE" /\ ~Complete(Collected(guest, m))
              /\ q = [guest EXCEPT !.chunks = Collected(guest, m)]
           \/ /\ m.type = "APPLY" /\ q = guest
           \/ /\ m.type = "APPLY" /\ q = [guest EXCEPT !.rev = m.rev, !.last = guest.editor]
           \/ /\ m.type = "APPLY" /\ Fits(guest.editor, m.op) /\ q = Followed(guest, m)
  BY GuestHandlesCases
<1>9. guest' = q
  BY <1>8 DEF GuestBecomes
<1>10. /\ guest \in PageType /\ h \in Seq(Seq(Char)) /\ Len(h) \in Nat \ {0}
       /\ guest.rev \in Nat /\ m \in Frame
  <2>1. h \in Seq(Seq(Char)) /\ Len(h) = host.rev + 1 /\ host.rev \in Nat /\ guest \in PageType
    BY PageFields DEF PagesInv
  <2>2. m \in Frame
    BY GuestHandlesCases
  <2>3. guest.rev \in Nat
    BY <2>1, PageFields
  <2>4. Len(h) \in Nat \ {0}
    BY <2>1
  <2> QED BY <2>1, <2>2, <2>3, <2>4
<1>11. /\ m.type # "JOIN_OK" => m.rev \in Nat
       /\ m.type = "APPLY" => m.op \in Operation
       /\ m.type = "SYNC_RESPONSE" => m \in DocumentChunk("SYNC_RESPONSE")
  BY <1>10, FrameFields
<1> HIDE DEF m, T
<1>12. Held(q, h, T)
  <2>1. CASE q = [guest EXCEPT !.role = "guest", !.rev = 0, !.last = guest.editor]
    <3>1. q.rev = 0 /\ q.chunks = guest.chunks
      BY <2>1, <1>10 DEF PageType
    <3>2. \A i \in 1..Len(T) : T[i].type # "JOIN_OK" => T[i].rev \in Nat
      BY <1>3, LenProperties, FrameFields
    <3>3. \A n \in Nat : 0 <= n
      OBVIOUS
    <3>4. 0 + 1 <= Len(h)
      BY <1>10
    <3> QED BY <1>5, <3>1, <3>2, <3>3, <3>4 DEF Held
  <2>2. CASE m.type = "SYNC_RESPONSE" /\ Complete(Collected(guest, m)) /\ q = Synchronised(guest, m)
    <3>1. q.rev = m.rev /\ q.chunks.rev = m.rev /\ q.chunks.parts = <<>>
      BY <2>2, <1>10, <1>11, SynchronisedType
    <3>2. m.rev + 1 <= Len(h)
      <4>1. m.rev + 1 \in 1..Len(h) /\ m.rev \in Nat
        BY <2>2, <1>6, <1>11 DEF Tells
      <4> QED BY <4>1, <1>10
    <3>3. \A i \in 1..Len(T) : m.rev <= T[i].rev
      BY <2>2, <1>7
    <3>4. \A i \in 1..Len(<<>>) : FALSE
      OBVIOUS
    <3> QED BY <3>1, <3>2, <3>3, <3>4 DEF Held
  <2>3. CASE m.type = "SYNC_RESPONSE" /\ q = [guest EXCEPT !.chunks = Collected(guest, m)]
    <3> DEFINE c == Collected(guest, m)
    <3>1. q.rev = guest.rev /\ q.chunks = c
      BY <2>3, <1>10 DEF PageType
    <3>2. m \in DocumentChunk("SYNC_RESPONSE")
      BY <2>3, <1>11
    <3>3. c \in ChunksType /\ c.rev = m.rev /\ Len(c.parts) = m.count
      BY <3>2, <1>10, CollectedType
    <3>4. /\ m.rev + 1 \in 1..Len(h) /\ m.count = Count(h[m.rev + 1])
          /\ \A k \in 1..m.count : c.parts[k] # <<>> => c.parts[k] = <<Chunk(h[m.rev + 1], k)>>
      BY <3>2, <1>4, <1>6, HeldCompletes
    <3> HIDE DEF c
    <3>5. m.rev + 1 <= Len(h)
      BY <3>4, <1>10
    <3>6. \A i \in 1..Len(T) : m.rev <= T[i].rev
      BY <2>3, <1>7
    <3> QED BY <3>1, <3>3, <3>4, <3>5, <3>6, <1>5 DEF Held
  <2>4. CASE q = guest
    BY <2>4, <1>5
  <2>5. CASE m.type = "APPLY" /\ q.rev = m.rev /\ q.chunks = guest.chunks
    <3>1. m.rev + 1 <= Len(h)
      <4>1. m.rev \in 1..Len(h) - 1 /\ m.rev \in Nat
        BY <2>5, <1>6, <1>11 DEF Tells
      <4> QED BY <4>1, <1>10
    <3>2. \A i \in 1..Len(T) : m.rev <= T[i].rev
      BY <2>5, <1>7
    <3> QED BY <2>5, <3>1, <3>2, <1>5 DEF Held
  <2>6. CASE m.type = "APPLY" /\ q = [guest EXCEPT !.rev = m.rev, !.last = guest.editor]
    <3>1. q.rev = m.rev /\ q.chunks = guest.chunks
      BY <2>6, <1>10 DEF PageType
    <3> QED BY <2>5, <2>6, <3>1
  <2>7. CASE m.type = "APPLY" /\ Fits(guest.editor, m.op) /\ q = Followed(guest, m)
    <3>1. q.rev = m.rev /\ q.chunks = guest.chunks
      BY <2>7, <1>10, <1>11, FollowedType
    <3> QED BY <2>5, <2>7, <3>1
  <2> QED BY <1>8, <2>1, <2>2, <2>3, <2>4, <2>6, <2>7
<1> QED BY <1>1, <1>9, <1>12 DEF HeldInv

\* The host's steps leave what the guest holds as it is.
LEMMA HeldHostSteps ==
    ASSUME PagesInv, StreamInv, HeldInv, NEW q, NEW frames, NEW texts,
           HostBecomes(q, frames, texts), Says(q, frames, texts),
           Operates(frames, texts) \/ Answers(q, frames) \/ PassesOn(frames),
           Stream' = Stream \o frames
    PROVE  HeldInv'
<1>1. guest' = guest /\ history' = history \o texts
  BY DEF HostBecomes
<1>2. frames \in Seq(HostFrame) /\ texts \in Seq(Seq(Char))
  BY DEF Says
<1>3. HostFrame \subseteq Frame /\ \A m \in HostFrame : m.rev \in Nat
  BY DEF Frame, HostFrame, DocumentChunk
<1>4. frames \in Seq(Frame) /\ \A k \in 1..Len(frames) : frames[k].rev \in Nat
  <2>1. Len(frames) \in Nat /\ frames \in [1..Len(frames) -> HostFrame]
    BY <1>2, LenProperties
  <2>2. frames \in [1..Len(frames) -> Frame]
    BY <2>1, <1>3
  <2>3. frames \in Seq(Frame)
    BY <2>1, <2>2, SeqDef
  <2> QED BY <2>1, <2>3, <1>3
<1>5. \A k \in 1..Len(frames) : Len(history) <= frames[k].rev + 1
  <2>1. \A k \in 1..Len(frames) : host.rev <= frames[k].rev
    BY SaidRevisions
  <2>2. Len(history) = host.rev + 1 /\ host.rev \in Nat
    BY PageFields DEF PagesInv
  <2>3. \A x, y \in Nat : x <= y => x + 1 <= y + 1
    OBVIOUS
  <2> QED BY <2>1, <2>2, <2>3, <1>4
<1>6. guest \in PageType /\ history \in Seq(Seq(Char)) /\ Stream \in Seq(Frame)
  BY StreamType DEF PagesInv
<1>7. ASSUME guest.role # "offline" PROVE Held(guest, history \o texts, Stream \o frames)
  <2>1. Held(guest, history, Stream)
    BY <1>7 DEF HeldInv
  <2> QED BY <2>1, <1>2, <1>4, <1>5, <1>6, HeldLonger
<1> QED BY <1>1, <1>7 DEF HeldInv

\* Whoever joins holds nothing yet.
LEMMA HeldJoins ==
    ASSUME PagesInv, StreamInv, GuestJoins
    PROVE  HeldInv'
<1>1. /\ PagesInv' /\ StreamInv' /\ history' = history
      /\ guest' = [guest EXCEPT !.role = "joining", !.rev = 0, !.last = guest.editor,
                                !.chunks = NoChunks]
  BY GuestJoinsKeepsStream
<1>2. guest'.rev = 0 /\ guest'.chunks = NoChunks
  <2>1. guest \in PageType
    BY DEF PagesInv
  <2> QED BY <2>1, <1>1 DEF PageType
<1>3. Len(history') = host'.rev + 1 /\ host'.rev \in Nat /\ Stream' \in Seq(Frame)
  <2>1. Len(history') = host'.rev + 1 /\ host' \in PageType
    BY <1>1 DEF PagesInv
  <2>2. host'.rev \in Nat
    BY <2>1, PageFields
  <2>3. Stream' \in Seq(Frame)
    <3>1. Stream' = <<[type |-> "JOIN_OK"]>> \o Stream /\ Stream \in Seq(Frame)
      BY GuestJoinsKeepsStream, StreamType
    <3>2. [type |-> "JOIN_OK"] \in Frame
      BY DEF Frame
    <3> HIDE DEF Frame
    <3>3. <<[type |-> "JOIN_OK"]>> \in Seq(Frame)
      BY <3>2
    <3> QED BY <3>1, <3>3, ConcatProperties
  <2> QED BY <2>1, <2>2, <2>3
<1>4. 0 + 1 <= Len(history')
  BY <1>3
<1> DEFINE T == Stream'
           g == history'
<1>5. T \in Seq(Frame)
  BY <1>3
<1> HIDE DEF T, g
<1>6. \A i \in 1..Len(T) : T[i].type # "JOIN_OK" => T[i].rev \in Nat
  BY <1>5, LenProperties, FrameFields
<1>7. \A n \in Nat : 0 <= n
  OBVIOUS
<1>8. \A k \in 1..Len(<<>>) : FALSE
  OBVIOUS
<1>9. \A i \in 1..Len(T) : T[i].type # "JOIN_OK" => 0 <= T[i].rev
  BY <1>6, <1>7
<1>10. Held(guest', g, T)
  BY <1>2, <1>4, <1>8, <1>9 DEF Held, NoChunks, g
<1> QED BY <1>10 DEF HeldInv, T, g

\* A step of the host puts what it tells behind what is under way.
LEMMA HostStepSays ==
    ASSUME PagesInv, StreamInv, HostEdits \/ HostHandles
    PROVE  \E q, frames, texts :
               /\ HostBecomes(q, frames, texts) /\ Says(q, frames, texts)
               /\ Operates(frames, texts) \/ Answers(q, frames) \/ PassesOn(frames)
               /\ HostEdits => Operates(frames, texts)
               /\ HostHandles /\ Head(toHost).type \in {"PEER_JOINED", "SYNC_REQUEST"}
                      => Answers(q, frames)
               /\ Stream' = Stream \o frames
<1>1. CASE HostEdits
  <2>1. PICK q, frames, texts :
            HostBecomes(q, frames, texts) /\ Says(q, frames, texts) /\ Operates(frames, texts)
    BY <1>1, HostEditsSays DEF HostEdits
  <2>2. toHost' \in Seq(GuestFrame) /\ toHost' = toHost
    BY <1>1, HostEditsSays DEF HostEdits, PagesInv
  <2>3. Stream' = Stream \o frames
    BY <2>1, <2>2, HostKeepsStream
  <2>4. ~(HostHandles /\ toHost' = toHost)
    <3>1. HostHandles => toHost # <<>> /\ toHost' = Tail(toHost)
      BY DEF HostHandles
    <3>2. toHost \in Seq(GuestFrame)
      BY DEF PagesInv
    <3>3. toHost # <<>> => Tail(toHost) # toHost
      <4>1. toHost # <<>> => Len(Tail(toHost)) = Len(toHost) - 1 /\ Len(toHost) \in Nat
        BY <3>2, HeadTailProperties, LenProperties
      <4> QED BY <4>1
    <3> QED BY <3>1, <3>3
  <2> QED BY <1>1, <2>1, <2>2, <2>3, <2>4
<1>2. CASE HostHandles /\ ~HostEdits
  <2>1. PICK q, frames, texts :
            /\ HostBecomes(q, frames, texts) /\ Says(q, frames, texts)
            /\ Operates(frames, texts) \/ Answers(q, frames) \/ PassesOn(frames)
            /\ Head(toHost).type \in {"PEER_JOINED", "SYNC_REQUEST"} => Answers(q, frames)
    BY <1>2, HostHandlesSays
  <2>2. toHost' \in Seq(GuestFrame)
    <3>1. toHost # <<>> /\ toHost' = Tail(toHost) /\ toHost \in Seq(GuestFrame)
      BY <1>2, HostHandlesSays DEF PagesInv
    <3> QED BY <3>1, HeadTailProperties
  <2>3. Stream' = Stream \o frames
    BY <2>1, <2>2, HostKeepsStream
  <2> QED BY <1>2, <2>1, <2>3
<1> QED BY <1>1, <1>2

\* So no step makes what the guest holds newer than the stream.
LEMMA NextKeepsHeld ==
    ASSUME PagesInv, StreamInv, HeldInv, [Next]_vars
    PROVE  HeldInv'
<1>1. CASE Next
  <2>1. CASE HostEdits \/ HostHandles
    <3>1. PICK q, frames, texts :
               /\ HostBecomes(q, frames, texts) /\ Says(q, frames, texts)
               /\ Operates(frames, texts) \/ Answers(q, frames) \/ PassesOn(frames)
               /\ Stream' = Stream \o frames
      BY <2>1, HostStepSays
    <3> QED BY <3>1, HeldHostSteps
  <2>2. CASE HubRelays
    <3>1. /\ UNCHANGED <<guest, history>> /\ PagesInv'
          /\ Stream' = Stream \/ LeftOf(Stream', Stream)
      BY <2>2, HubKeepsStream
    <3>2. CASE Stream' = Stream
      BY <3>1, <3>2 DEF HeldInv
    <3>3. CASE LeftOf(Stream', Stream)
      <4>1. Stream \in Seq(Frame)
        BY StreamType
      <4>2. Stream' \in Seq(Frame)
        <5>1. toHub' \in Seq(HostFrame) /\ toGuest' \in Seq(Frame)
          BY <3>1 DEF PagesInv, Frame
        <5>2. HostFrame \subseteq Frame
          BY DEF Frame
        <5>3. Len(toHub') \in Nat /\ toHub' \in [1..Len(toHub') -> HostFrame]
          BY <5>1, LenProperties
        <5>4. toHub' \in [1..Len(toHub') -> Frame]
          BY <5>2, <5>3
        <5>5. toHub' \in Seq(Frame)
          BY <5>3, <5>4, SeqDef
        <5> QED BY <5>1, <5>5, ConcatProperties DEF Stream
      <4>3. ASSUME guest.role # "offline" PROVE Held(guest, history, Stream')
        BY <3>3, <4>1, <4>2, <4>3, HeldLeft DEF HeldInv
      <4> QED BY <3>1, <4>3 DEF HeldInv
    <3> QED BY <3>1, <3>2, <3>3
  <2>3. CASE GuestEdits
    <3>1. /\ Stream' = Stream /\ history' = history
          /\ guest'.role = guest.role /\ guest'.rev = guest.rev /\ guest'.chunks = guest.chunks
      BY <2>3, GuestEditsKeepStream
    <3> QED BY <3>1 DEF HeldInv, Held
  <2>4. CASE GuestHandles
    BY <2>4, HeldHandles
  <2>5. CASE GuestJoins
    BY <2>5, HeldJoins
  <2>6. ASSUME NEW kept \in 0..Len(toHost), GuestLoses(kept) PROVE HeldInv'
    <3>1. guest' = [guest EXCEPT !.role = "offline", !.timer = FALSE] /\ guest \in PageType
      BY <2>6 DEF GuestLoses, PagesInv
    <3>2. guest'.role = "offline"
      BY <3>1 DEF PageType
    <3> QED BY <3>2 DEF HeldInv
  <2> QED BY <1>1, <2>1, <2>2, <2>3, <2>4, <2>5, <2>6, NextCases
<1>2. CASE UNCHANGED vars
  <2>1. UNCHANGED <<guest, toHub, toGuest, history>>
    BY <1>2 DEF vars, channels
  <2>2. Stream' = Stream
    BY <2>1 DEF Stream
  <2> QED BY <2>1, <2>2 DEF HeldInv
<1> QED BY <1>1, <1>2

-----------------------------------------------------------------------------
(* A guest that only reads. *)

\* The revision of the frame at j of the stream S, whose end is the revision rev, if each
\* frame from there on counts one.
Base(S, rev, j) == rev - (Len(S) - j)

\* The last part of a synchronisation is at j, or there is none and j is 0; behind it
\* there are the operations of the host, one for every revision.
LastSync(S, rev, j) ==
    /\ j > 0 => S[j].type = "SYNC_RESPONSE" /\ S[j].rev = Base(S, rev, j)
    /\ \A i \in j + 1..Len(S) :
          S[i].type = "APPLY" /\ S[i].client = "A" /\ S[i].rev = Base(S, rev, i)

\* The page shows the document the operations start from,
Shows(p, h, S, base) ==
    /\ p.rev = base /\ p.editor = h[base + 1]
    /\ \A i \in 1..Len(S) : S[i].type # "JOIN_OK"

\* or each of its chunks is in the page or on its way.
Has(chunks, base, k) == chunks.rev = base /\ chunks.parts # <<>> /\ chunks.parts[k] # <<>>
Comes(S, base, j, k) ==
    \E i \in 1..j : S[i].type = "SYNC_RESPONSE" /\ S[i].rev = base /\ S[i].index = k
Covered(p, h, S, base, j) ==
    /\ j > 0
    /\ \A k \in 1..Count(h[base + 1]) : Has(p.chunks, base, k) \/ Comes(S, base, j, k)

Follows(p, h, S, rev, j) ==
    /\ LastSync(S, rev, j)
    /\ Shows(p, h, S, Base(S, rev, j)) \/ Covered(p, h, S, Base(S, rev, j), j)

\* The fields of the chunks of a document.
LEMMA PartsFields ==
    ASSUME NEW type, NEW rev \in Nat, NEW text \in Seq(Char), NEW frames,
           frames = Parts(type, rev, text)
    PROVE  /\ Len(frames) = Count(text)
           /\ \A k \in 1..Count(text) :
                 frames[k].type = type /\ frames[k].rev = rev /\ frames[k].index = k
<1>1. /\ Len(frames) = Count(text)
      /\ \A k \in 1..Count(text) :
            frames[k] = [type |-> type, rev |-> rev, index |-> k, count |-> Count(text),
                         text |-> Chunk(text, k)]
  BY PartsType
<1> QED BY <1>1

\* Operations of the host go on from where the page gets to.
LEMMA FollowsOperations ==
    ASSUME NEW p \in PageType, NEW h \in Seq(Seq(Char)), NEW texts \in Seq(Seq(Char)),
           NEW S \in Seq(Frame), NEW frames \in Seq(Frame), NEW rev \in Nat,
           NEW j \in 0..Len(S)
    PROVE  /\ Len(h) = rev + 1 /\ Held(p, h, S) /\ Follows(p, h, S, rev, j)
           /\ \A k \in 1..Len(S) : Tells(h, S[k])
           /\ Len(frames) = Len(texts)
           /\ \A k \in 1..Len(frames) :
                 frames[k].type = "APPLY" /\ frames[k].client = "A" /\ frames[k].rev = rev + k
           => /\ Follows(p, h \o texts, S \o frames, rev + Len(texts), j)
              /\ j \in 0..Len(S \o frames)
<1> DEFINE g == h \o texts
           T == S \o frames
           n == Len(S)
           l == Len(frames)
           base == Base(S, rev, j)
<1>1. /\ Len(g) = Len(h) + Len(texts) /\ Len(h) \in Nat /\ Len(texts) \in Nat
      /\ \A i \in 1..Len(h) : g[i] = h[i]
  <2>1. h \in Seq(Seq(Char)) /\ texts \in Seq(Seq(Char))
    OBVIOUS
  <2> HIDE DEF g
  <2>2. /\ Len(h \o texts) = Len(h) + Len(texts) /\ Len(h) \in Nat /\ Len(texts) \in Nat
        /\ \A i \in 1..Len(h) : (h \o texts)[i] = h[i]
    BY <2>1, ConcatAt
  <2> QED BY <2>2 DEF g
<1>2. /\ Len(T) = n + l /\ n \in Nat /\ l \in Nat
      /\ \A i \in 1..n : T[i] = S[i]
      /\ \A i \in 1..l : T[n + i] = frames[i]
  <2>1. S \in Seq(Frame) /\ frames \in Seq(Frame)
    OBVIOUS
  <2> HIDE DEF T, n, l
  <2>2. /\ Len(S \o frames) = Len(S) + Len(frames) /\ Len(S) \in Nat /\ Len(frames) \in Nat
        /\ \A i \in 1..Len(S) : (S \o frames)[i] = S[i]
        /\ \A i \in 1..Len(frames) : (S \o frames)[Len(S) + i] = frames[i]
    BY <2>1, ConcatAt
  <2> QED BY <2>2 DEF T, n, l
<1> HIDE DEF g, T
<1> SUFFICES ASSUME Len(h) = rev + 1, Held(p, h, S), Follows(p, h, S, rev, j),
                    \A k \in 1..Len(S) : Tells(h, S[k]),
                    Len(frames) = Len(texts),
                    \A k \in 1..Len(frames) :
                       frames[k].type = "APPLY" /\ frames[k].client = "A" /\ frames[k].rev = rev + k
             PROVE  Follows(p, g, T, rev + Len(texts), j) /\ j \in 0..Len(T)
  BY DEF g, T
<1>3. l = Len(texts) /\ j \in 0..n
  OBVIOUS
<1>4. \A k \in 1..l : frames[k].type = "APPLY" /\ frames[k].client = "A" /\ frames[k].rev = rev + k
  OBVIOUS
<1> HIDE DEF n, l
<1>5. \A i \in Nat : Base(T, rev + Len(texts), i) = Base(S, rev, i)
  BY <1>2, <1>3 DEF Base, n
<1>6. Base(T, rev + Len(texts), j) = base /\ j \in Nat /\ j \in 0..Len(T)
  BY <1>2, <1>3, <1>5
<1>7. LastSync(S, rev, j) /\ (Shows(p, h, S, base) \/ Covered(p, h, S, base, j))
  BY DEF Follows
<1>8. base \in Int /\ (j > 0 => base \in Nat /\ base + 1 \in 1..Len(h))
  <2>1. base \in Int
    BY <1>2, <1>3 DEF Base, n
  <2>2. ASSUME j > 0 PROVE base \in Nat /\ base + 1 \in 1..Len(h)
    <3>1. j \in 1..Len(S)
      BY <2>2, <1>2, <1>3 DEF n
    <3>2. S[j].type = "SYNC_RESPONSE" /\ S[j].rev = base
      BY <2>2, <1>7 DEF LastSync
    <3>3. S[j] \in Frame /\ Tells(h, S[j])
      BY <3>1, LenProperties
    <3>4. S[j].rev \in Nat
      BY <3>2, <3>3, FrameFields
    <3>5. S[j].rev + 1 \in 1..Len(h)
      BY <3>2, <3>3 DEF Tells
    <3> HIDE DEF base
    <3> QED BY <3>2, <3>4, <3>5
  <2> QED BY <2>1, <2>2
<1> HIDE DEF base
<1>9. LastSync(T, rev + Len(texts), j)
  <2>1. ASSUME j > 0
        PROVE  T[j].type = "SYNC_RESPONSE" /\ T[j].rev = Base(T, rev + Len(texts), j)
    <3>1. j \in 1..n
      BY <2>1, <1>3
    <3> QED BY <2>1, <3>1, <1>2, <1>6, <1>7 DEF LastSync, base
  <2>2. ASSUME NEW i \in j + 1..Len(T)
        PROVE  T[i].type = "APPLY" /\ T[i].client = "A" /\ T[i].rev = Base(T, rev + Len(texts), i)
    <3>1. i \in Nat /\ i \in j + 1..n + l
      BY <1>2, <1>3
    <3>2. CASE i <= n
      <4>1. i \in 1..n /\ i \in j + 1..n
        BY <3>1, <3>2, <1>2, <1>3
      <4>2. S[i].type = "APPLY" /\ S[i].client = "A" /\ S[i].rev = Base(S, rev, i)
        BY <4>1, <1>7 DEF LastSync, n
      <4> QED BY <3>1, <4>1, <4>2, <1>2, <1>5
    <3>3. CASE ~(i <= n)
      <4>1. i - n \in 1..l /\ n + (i - n) = i
        BY <3>1, <3>3, <1>2, <1>3
      <4>2. T[i] = frames[i - n]
        BY <4>1, <1>2
      <4>3. T[i].type = "APPLY" /\ T[i].client = "A" /\ T[i].rev = rev + (i - n)
        BY <4>1, <4>2, <1>4
      <4>4. rev + (i - n) = Base(S, rev, i)
        BY <3>1, <1>2 DEF Base, n
      <4> QED BY <3>1, <4>3, <4>4, <1>5
    <3> QED BY <3>2, <3>3
  <2> QED BY <2>1, <2>2 DEF LastSync
<1>10. ASSUME Shows(p, h, S, base) PROVE Shows(p, g, T, base)
  <2>1. p.rev = base /\ p.rev \in Nat /\ p.rev + 1 <= Len(h)
    BY <1>10, PageFields DEF Shows, Held
  <2>2. base + 1 \in 1..Len(h)
    BY <2>1, <1>1
  <2>3. g[base + 1] = h[base + 1]
    BY <2>2, <1>1
  <2>4. ASSUME NEW i \in 1..Len(T) PROVE T[i].type # "JOIN_OK"
    <3>1. CASE i <= n
      <4>1. i \in 1..n /\ T[i] = S[i]
        BY <3>1, <1>2
      <4> QED BY <4>1, <1>10 DEF Shows, n
    <3>2. CASE ~(i <= n)
      <4>1. i - n \in 1..l /\ n + (i - n) = i
        BY <3>2, <1>2
      <4>2. T[i] = frames[i - n]
        BY <4>1, <1>2
      <4> QED BY <4>1, <4>2, <1>4
    <3> QED BY <3>1, <3>2
  <2> QED BY <1>10, <2>3, <2>4 DEF Shows
<1>11. ASSUME Covered(p, h, S, base, j) PROVE Covered(p, g, T, base, j)
  <2>1. j > 0 /\ \A k \in 1..Count(h[base + 1]) : Has(p.chunks, base, k) \/ Comes(S, base, j, k)
    BY <1>11 DEF Covered
  <2>2. g[base + 1] = h[base + 1]
    BY <2>1, <1>1, <1>8
  <2>3. \A i \in 1..j : T[i] = S[i]
    <3>1. \A i \in 1..j : i \in 1..n
      BY <1>2, <1>3
    <3> QED BY <3>1, <1>2
  <2>4. \A k : Comes(S, base, j, k) => Comes(T, base, j, k)
    BY <2>3 DEF Comes
  <2> QED BY <2>1, <2>2, <2>4 DEF Covered
<1>12. Follows(p, g, T, rev + Len(texts), j)
  BY <1>6, <1>7, <1>9, <1>10, <1>11 DEF Follows
<1> QED BY <1>6, <1>12

\* A full synchronisation brings every chunk.
LEMMA FollowsAnswer ==
    ASSUME NEW p, NEW g, NEW S \in Seq(Frame), NEW frames \in Seq(Frame),
           NEW rev \in Nat, NEW text \in Seq(Char), g[rev + 1] = text,
           frames = Parts("SYNC_RESPONSE", rev, text)
    PROVE  /\ Follows(p, g, S \o frames, rev, Len(S \o frames))
           /\ Len(S \o frames) \in 0..Len(S \o frames)
<1> DEFINE T == S \o frames
           n == Len(S)
           l == Len(frames)
           c == Count(text)
<1>1. /\ l = c
      /\ \A k \in 1..c : frames[k].type = "SYNC_RESPONSE" /\ frames[k].rev = rev /\ frames[k].index = k
  BY PartsFields
<1>2. /\ Len(T) = n + l /\ n \in Nat /\ l \in Nat
      /\ \A i \in 1..n : T[i] = S[i]
      /\ \A i \in 1..l : T[n + i] = frames[i]
  <2>1. S \in Seq(Frame) /\ frames \in Seq(Frame)
    OBVIOUS
  <2> HIDE DEF T, n, l
  <2>2. /\ Len(S \o frames) = Len(S) + Len(frames) /\ Len(S) \in Nat /\ Len(frames) \in Nat
        /\ \A i \in 1..Len(S) : (S \o frames)[i] = S[i]
        /\ \A i \in 1..Len(frames) : (S \o frames)[Len(S) + i] = frames[i]
    BY <2>1, ConcatAt
  <2> QED BY <2>2 DEF T, n, l
<1>3. c \in Nat \ {0}
  BY CountProperties
<1> HIDE DEF T, n, l, c
<1>4. Len(T) \in Nat /\ Len(T) > 0 /\ Base(T, rev, Len(T)) = rev
  BY <1>1, <1>2, <1>3 DEF Base
<1>5. LastSync(T, rev, Len(T))
  <2>1. c \in 1..c /\ c \in 1..l /\ n + c = Len(T)
    BY <1>1, <1>2, <1>3
  <2>2. T[Len(T)] = frames[c]
    BY <2>1, <1>2
  <2>3. T[Len(T)].type = "SYNC_RESPONSE" /\ T[Len(T)].rev = rev
    BY <2>1, <2>2, <1>1
  <2>4. \A i \in Len(T) + 1..Len(T) : FALSE
    BY <1>4
  <2> QED BY <2>3, <2>4, <1>4 DEF LastSync
<1>6. Covered(p, g, T, rev, Len(T))
  <2>1. ASSUME NEW k \in 1..c PROVE Comes(T, rev, Len(T), k)
    <3>1. n + k \in 1..Len(T) /\ k \in 1..l
      BY <1>1, <1>2, <1>3
    <3>2. T[n + k] = frames[k]
      BY <3>1, <1>2
    <3> QED BY <3>1, <3>2, <1>1 DEF Comes
  <2> QED BY <2>1, <1>4 DEF Covered, c
<1>7. Len(T) \in 0..Len(T)
  BY <1>4
<1> QED BY <1>4, <1>5, <1>6, <1>7 DEF Follows, T

\* The stream loses its first frame, and the last synchronisation is one place nearer.
LEMMA LastSyncTail ==
    ASSUME NEW S \in Seq(Frame), S # <<>>, NEW rev \in Nat, NEW j \in 1..Len(S),
           LastSync(S, rev, j)
    PROVE  /\ j - 1 \in 0..Len(Tail(S)) /\ LastSync(Tail(S), rev, j - 1)
           /\ Base(Tail(S), rev, j - 1) = Base(S, rev, j)
<1> DEFINE T == Tail(S)
           n == Len(S)
<1>1. /\ n \in Nat \ {0} /\ Len(T) = n - 1 /\ \A k \in 1..n - 1 : T[k] = S[k + 1]
  BY TailLeft
<1> HIDE DEF T
<1>2. j \in 1..n /\ j - 1 \in 0..Len(T)
  BY <1>1
<1>3. \A k \in Nat : Base(T, rev, k) = Base(S, rev, k + 1)
  BY <1>1 DEF Base, n
<1>4. \A k \in 0..n - 1 : k \in Nat
  OBVIOUS
<1> HIDE DEF n
<1>5. Base(T, rev, j - 1) = Base(S, rev, j)
  <2>1. j - 1 \in Nat /\ (j - 1) + 1 = j
    BY <1>1, <1>2
  <2> QED BY <2>1, <1>3
<1>6. ASSUME j - 1 > 0 PROVE T[j - 1].type = "SYNC_RESPONSE" /\ T[j - 1].rev = Base(T, rev, j - 1)
  <2>1. j - 1 \in 1..n - 1 /\ (j - 1) + 1 = j /\ j > 0
    BY <1>1, <1>2, <1>6
  <2> QED BY <2>1, <1>1, <1>5 DEF LastSync
<1>7. ASSUME NEW i \in (j - 1) + 1..Len(T)
      PROVE  T[i].type = "APPLY" /\ T[i].client = "A" /\ T[i].rev = Base(T, rev, i)
  <2>1. i \in 1..n - 1 /\ i \in Nat /\ i + 1 \in j + 1..n
    BY <1>1, <1>2
  <2> QED BY <2>1, <1>1, <1>3 DEF LastSync, n
<1>8. LastSync(T, rev, j - 1)
  BY <1>6, <1>7 DEF LastSync
<1> QED BY <1>2, <1>5, <1>8 DEF T

\* The same for the chunks that are still to come, if the first frame is none of them.
LEMMA CoveredTail ==
    ASSUME NEW p, NEW q, NEW h, NEW S \in Seq(Frame), S # <<>>, NEW base, NEW j \in 1..Len(S),
           Covered(p, h, S, base, j), S[j].type = "SYNC_RESPONSE", S[j].rev = base,
           ~(S[1].type = "SYNC_RESPONSE" /\ S[1].rev = base),
           \A k : Has(p.chunks, base, k) => Has(q.chunks, base, k)
    PROVE  Covered(q, h, Tail(S), base, j - 1)
<1> DEFINE T == Tail(S)
           n == Len(S)
<1>1. /\ n \in Nat \ {0} /\ Len(T) = n - 1 /\ \A k \in 1..n - 1 : T[k] = S[k + 1]
  BY TailLeft
<1>2. j \in 1..n
  OBVIOUS
<1> HIDE DEF T, n
<1>3. j # 1
  OBVIOUS
<1>4. j - 1 > 0
  BY <1>1, <1>2, <1>3
<1>5. ASSUME NEW k, Comes(S, base, j, k) PROVE Comes(T, base, j - 1, k)
  <2>1. PICK i \in 1..j : S[i].type = "SYNC_RESPONSE" /\ S[i].rev = base /\ S[i].index = k
    BY <1>5 DEF Comes
  <2>2. i # 1
    BY <2>1
  <2>3. i - 1 \in 1..j - 1 /\ i - 1 \in 1..n - 1 /\ (i - 1) + 1 = i
    BY <2>2, <1>1, <1>2
  <2>4. T[i - 1] = S[i]
    BY <2>3, <1>1
  <2> QED BY <2>1, <2>3, <2>4 DEF Comes
<1> QED BY <1>4, <1>5 DEF Covered, T

\* The first frame is one of them, and not the last.
LEMMA CoveredCollects ==
    ASSUME NEW p, NEW q, NEW h, NEW S \in Seq(Frame), S # <<>>, NEW base, NEW j \in 1..Len(S),
           NEW m, m = S[1], m.rev = base, m.count = Count(h[base + 1]),
           NEW c, c.rev = base, Len(c.parts) = m.count, m.count \in Nat \ {0}, q.chunks = c,
           \A k \in 1..m.count :
              c.parts[k] = IF k = m.index THEN <<m.text>>
                           ELSE IF p.chunks.rev = base /\ Len(p.chunks.parts) = m.count
                             THEN p.chunks.parts[k] ELSE <<>>,
           p.chunks.parts # <<>> => Len(p.chunks.parts) = Count(h[p.chunks.rev + 1]),
           Covered(p, h, S, base, j), ~Complete(c)
    PROVE  Covered(q, h, Tail(S), base, j - 1)
<1> DEFINE T == Tail(S)
           n == Len(S)
<1>1. /\ n \in Nat \ {0} /\ Len(T) = n - 1 /\ \A k \in 1..n - 1 : T[k] = S[k + 1]
  BY TailLeft
<1>2. j \in 1..n
  OBVIOUS
<1> HIDE DEF T, n
<1>3. c.parts # <<>>
  <2>1. Len(<<>>) = 0
    OBVIOUS
  <2> QED BY <2>1
<1>4. \A x : <<x>> # <<>>
  OBVIOUS
<1>5. ASSUME NEW k \in 1..m.count, c.parts[k] = <<>>
      PROVE  \E i \in 2..j : S[i].type = "SYNC_RESPONSE" /\ S[i].rev = base /\ S[i].index = k
  <2>1. k # m.index
    BY <1>4, <1>5
  <2>2. ~Has(p.chunks, base, k)
    <3>1. ASSUME Has(p.chunks, base, k) PROVE c.parts[k] # <<>>
      <4>1. p.chunks.rev = base /\ p.chunks.parts # <<>> /\ p.chunks.parts[k] # <<>>
        BY <3>1 DEF Has
      <4>2. Len(p.chunks.parts) = m.count
        BY <4>1
      <4> QED BY <4>1, <4>2, <2>1
    <3> QED BY <3>1, <1>5
  <2>3. Comes(S, base, j, k)
    BY <2>2 DEF Covered
  <2>4. PICK i \in 1..j : S[i].type = "SYNC_RESPONSE" /\ S[i].rev = base /\ S[i].index = k
    BY <2>3 DEF Comes
  <2>5. i # 1
    BY <2>1, <2>4
  <2>6. i \in 2..j
    BY <2>5, <1>2
  <2> QED BY <2>4, <2>6
<1>6. PICK k0 \in 1..m.count : c.parts[k0] = <<>>
  BY DEF Complete
<1>7. j - 1 > 0
  <2>1. PICK i \in 2..j : TRUE
    BY <1>5, <1>6
  <2> QED BY <1>1, <1>2, <2>1
<1>8. ASSUME NEW k \in 1..Count(h[base + 1]) PROVE Has(c, base, k) \/ Comes(T, base, j - 1, k)
  <2>1. CASE c.parts[k] # <<>>
    BY <2>1, <1>3 DEF Has
  <2>2. CASE c.parts[k] = <<>>
    <3>1. PICK i \in 2..j : S[i].type = "SYNC_RESPONSE" /\ S[i].rev = base /\ S[i].index = k
      BY <2>2, <1>5
    <3>2. i - 1 \in 1..j - 1 /\ i - 1 \in 1..n - 1 /\ (i - 1) + 1 = i
      BY <1>1, <1>2
    <3>3. T[i - 1] = S[i]
      BY <3>2, <1>1
    <3> QED BY <3>1, <3>2, <3>3 DEF Comes
  <2> QED BY <2>1, <2>2
<1> QED BY <1>7, <1>8 DEF Covered, T

\* The newest document is in the editor, and what is on its way is that document again.
SeesNewest ==
    /\ guest.editor = history[host.rev + 1]
    /\ \A i \in 1..Len(Stream) : Stream[i].type = "SYNC_RESPONSE" /\ Stream[i].rev = host.rev

\* The guest takes the first frame, and still gets to the newest document.
LEMMA FollowsHandles ==
    ASSUME PagesInv, StreamInv, HeldInv, GuestHandles, guest'.asGiven, ~guest.composing \/ SeesNewest,
           NEW j \in 0..Len(Stream), Follows(guest, history, Stream, host.rev, j)
    PROVE  \E i \in 0..Len(Stream') : Follows(guest', history', Stream', host'.rev, i)
<1> DEFINE m == Head(toGuest)
           S == Stream
           T == Tail(S)
           h == history
           rev == host.rev
           base == Base(S, rev, j)
<1>1. /\ S # <<>> /\ Head(S) = m /\ Stream' = T
      /\ history' = h /\ host' = host /\ guest.role # "offline"
  BY GuestHandlesKeepsStream
<1>2. S \in Seq(Frame) /\ Ordered(S) /\ Len(S) \in Nat
  BY StreamType DEF StreamInv
<1>3. Held(guest, h, S)
  BY <1>1 DEF HeldInv
<1>4. \A i \in 1..Len(S) : Tells(h, S[i])
  BY DEF StreamInv
<1>5. PICK q \in PageType, frames \in Seq(GuestFrame) :
        /\ GuestBecomes(q, frames)
        /\ \/ /\ m.type = "JOIN_OK"
              /\ q = [guest EXCEPT !.role = "guest", !.rev = 0, !.last = guest.editor]
           \/ /\ m.type = "SYNC_RESPONSE" /\ Complete(Collected(guest, m))
              /\ q = Synchronised(guest, m)
           \/ /\ m.type = "SYNC_RESPONSE" /\ ~Complete(Collected(guest, m))
              /\ q = [guest EXCEPT !.chunks = Collected(guest, m)]
           \/ /\ m.type = "APPLY" /\ m.rev <= guest.rev /\ q = guest
           \/ /\ m.type = "APPLY" /\ ~(m.rev <= guest.rev) /\ m.client = "B"
              /\ q = [guest EXCEPT !.rev = m.rev, !.last = guest.editor]
           \/ /\ m.type = "APPLY" /\ ~(m.rev <= guest.rev) /\ m.client # "B"
              /\ Fits(guest.editor, m.op) /\ q = Followed(guest, m)
           \/ /\ m.type = "APPLY" /\ ~(m.rev <= guest.rev) /\ m.client # "B"
              /\ ~Fits(guest.editor, m.op) /\ q = guest
  BY GuestHandlesCases
<1>6. guest' = q /\ q.asGiven
  BY <1>5 DEF GuestBecomes
<1>7. guest \in PageType /\ h \in Seq(Seq(Char)) /\ Len(h) = rev + 1 /\ rev \in Nat
  BY PageFields DEF PagesInv
<1>8. guest.rev \in Nat /\ guest.chunks.rev \in Nat
  BY <1>7, PageFields DEF ChunksType
<1>9. /\ m \in Frame
      /\ m.type \in {"JOIN_OK", "APPLY", "SYNC_RESPONSE"}
      /\ m.type # "JOIN_OK" => m.rev \in Nat
      /\ m.type = "APPLY" => m.op \in Operation /\ m.client \in {"A", "B"}
      /\ m.type = "SYNC_RESPONSE" => m \in DocumentChunk("SYNC_RESPONSE")
  <2>1. m \in Frame
    BY GuestHandlesCases
  <2> QED BY <2>1, FrameFields
<1>10. j \in 0..Len(S) /\ Follows(guest, h, S, rev, j)
  OBVIOUS
<1>17. \/ ~guest.composing
       \/ /\ guest.editor = h[rev + 1]
          /\ \A i \in 1..Len(S) : S[i].type = "SYNC_RESPONSE" /\ S[i].rev = rev
  BY DEF SeesNewest
<1> HIDE DEF m, S, h, rev
<1>11. /\ T \in Seq(Frame) /\ Len(S) \in Nat \ {0} /\ Len(T) = Len(S) - 1
       /\ S[1] = m /\ \A i \in 1..Len(S) - 1 : T[i] = S[i + 1]
  BY <1>1, <1>2, TailLeft
<1> HIDE DEF T
<1>12. Tells(h, m)
  <2>1. 1 \in 1..Len(S)
    BY <1>11
  <2> QED BY <2>1, <1>4, <1>11
<1>13. LastSync(S, rev, j) /\ (Shows(guest, h, S, base) \/ Covered(guest, h, S, base, j))
  BY <1>10 DEF Follows
<1>14. \A i \in 1..Len(T) : T[i].type # "JOIN_OK"
  BY <1>1, <1>2, HeadFirst DEF T
<1> HIDE DEF base
<1>15. CASE j = 0
  <2>1. base = guest.rev /\ guest.editor = h[guest.rev + 1]
    <3>1. Shows(guest, h, S, base)
      BY <1>13, <1>15 DEF Covered
    <3> QED BY <3>1 DEF Shows
  <2>2. base = rev - Len(S) /\ Base(S, rev, 1) = base + 1
    <3> DEFINE n == Len(S)
    <3>1. n \in Nat /\ base = rev - (n - 0) /\ Base(S, rev, 1) = rev - (n - 1)
      BY <1>11, <1>15 DEF Base, base
    <3> HIDE DEF n
    <3>2. rev - (n - 0) = rev - n /\ rev - (n - 1) = (rev - n) + 1
      BY <3>1, <1>7
    <3> QED BY <3>1, <3>2 DEF n
  <2>3. m.type = "APPLY" /\ m.client = "A" /\ m.rev = guest.rev + 1
    <3>1. 1 \in j + 1..Len(S)
      BY <1>11, <1>15
    <3>2. S[1].type = "APPLY" /\ S[1].client = "A" /\ S[1].rev = Base(S, rev, 1)
      BY <3>1, <1>13 DEF LastSync
    <3> QED BY <3>2, <2>1, <2>2, <1>11
  <2>13. ~guest.composing
    <3>1. 1 \in 1..Len(S)
      BY <1>11
    <3> QED BY <3>1, <2>3, <1>11, <1>17
  <2>4. Fits(guest.editor, m.op) /\ Applied(guest.editor, m.op) = h[m.rev + 1]
    BY <2>1, <2>3, <1>12 DEF Tells
  <2>5. ~(m.rev <= guest.rev) /\ m.rev \in Nat /\ m.op \in Operation
    BY <2>3, <1>8, <1>9
  <2>6. q = Followed(guest, m)
    BY <2>3, <2>4, <2>5, <1>5
  <2>7. q.rev = m.rev /\ q.editor = h[m.rev + 1]
    BY <2>4, <2>5, <2>6, <2>13, <1>6, <1>7, FollowedType
  <2>8. Base(T, rev, 0) = m.rev
    <3> DEFINE n == Len(S)
               r == guest.rev
    <3>1. n \in Nat /\ Len(T) = n - 1 /\ r = rev - n /\ m.rev = r + 1 /\ r \in Nat
      BY <1>8, <1>11, <2>1, <2>2, <2>3
    <3>2. Base(T, rev, 0) = rev - (Len(T) - 0)
      BY DEF Base
    <3> HIDE DEF n, r
    <3> QED BY <3>1, <3>2, <1>7
  <2>9. LastSync(T, rev, 0)
    <3>1. ASSUME NEW i \in 0 + 1..Len(T)
          PROVE  T[i].type = "APPLY" /\ T[i].client = "A" /\ T[i].rev = Base(T, rev, i)
      <4> DEFINE n == Len(S)
      <4>1. n \in Nat /\ Len(T) = n - 1
        BY <1>11
      <4>2. /\ Base(T, rev, i) = rev - (Len(T) - i)
            /\ Base(S, rev, i + 1) = rev - (n - (i + 1))
        BY DEF Base
      <4>a. \A k \in j + 1..n : S[k].type = "APPLY" /\ S[k].client = "A" /\ S[k].rev = Base(S, rev, k)
        BY <1>13 DEF LastSync
      <4>b. \A k \in 1..n - 1 : T[k] = S[k + 1]
        BY <1>11
      <4> HIDE DEF n
      <4>3. i \in 1..n - 1 /\ i + 1 \in j + 1..n /\ Len(T) - i = n - (i + 1)
        BY <4>1, <1>15
      <4>4. Base(T, rev, i) = Base(S, rev, i + 1)
        BY <4>2, <4>3
      <4> QED BY <4>3, <4>4, <4>a, <4>b
    <3>2. ~(0 > 0)
      OBVIOUS
    <3> QED BY <3>1, <3>2 DEF LastSync
  <2>10. Shows(q, h, T, Base(T, rev, 0))
    BY <2>7, <2>8, <1>14 DEF Shows
  <2>11. 0 \in 0..Len(T)
    BY <1>11
  <2>12. Follows(q, h, T, rev, 0)
    BY <2>9, <2>10 DEF Follows
  <2> QED BY <2>11, <2>12, <1>1, <1>6 DEF rev
<1>16. CASE j # 0
  <2>1. j \in 1..Len(S) /\ j > 0
    BY <1>10, <1>11, <1>16
  <2>2. S[j].type = "SYNC_RESPONSE" /\ S[j].rev = base
    BY <2>1, <1>13 DEF LastSync, base
  <2>3. j - 1 \in 0..Len(T) /\ LastSync(T, rev, j - 1) /\ Base(T, rev, j - 1) = base
    BY <2>1, <1>1, <1>2, <1>7, <1>13, LastSyncTail DEF T, base
  <2>4. base \in Nat
    <3>1. S[j] \in Frame
      BY <2>1, <1>2, LenProperties
    <3>2. S[j].rev \in Nat
      BY <2>2, <3>1, FrameFields
    <3> QED BY <2>2, <3>2
  \* Nothing before the last synchronisation is newer.
  <2>5. m.type # "JOIN_OK" => m.rev <= base
    <3>1. CASE j = 1
      <4>1. m.rev = base
        BY <3>1, <2>2, <1>11
      <4> QED BY <4>1, <2>4
    <3>2. CASE j # 1
      <4>1. 1 \in 1..Len(S) /\ 1 < j
        BY <3>2, <2>1, <1>11
      <4> QED BY <4>1, <2>1, <2>2, <1>2, <1>11 DEF Ordered
    <3> QED BY <3>1, <3>2
  <2>6. m.type # "JOIN_OK" => guest.rev <= m.rev /\ guest.chunks.rev <= m.rev
    <3>1. 1 \in 1..Len(S)
      BY <1>11
    <3> QED BY <3>1, <1>3, <1>11 DEF Held
  <2>7. SUFFICES Shows(q, h, T, base) \/ Covered(q, h, T, base, j - 1)
    <3>1. ASSUME Shows(q, h, T, base) \/ Covered(q, h, T, base, j - 1)
          PROVE  Follows(q, h, T, rev, j - 1)
      BY <2>3, <3>1 DEF Follows
    <3> QED BY <2>3, <3>1, <1>1, <1>6 DEF rev
  \* The chunks the page holds are kept, and the first frame is none of those to come.
  <2>8. ASSUME q.chunks = guest.chunks, m.type # "SYNC_RESPONSE", Covered(guest, h, S, base, j)
        PROVE  Covered(q, h, T, base, j - 1)
    <3>1. \A k : Has(guest.chunks, base, k) => Has(q.chunks, base, k)
      BY <2>8
    <3> QED BY <2>1, <2>2, <2>8, <3>1, <1>1, <1>2, <1>11, CoveredTail DEF T
  \* The first frame is of an older document.
  <2>9. ASSUME m.type = "SYNC_RESPONSE", m.rev # base, Covered(guest, h, S, base, j)
        PROVE  Covered(q, h, T, base, j - 1)
    <3>1. m.rev < base /\ guest.chunks.rev <= m.rev /\ m.rev \in Nat
      BY <2>4, <2>5, <2>6, <2>9, <1>9
    <3>2. guest.chunks.rev # base
      <4> DEFINE got == guest.chunks.rev
                 r == m.rev
      <4>1. r < base /\ got <= r /\ r \in Nat /\ got \in Nat
        BY <3>1, <1>8
      <4> HIDE DEF got, r
      <4>2. got # base
        BY <4>1, <2>4
      <4> QED BY <4>2 DEF got
    <3>3. \A k : Has(guest.chunks, base, k) => Has(q.chunks, base, k)
      BY <3>2 DEF Has
    <3> QED BY <2>1, <2>2, <2>9, <3>3, <1>1, <1>2, <1>11, CoveredTail DEF T
  \* A page that shows the document the operations start from takes nothing newer.
  <2>10. ASSUME Shows(guest, h, S, base)
         PROVE  m.type # "JOIN_OK" /\ m.rev = base /\ guest.rev = base /\ guest.editor = h[base + 1]
    <3>1. guest.rev = base /\ guest.editor = h[base + 1]
      BY <2>10 DEF Shows
    <3>2. m.type # "JOIN_OK"
      <4>1. 1 \in 1..Len(S)
        BY <1>11
      <4> QED BY <4>1, <2>10, <1>11 DEF Shows
    <3>3. m.rev <= base /\ base <= m.rev /\ m.rev \in Nat
      BY <3>1, <3>2, <2>5, <2>6, <1>9
    <3>4. \A x, y \in Nat : x <= y /\ y <= x => x = y
      OBVIOUS
    <3> QED BY <3>1, <3>2, <3>3, <3>4, <2>4
  <2>11. CASE m.type = "JOIN_OK"
    <3>1. q = [guest EXCEPT !.role = "guest", !.rev = 0, !.last = guest.editor]
      BY <2>11, <1>5
    <3>2. q.chunks = guest.chunks
      BY <3>1, <1>7 DEF PageType
    <3>3. Covered(guest, h, S, base, j)
      BY <2>10, <2>11, <1>13
    <3> QED BY <3>2, <3>3, <2>8, <2>11
  <2>12. CASE m.type = "SYNC_RESPONSE" /\ Complete(Collected(guest, m))
    <3>1. q = Synchronised(guest, m)
      BY <2>12, <1>5
    <3>2. m \in DocumentChunk("SYNC_RESPONSE")
      BY <2>12, <1>9
    <3>3. CASE m.rev = base
      <4>1. /\ q.rev = m.rev
            /\ ~guest.composing => q.editor = Joined(Collected(guest, m))
            /\ guest.composing => q.editor = guest.editor
        BY <2>12, <3>1, <3>2, <1>6, <1>7, SynchronisedType
      <4>2. Joined(Collected(guest, m)) = h[m.rev + 1]
        BY <2>12, <3>2, <1>3, <1>12, HeldCompletes DEF S, h
      <4>3. guest.composing => guest.editor = h[m.rev + 1]
        <5>1. 1 \in 1..Len(S)
          BY <1>11
        <5> QED BY <5>1, <1>11, <1>17
      <4> QED BY <3>3, <4>1, <4>2, <4>3, <1>14 DEF Shows
    <3>4. CASE m.rev # base
      BY <2>9, <2>10, <2>12, <3>4, <1>13
    <3> QED BY <3>3, <3>4
  <2>13. CASE m.type = "SYNC_RESPONSE" /\ ~Complete(Collected(guest, m))
    <3> DEFINE c == Collected(guest, m)
    <3>1. q = [guest EXCEPT !.chunks = c]
      BY <2>13, <1>5
    <3>2. m \in DocumentChunk("SYNC_RESPONSE")
      BY <2>13, <1>9
    <3>3. q.rev = guest.rev /\ q.editor = guest.editor /\ q.chunks = c
      <4> HIDE DEF c
      <4> QED BY <3>1, <1>7 DEF PageType
    <3>4. ASSUME Shows(guest, h, S, base) PROVE Shows(q, h, T, base)
      BY <2>10, <3>3, <3>4, <1>14 DEF Shows
    <3>5. ASSUME Covered(guest, h, S, base, j), m.rev = base PROVE Covered(q, h, T, base, j - 1)
      <4>1. /\ c.rev = m.rev /\ Len(c.parts) = m.count
            /\ \A k \in 1..m.count :
                  c.parts[k] = IF k = m.index THEN <<m.text>>
                               ELSE IF guest.chunks.rev = m.rev /\ Len(guest.chunks.parts) = m.count
                                 THEN guest.chunks.parts[k] ELSE <<>>
        BY <3>2, <1>7, CollectedType
      <4>2. m.count = Count(h[m.rev + 1])
        BY <3>2, <1>3, <1>12, HeldCompletes DEF S, h
      <4>3. m.count \in Nat \ {0}
        BY <3>2 DEF DocumentChunk
      <4>4. ~Complete(c)
        BY <2>13
      <4>5. guest.chunks.parts # <<>> =>
                Len(guest.chunks.parts) = Count(h[guest.chunks.rev + 1])
        BY <1>3 DEF Held
      <4> HIDE DEF c
      <4>6. \A k \in 1..m.count :
                c.parts[k] = IF k = m.index THEN <<m.text>>
                             ELSE IF guest.chunks.rev = base /\ Len(guest.chunks.parts) = m.count
                               THEN guest.chunks.parts[k] ELSE <<>>
        BY <4>1, <3>5
      <4>7. c.rev = base /\ m.count = Count(h[base + 1])
        BY <4>1, <4>2, <3>5
      <4>8. m = S[1]
        BY <1>11
      <4> QED BY <4>1, <4>3, <4>4, <4>5, <4>6, <4>7, <4>8, <3>3, <3>5, <2>1, <1>1, <1>2, CoveredCollects
              DEF T
    <3> QED BY <2>9, <2>13, <3>4, <3>5, <1>13
  <2>14. CASE m.type = "APPLY" /\ m.rev <= guest.rev
    <3>1. q = guest
      BY <2>14, <1>5
    <3> QED BY <2>8, <2>10, <2>14, <3>1, <1>13, <1>14 DEF Shows
  <2>15. CASE m.type = "APPLY" /\ ~(m.rev <= guest.rev)
    <3>1. q.chunks = guest.chunks
      <4>1. CASE q = [guest EXCEPT !.rev = m.rev, !.last = guest.editor]
        BY <4>1, <1>7 DEF PageType
      <4>2. CASE Fits(guest.editor, m.op) /\ q = Followed(guest, m)
        BY <4>2, <2>15, <1>7, <1>9, FollowedType
      <4>3. CASE q = guest
        BY <4>3
      <4> QED BY <4>1, <4>2, <4>3, <2>15, <1>5
    <3>2. ~Shows(guest, h, S, base)
      <4>1. ASSUME Shows(guest, h, S, base) PROVE FALSE
        <5>1. m.rev = base /\ guest.rev = base
          BY <4>1, <2>10
        <5>2. base <= base
          BY <2>4
        <5> QED BY <5>1, <5>2, <2>15
      <4> QED BY <4>1
    <3> QED BY <2>8, <2>15, <3>1, <3>2, <1>13
  <2> QED BY <2>11, <2>12, <2>13, <2>14, <2>15, <1>9
<1> QED BY <1>15, <1>16

\* A guest that only reads sends no change; what is left of the changes of an earlier
\* connection is before the PEER_JOINED of this one.
Joins(C) == \E k \in 1..Len(C) : C[k].type = "PEER_JOINED"
Announced(C) ==
    \A k \in 1..Len(C) : C[k].type \in {"EDIT", "DOCUMENT_SNAPSHOT"} =>
        \E l \in k + 1..Len(C) : C[l].type = "PEER_JOINED"

ReaderInv ==
    follows # "no" =>
        /\ guest.role # "offline" /\ AtRest(guest) /\ guest.last = guest.editor
        /\ Announced(toHost)
        /\ Joins(toHost) \/ \E j \in 0..Len(Stream) : Follows(guest, history, Stream, host.rev, j)

\* The host takes the first frame, and what is announced stays so.
LEMMA AnnouncedTail ==
    ASSUME NEW C \in Seq(GuestFrame), C # <<>>, Announced(C)
    PROVE  /\ Announced(Tail(C))
           /\ Head(C).type # "PEER_JOINED" /\ Joins(C) => Joins(Tail(C))
           /\ Head(C).type \in {"EDIT", "DOCUMENT_SNAPSHOT"} => Joins(Tail(C))
<1> DEFINE T == Tail(C)
           n == Len(C)
<1>1. /\ n \in Nat \ {0} /\ Len(T) = n - 1 /\ Head(C) = C[1]
      /\ \A k \in 1..n - 1 : T[k] = C[k + 1]
  BY HeadTailProperties, LenProperties, EmptySeq
<1>2. /\ \A k \in 1..n : C[k].type \in {"EDIT", "DOCUMENT_SNAPSHOT"} =>
             \E l \in k + 1..n : C[l].type = "PEER_JOINED"
      /\ Joins(C) => \E k \in 1..n : C[k].type = "PEER_JOINED"
  BY DEF Announced, Joins
<1> HIDE DEF T, n
<1>3. ASSUME NEW k \in 1..n, NEW l \in k + 1..n, C[l].type = "PEER_JOINED"
      PROVE  l - 1 \in k..Len(T) /\ T[l - 1].type = "PEER_JOINED" /\ l - 1 \in 1..Len(T)
  <2>1. l - 1 \in k..n - 1 /\ l - 1 \in 1..n - 1 /\ (l - 1) + 1 = l
    BY <1>1
  <2>2. T[l - 1] = C[l]
    BY <2>1, <1>1
  <2> QED BY <2>1, <2>2, <1>1, <1>3
<1>4. Announced(T)
  <2>1. ASSUME NEW k \in 1..Len(T), T[k].type \in {"EDIT", "DOCUMENT_SNAPSHOT"}
        PROVE  \E l \in k + 1..Len(T) : T[l].type = "PEER_JOINED"
    <3>1. k + 1 \in 1..n /\ k \in 1..n - 1
      BY <1>1
    <3>2. C[k + 1].type \in {"EDIT", "DOCUMENT_SNAPSHOT"}
      BY <2>1, <3>1, <1>1
    <3>3. PICK l \in (k + 1) + 1..n : C[l].type = "PEER_JOINED"
      BY <3>1, <3>2, <1>2
    <3>4. l - 1 \in k + 1..Len(T) /\ T[l - 1].type = "PEER_JOINED"
      BY <3>1, <3>3, <1>3
    <3> QED BY <3>4
  <2> QED BY <2>1 DEF Announced
<1>5. ASSUME C[1].type # "PEER_JOINED", Joins(C) PROVE Joins(T)
  <2>1. PICK k \in 1..n : C[k].type = "PEER_JOINED"
    BY <1>2, <1>5
  <2>2. k # 1
    BY <2>1, <1>5
  <2>3. k \in 1 + 1..n /\ 1 \in 1..n
    BY <2>2, <1>1
  <2> QED BY <2>1, <2>3, <1>3 DEF Joins
<1>6. ASSUME C[1].type \in {"EDIT", "DOCUMENT_SNAPSHOT"} PROVE Joins(T)
  <2>1. 1 \in 1..n
    BY <1>1
  <2>2. PICK l \in 1 + 1..n : C[l].type = "PEER_JOINED"
    BY <2>1, <1>2, <1>6
  <2> QED BY <2>1, <2>2, <1>3 DEF Joins
<1> QED BY <1>1, <1>4, <1>5, <1>6 DEF T

\* The guest sends more; a PEER_JOINED announces all there is.
LEMMA AnnouncedLonger ==
    ASSUME NEW C \in Seq(GuestFrame), NEW D \in Seq(GuestFrame)
    PROVE  /\ Joins(C) => Joins(C \o D)
           /\ /\ Announced(C)
              /\ \A k \in 1..Len(D) : D[k].type \notin {"EDIT", "DOCUMENT_SNAPSHOT"}
              => Announced(C \o D)
           /\ Len(D) = 1 /\ D[1].type = "PEER_JOINED" => Announced(C \o D) /\ Joins(C \o D)
<1> DEFINE T == C \o D
           n == Len(C)
           l == Len(D)
<1>1. /\ Len(T) = n + l /\ n \in Nat /\ l \in Nat
      /\ \A i \in 1..n : T[i] = C[i]
      /\ \A i \in 1..l : T[n + i] = D[i]
  BY ConcatAt
<1> HIDE DEF T, n, l
<1>2. \A i \in 1..n : i \in 1..Len(T)
  BY <1>1
<1>3. \A i \in 1..Len(T) : i \notin 1..n => i - n \in 1..l /\ T[i] = D[i - n]
  <2> TAKE i \in 1..Len(T)
  <2> HAVE i \notin 1..n
  <2>1. i - n \in 1..l /\ n + (i - n) = i
    BY <1>1
  <2> QED BY <2>1, <1>1
<1>4. Joins(C) => Joins(T)
  BY <1>1, <1>2 DEF Joins, n
<1>5. ASSUME Announced(C), \A k \in 1..l : D[k].type \notin {"EDIT", "DOCUMENT_SNAPSHOT"}
      PROVE  Announced(T)
  <2>1. ASSUME NEW k \in 1..Len(T), T[k].type \in {"EDIT", "DOCUMENT_SNAPSHOT"}
        PROVE  \E i \in k + 1..Len(T) : T[i].type = "PEER_JOINED"
    <3>1. k \in 1..n
      BY <2>1, <1>3, <1>5
    <3>2. C[k].type \in {"EDIT", "DOCUMENT_SNAPSHOT"}
      BY <2>1, <3>1, <1>1
    <3>3. PICK i \in k + 1..n : C[i].type = "PEER_JOINED"
      BY <3>1, <3>2, <1>5 DEF Announced, n
    <3>4. i \in 1..n /\ i \in k + 1..Len(T)
      BY <3>1, <1>1
    <3> QED BY <3>3, <3>4, <1>1
  <2> QED BY <2>1 DEF Announced
<1>6. ASSUME l = 1, D[1].type = "PEER_JOINED" PROVE Announced(T) /\ Joins(T)
  <2>1. Len(T) = n + 1 /\ T[n + 1].type = "PEER_JOINED" /\ n + 1 \in 1..Len(T)
    <3>1. 1 \in 1..l
      BY <1>6
    <3> QED BY <3>1, <1>1, <1>6
  <2>2. ASSUME NEW k \in 1..Len(T), T[k].type \in {"EDIT", "DOCUMENT_SNAPSHOT"}
        PROVE  \E i \in k + 1..Len(T) : T[i].type = "PEER_JOINED"
    <3>1. k # n + 1
      BY <2>1, <2>2
    <3>2. n + 1 \in k + 1..Len(T)
      BY <2>1, <3>1, <1>1
    <3> QED BY <2>1, <3>2
  <2> QED BY <2>1, <2>2 DEF Announced, Joins
<1> QED BY <1>4, <1>5, <1>6 DEF T, l

\* Once no synchronisation is on its way, the page shows the document.
LEMMA ReaderFollowsFromInv == PagesInv /\ ReaderInv => ReaderFollows
<1> SUFFICES ASSUME PagesInv, ReaderInv, follows = "follows",
                    \A k \in 1..Len(toHost) : toHost[k].type # "PEER_JOINED",
                    \A channel \in {toHub, toGuest} :
                       \A k \in 1..Len(channel) : channel[k].type # "SYNC_RESPONSE"
             PROVE  guest.editor = history[guest.rev + 1]
  BY DEF ReaderFollows
<1>1. ~Joins(toHost)
  BY DEF Joins
<1>2. PICK j \in 0..Len(Stream) : Follows(guest, history, Stream, host.rev, j)
  BY <1>1 DEF ReaderInv
<1>3. \A i \in 1..Len(Stream) : Stream[i].type # "SYNC_RESPONSE"
  <2>1. /\ Len(Stream) = Len(toGuest) + Len(toHub) /\ Len(toGuest) \in Nat /\ Len(toHub) \in Nat
        /\ \A i \in 1..Len(toGuest) : Stream[i] = toGuest[i]
        /\ \A i \in 1..Len(toHub) : Stream[Len(toGuest) + i] = toHub[i]
    BY StreamType
  <2> TAKE i \in 1..Len(Stream)
  <2> DEFINE n == Len(toGuest)
             l == Len(toHub)
  <2>2. CASE i \in 1..n
    BY <2>1, <2>2
  <2>3. CASE i \notin 1..n
    <3>1. i \in 1..n + l /\ n \in Nat /\ l \in Nat
      BY <2>1
    <3> HIDE DEF n, l
    <3>2. i - n \in 1..l /\ n + (i - n) = i
      BY <3>1, <2>3
    <3>3. Stream[i] = toHub[i - n]
      BY <2>1, <3>2 DEF n, l
    <3> QED BY <3>2, <3>3 DEF l
  <2> QED BY <2>2, <2>3
<1>4. j = 0
  <2>1. Len(Stream) \in Nat
    BY StreamType
  <2>2. ASSUME j > 0 PROVE FALSE
    <3>1. j \in 1..Len(Stream)
      BY <2>1, <2>2
    <3>2. Stream[j].type = "SYNC_RESPONSE"
      BY <1>2, <2>2 DEF Follows, LastSync
    <3> QED BY <3>1, <3>2, <1>3
  <2> QED BY <2>1, <2>2
<1>5. Shows(guest, history, Stream, Base(Stream, host.rev, j))
  BY <1>2, <1>4 DEF Follows, Covered
<1> QED BY <1>5 DEF Shows

\* The host adds operations to what the guest follows, or answers with the document.
LEMMA ReaderHostSteps ==
    ASSUME PagesInv, StreamInv, HeldInv, ReaderInv, HostEdits \/ HostHandles
    PROVE  ReaderInv'
<1>1. PICK q, frames, texts :
           /\ HostBecomes(q, frames, texts) /\ Says(q, frames, texts)
           /\ Operates(frames, texts) \/ Answers(q, frames) \/ PassesOn(frames)
           /\ HostEdits => Operates(frames, texts)
           /\ HostHandles /\ Head(toHost).type \in {"PEER_JOINED", "SYNC_REQUEST"}
                  => Answers(q, frames)
           /\ Stream' = Stream \o frames
  BY HostStepSays
<1>2. guest' = guest /\ history' = history \o texts /\ host' = q /\ follows' = follows
  BY HostEditsSays, HostHandlesSays, <1>1 DEF HostBecomes, HostEdits
<1>3. /\ frames \in Seq(HostFrame) /\ texts \in Seq(Seq(Char)) /\ q \in PageType
      /\ q.rev = host.rev + Len(texts) /\ q.last = (history \o texts)[q.rev + 1]
  BY <1>1 DEF Says
<1>4. HostFrame \subseteq Frame
  BY DEF Frame
<1>5. frames \in Seq(Frame)
  <2>1. Len(frames) \in Nat /\ frames \in [1..Len(frames) -> HostFrame]
    BY <1>3, LenProperties
  <2>2. frames \in [1..Len(frames) -> Frame]
    BY <2>1, <1>4
  <2> QED BY <2>1, <2>2, SeqDef
<1>6. /\ guest \in PageType /\ history \in Seq(Seq(Char)) /\ Stream \in Seq(Frame)
      /\ host.rev \in Nat /\ Len(history) = host.rev + 1 /\ toHost \in Seq(GuestFrame)
      /\ q.rev \in Nat /\ q.last \in Seq(Char)
  BY <1>3, PageFields, StreamType DEF PagesInv
<1> SUFFICES ASSUME follows # "no"
             PROVE  /\ Announced(toHost')
                    /\ \/ Joins(toHost')
                       \/ \E j \in 0..Len(Stream') : Follows(guest', history', Stream', host'.rev, j)
  BY <1>2 DEF ReaderInv, AtRest, NothingWaits
<1>7. /\ guest.role # "offline" /\ Announced(toHost)
      /\ Joins(toHost) \/ \E j \in 0..Len(Stream) : Follows(guest, history, Stream, host.rev, j)
  BY DEF ReaderInv
<1>8. ASSUME Answers(q, frames)
      PROVE  \E j \in 0..Len(Stream') : Follows(guest', history', Stream', host'.rev, j)
  <2> DEFINE rev == q.rev
             text == q.last
             h == history \o texts
             S == Stream
  <2>1. /\ S \in Seq(Frame) /\ rev \in Nat /\ text \in Seq(Char) /\ h[rev + 1] = text
        /\ frames = Parts("SYNC_RESPONSE", rev, text)
    BY <1>3, <1>6, <1>8 DEF Answers
  <2> HIDE DEF rev, text, h, S
  <2>2. /\ Follows(guest, h, S \o frames, rev, Len(S \o frames))
        /\ Len(S \o frames) \in 0..Len(S \o frames)
    BY <2>1, <1>5, FollowsAnswer
  <2> QED BY <2>2, <1>1, <1>2 DEF rev, h, S
<1>9. CASE HostEdits
  <2>1. toHost' = toHost
    BY <1>9, HostEditsSays DEF HostEdits
  <2>2. ASSUME NEW j \in 0..Len(Stream), Follows(guest, history, Stream, host.rev, j)
        PROVE  /\ j \in 0..Len(Stream')
               /\ Follows(guest', history', Stream', host'.rev, j)
    <3> DEFINE rev == host.rev
               S == Stream
               h == history
    <3>1. /\ Len(frames) = Len(texts)
          /\ \A k \in 1..Len(frames) :
                frames[k].type = "APPLY" /\ frames[k].client = "A" /\ frames[k].rev = rev + k
      BY <1>1, <1>9 DEF Operates
    <3>2. Held(guest, h, S) /\ \A k \in 1..Len(S) : Tells(h, S[k])
      BY <1>7 DEF HeldInv, StreamInv
    <3>3. /\ S \in Seq(Frame) /\ h \in Seq(Seq(Char)) /\ rev \in Nat /\ Len(h) = rev + 1
          /\ j \in 0..Len(S) /\ Follows(guest, h, S, rev, j)
      BY <1>6, <2>2
    <3>4. host'.rev = rev + Len(texts)
      BY <1>2, <1>3
    <3> HIDE DEF rev, S, h
    <3>5. /\ Follows(guest, h \o texts, S \o frames, rev + Len(texts), j)
          /\ j \in 0..Len(S \o frames)
      BY <3>1, <3>2, <3>3, <1>3, <1>5, <1>6, FollowsOperations
    <3> QED BY <3>4, <3>5, <1>1, <1>2 DEF S, h
  <2> QED BY <2>1, <2>2, <1>7
<1>10. CASE HostHandles
  <2>1. toHost # <<>> /\ toHost' = Tail(toHost)
    BY <1>10, HostHandlesSays
  <2>2. /\ Announced(Tail(toHost))
        /\ Head(toHost).type \in {"EDIT", "DOCUMENT_SNAPSHOT"} => Joins(Tail(toHost))
    BY <2>1, <1>6, <1>7, AnnouncedTail
  <2>3. Head(toHost).type \in {"PEER_JOINED", "SYNC_REQUEST", "EDIT", "DOCUMENT_SNAPSHOT"}
    <3>1. Head(toHost) \in GuestFrame
      BY <2>1, <1>6, HeadTailProperties
    <3> QED BY <3>1 DEF GuestFrame, DocumentChunk
  <2>4. CASE Head(toHost).type \in {"PEER_JOINED", "SYNC_REQUEST"}
    <3>1. Answers(q, frames)
      BY <1>1, <1>10, <2>4
    <3> QED BY <3>1, <1>8, <2>1, <2>2
  <2>5. CASE Head(toHost).type \in {"EDIT", "DOCUMENT_SNAPSHOT"}
    BY <2>1, <2>2, <2>5
  <2> QED BY <2>3, <2>4, <2>5
<1> QED BY <1>9, <1>10

\* A guest at rest handles a frame, asks at most for the document, and is at rest again.
LEMMA RestHandles ==
    ASSUME PagesInv, AtRest(guest), guest.last = guest.editor, GuestHandles, guest'.asGiven
    PROVE  AtRest(guest') /\ guest'.last = guest'.editor
<1> DEFINE m == Head(toGuest)
<1>1. PICK q \in PageType, frames \in Seq(GuestFrame) :
        /\ GuestBecomes(q, frames)
        /\ \/ /\ m.type = "JOIN_OK"
              /\ q = [guest EXCEPT !.role = "guest", !.rev = 0, !.last = guest.editor]
           \/ /\ m.type = "SYNC_RESPONSE" /\ Complete(Collected(guest, m))
              /\ q = Synchronised(guest, m)
           \/ /\ m.type = "SYNC_RESPONSE" /\ q = [guest EXCEPT !.chunks = Collected(guest, m)]
           \/ /\ m.type = "APPLY" /\ q = guest
           \/ /\ m.type = "APPLY" /\ q = [guest EXCEPT !.rev = m.rev, !.last = guest.editor]
           \/ /\ m.type = "APPLY" /\ Fits(guest.editor, m.op) /\ q = Followed(guest, m)
  BY GuestHandlesCases
<1>2. guest' = q /\ q.asGiven
  BY <1>1 DEF GuestBecomes
<1>3. ~guest.composing /\ ~guest.timer /\ guest.pending = <<>> /\ guest.deferred = <<>>
  BY DEF AtRest, NothingWaits
<1>4. guest \in PageType
  BY DEF PagesInv
<1>5. /\ m.type # "JOIN_OK" => m.rev \in Nat
      /\ m.type = "APPLY" => m.op \in Operation
      /\ m.type = "SYNC_RESPONSE" => m \in DocumentChunk("SYNC_RESPONSE")
  <2>1. m \in Frame
    BY GuestHandlesCases
  <2> QED BY <2>1, FrameFields
<1> HIDE DEF m
<1>6. CASE q = [guest EXCEPT !.role = "guest", !.rev = 0, !.last = guest.editor]
  BY <1>2, <1>3, <1>4, <1>6 DEF AtRest, NothingWaits, PageType
<1>7. CASE m.type = "SYNC_RESPONSE" /\ Complete(Collected(guest, m)) /\ q = Synchronised(guest, m)
  BY <1>2, <1>3, <1>4, <1>5, <1>7, SynchronisedType DEF AtRest, NothingWaits
<1>8. CASE q = [guest EXCEPT !.chunks = Collected(guest, m)]
  BY <1>2, <1>3, <1>4, <1>8 DEF AtRest, NothingWaits, PageType
<1>9. CASE q = guest
  BY <1>2, <1>3, <1>9 DEF AtRest, NothingWaits
<1>10. CASE q = [guest EXCEPT !.rev = m.rev, !.last = guest.editor]
  BY <1>2, <1>3, <1>4, <1>10 DEF AtRest, NothingWaits, PageType
<1>11. CASE m.type = "APPLY" /\ Fits(guest.editor, m.op) /\ q = Followed(guest, m)
  BY <1>2, <1>3, <1>4, <1>5, <1>11, FollowedType DEF AtRest, NothingWaits
<1> QED BY <1>1, <1>6, <1>7, <1>8, <1>9, <1>10, <1>11

\* The guest handles a frame and is still a reader that follows.
LEMMA ReaderHandles ==
    ASSUME PagesInv, StreamInv, HeldInv, ReaderInv, GuestHandles, guest'.asGiven
    PROVE  ReaderInv'
<1>1. PICK frames \in Seq(GuestFrame) :
        /\ toHost' = toHost \o frames
        /\ frames = <<>> \/ frames = <<[type |-> "SYNC_REQUEST"]>>
        /\ follows' \in {follows, IF follows = "waits" THEN "follows" ELSE follows}
  BY GuestHandlesCases DEF GuestBecomes
<1>2. follows' # "no" => follows # "no"
  BY <1>1
<1> SUFFICES ASSUME follows # "no"
             PROVE  /\ guest'.role # "offline" /\ AtRest(guest') /\ guest'.last = guest'.editor
                    /\ Announced(toHost')
                    /\ \/ Joins(toHost')
                       \/ \E j \in 0..Len(Stream') : Follows(guest', history', Stream', host'.rev, j)
  BY <1>2 DEF ReaderInv
<1>3. /\ AtRest(guest) /\ guest.last = guest.editor /\ Announced(toHost)
      /\ Joins(toHost) \/ \E j \in 0..Len(Stream) : Follows(guest, history, Stream, host.rev, j)
  BY DEF ReaderInv
<1>4. guest'.role # "offline"
  BY GuestHandlesKeepsStream
<1>5. AtRest(guest') /\ guest'.last = guest'.editor
  BY <1>3, RestHandles
<1>6. \A k \in 1..Len(frames) : frames[k].type \notin {"EDIT", "DOCUMENT_SNAPSHOT"}
  BY <1>1
<1>7. Announced(toHost') /\ (Joins(toHost) => Joins(toHost'))
  <2>1. toHost \in Seq(GuestFrame)
    BY DEF PagesInv
  <2> QED BY <2>1, <1>1, <1>3, <1>6, AnnouncedLonger
<1>8. ASSUME NEW j \in 0..Len(Stream), Follows(guest, history, Stream, host.rev, j)
      PROVE  \E i \in 0..Len(Stream') : Follows(guest', history', Stream', host'.rev, i)
  BY <1>3, <1>8, FollowsHandles DEF AtRest
<1> QED BY <1>3, <1>4, <1>5, <1>7, <1>8

\* So every step whose text comes back as it was leaves a reader on its way to the newest
\* document.
LEMMA NextKeepsReader ==
    ASSUME PagesInv, StreamInv, HeldInv, ReaderInv, [Next]_vars, guest'.asGiven
    PROVE  ReaderInv'
<1>1. CASE Next
  <2>1. CASE HostEdits \/ HostHandles
    BY <2>1, ReaderHostSteps
  <2>2. CASE HubRelays
    <3>1. /\ UNCHANGED <<host, guest, toHost, history>>
          /\ \/ Stream' = Stream /\ follows' = follows
             \/ guest.role = "offline" \/ follows' = "no"
      BY <2>2, HubKeepsStream
    <3>2. follows' = follows \/ follows' = "no"
      BY <2>2 DEF HubRelays
    <3> QED BY <3>1, <3>2 DEF ReaderInv, AtRest, NothingWaits
  <2>3. CASE GuestEdits
    <3>1. follows' = "no" \/ (follows' = follows /\ (GuestSaves \/ GuestGoesOn))
      BY <2>3 DEF GuestEdits, GuestTypes, GuestComposes, GuestSaves, GuestGoesOn
    <3>2. ASSUME follows # "no", GuestSaves \/ GuestGoesOn PROVE FALSE
      <4>1. AtRest(guest) /\ guest.last = guest.editor
        BY <3>2 DEF ReaderInv
      <4> QED BY <3>2, <4>1 DEF AtRest, NothingWaits, GuestSaves, GuestGoesOn
    <3> QED BY <3>1, <3>2 DEF ReaderInv
  <2>4. CASE GuestHandles
    BY <2>4, ReaderHandles
  <2>5. CASE GuestJoins
    <3>1. /\ guest' = [guest EXCEPT !.role = "joining", !.rev = 0, !.last = guest.editor,
                                    !.chunks = NoChunks]
          /\ toHost' = toHost \o <<[type |-> "PEER_JOINED"]>>
          /\ follows' = IF AtRest(guest) THEN "waits" ELSE "no"
      BY <2>5, GuestJoinsKeepsStream
    <3>2. ASSUME AtRest(guest)
          PROVE  guest'.role # "offline" /\ AtRest(guest') /\ guest'.last = guest'.editor
      <4>1. guest \in PageType
        BY DEF PagesInv
      <4> QED BY <3>1, <3>2, <4>1 DEF AtRest, NothingWaits, PageType
    <3>3. Announced(toHost') /\ Joins(toHost')
      <4> DEFINE D == <<[type |-> "PEER_JOINED"]>>
      <4>1. [type |-> "PEER_JOINED"] \in GuestFrame
        BY DEF GuestFrame
      <4>2. Len(D) = 1 /\ D[1].type = "PEER_JOINED"
        OBVIOUS
      <4>3. D \in Seq(GuestFrame)
        <5> HIDE DEF GuestFrame
        <5> QED BY <4>1
      <4>4. toHost \in Seq(GuestFrame)
        BY DEF PagesInv
      <4> HIDE DEF D
      <4>5. Announced(toHost \o D) /\ Joins(toHost \o D)
        BY <4>2, <4>3, <4>4, AnnouncedLonger
      <4> QED BY <4>5, <3>1 DEF D
    <3> QED BY <3>1, <3>2, <3>3 DEF ReaderInv
  <2>6. ASSUME NEW kept \in 0..Len(toHost), GuestLoses(kept) PROVE ReaderInv'
    BY <2>6 DEF GuestLoses, ReaderInv
  <2> QED BY <1>1, <2>1, <2>2, <2>3, <2>4, <2>5, <2>6, NextCases
<1>2. CASE UNCHANGED vars
  <2>1. UNCHANGED <<host, guest, toHub, toGuest, toHost, history, follows>>
    BY <1>2 DEF vars, channels
  <2>2. Stream' = Stream
    BY <2>1 DEF Stream
  <2> QED BY <2>1, <2>2 DEF ReaderInv, AtRest, NothingWaits
<1> QED BY <1>1, <1>2

\* sendRelayFullSync leaves nothing of a page unsent and nothing else changed.
LEMMA FullSyncFields ==
    ASSUME NEW p \in PageType, NEW texts, SendRelayFullSync(p, texts)
    PROVE  /\ host'.pending = p.pending /\ host'.deferred = p.deferred
           /\ host'.chunks = p.chunks /\ host'.timer = p.timer /\ host'.composing = p.composing
           /\ host'.editor = host'.last /\ host'.editor = p.editor
           /\ p.editor = p.last => host'.rev = p.rev
           /\ host'.asGiven = p.asGiven
<1>1. CASE p.editor # p.last
  <2>1. host' = [p EXCEPT !.rev = p.rev + 1, !.last = p.editor]
    BY <1>1 DEF SendRelayFullSync, HostBecomes
  <2> QED BY <2>1, <1>1 DEF PageType
<1>2. CASE ~(p.editor # p.last)
  <2>1. host' = p
    BY <1>2 DEF SendRelayFullSync, HostBecomes
  <2> QED BY <2>1, <1>2
<1> QED BY <1>1, <1>2

\* An editor that has altered a text is never again one that has not: host's steps,
LEMMA HostGivenLasts ==
    ASSUME PagesInv, HostEdits \/ HostHandles, host'.asGiven
    PROVE  host.asGiven
<1>1. host \in PageType /\ host.last \in Seq(Char) /\ host.editor \in Seq(Char)
  BY PageFields DEF PagesInv
<1>2. ASSUME NEW p \in PageType, HostFlushes(p) PROVE host'.asGiven = p.asGiven
  <2> DEFINE rev == p.rev + Len(ComputeEditorDiff(p.last, p.editor))
  <2>1. host' = [p EXCEPT !.last = p.editor, !.rev = rev]
    BY <1>2 DEF HostFlushes, HostBecomes
  <2> HIDE DEF rev
  <2> QED BY <2>1 DEF PageType
<1>3. ASSUME NEW p \in PageType, NEW t, host' = [p EXCEPT !.timer = t] PROVE p.asGiven
  BY <1>3 DEF PageType
<1>4. CASE \E text \in TypedTexts : HostTypes(text)
  <2>1. PICK text \in TypedTexts : host' = Typed(host, text)
    BY <1>4 DEF HostTypes, HostBecomes
  <2> DEFINE p == [host EXCEPT !.editor = text]
  <2>2. text \in Seq(Char)
    BY RelayPagesAssumption, TextIsSeq
  <2>3. p \in PageType /\ p.asGiven = host.asGiven
    BY <1>1, <2>2 DEF PageType
  <2>4. \E t : host' = [p EXCEPT !.timer = t]
    BY <2>1 DEF Typed, Scheduled
  <2> HIDE DEF p
  <2> QED BY <2>3, <2>4, <1>3
<1>5. CASE HostComposes
  <2>1. host' = [host EXCEPT !.composing = TRUE]
    BY <1>5 DEF HostComposes, HostBecomes
  <2> QED BY <2>1, <1>1 DEF PageType
<1>6. CASE HostSaves
  BY <1>1, <1>2, <1>6 DEF HostSaves
<1>7. CASE HostGoesOn
  <2>1. CASE host.composing /\ HostBecomes(Composed(host), <<>>, <<>>)
    <3> DEFINE d == host.deferred \o host.pending
               p == [host EXCEPT !.composing = FALSE, !.deferred = d, !.pending = <<>>]
    <3>1. d \in Seq(Seq(Char)) /\ <<>> \in Seq(Seq(Char))
      BY <1>1, ConcatProperties DEF PageType
    <3>2. \E t : host' = [p EXCEPT !.timer = t]
      BY <2>1 DEF HostBecomes, Composed, Scheduled
    <3> HIDE DEF d
    <3>3. p \in PageType /\ p.asGiven = host.asGiven
      BY <1>1, <3>1 DEF PageType
    <3> HIDE DEF p
    <3> QED BY <3>2, <3>3, <1>3
  <2>2. CASE host.deferred # <<>> /\ HostBecomes(ShownLate(host), <<>>, <<>>)
    BY <1>1, <2>2, ShownLateType DEF HostBecomes
  <2>3. CASE host.timer /\ HostFlushes([host EXCEPT !.timer = FALSE])
    <3> DEFINE p == [host EXCEPT !.timer = FALSE]
    <3>1. p \in PageType /\ p.asGiven = host.asGiven
      BY <1>1 DEF PageType
    <3>2. HostFlushes(p)
      BY <2>3
    <3> HIDE DEF p
    <3> QED BY <3>1, <3>2, <1>2
  <2> QED BY <1>7, <2>1, <2>2, <2>3 DEF HostGoesOn
<1>8. CASE HostHandles
  <2> DEFINE m == Head(toHost)
  <2>1. m \in GuestFrame
    BY <1>8, HeadTailProperties DEF PagesInv, HostHandles
  <2>2. CASE SendRelayFullSync(host, <<>>)
    BY <1>1, <2>2, FullSyncFields
  <2>3. CASE m.type = "EDIT" /\ ~SendRelayFullSync(host, <<>>)
    <3> DEFINE text == Applied(host.last, m.op)
               rev == host.rev + 1
               p == [host EXCEPT !.last = text, !.rev = rev]
    <3>1. HostApplies(host, m.op) /\ m.op \in Operation
      BY <1>8, <2>1, <2>3 DEF HostHandles, GuestFrame, DocumentChunk
    <3>2. Fits(host.last, m.op) /\ host' = Shown(p, text)
      BY <2>3, <3>1 DEF HostApplies, HostBecomes
    <3>3. text \in Seq(Char) /\ rev \in Nat
      BY <1>1, <3>1, <3>2, FitsApplied, PageFields
    <3> HIDE DEF text, rev, m
    <3>4. p \in PageType /\ p.asGiven = host.asGiven
      BY <1>1, <3>3 DEF PageType
    <3> HIDE DEF p
    <3> QED BY <3>2, <3>3, <3>4, ShownType
  <2>4. CASE m.type = "DOCUMENT_SNAPSHOT"
    <3> DEFINE c == Collected(host, m)
               text == Joined(c)
               empty == [c EXCEPT !.parts = <<>>]
               rev == host.rev + 1
               p == [host EXCEPT !.chunks = empty, !.rev = rev, !.last = text]
    <3>1. HostCollects(host, m) /\ m \in DocumentChunk("DOCUMENT_SNAPSHOT")
      BY <1>8, <2>1, <2>4 DEF HostHandles, GuestFrame, DocumentChunk
    <3>2. IF Complete(c) THEN SendRelayFullSync(Shown(p, text), <<text>>)
                         ELSE host' = [host EXCEPT !.chunks = c]
      BY <3>1 DEF HostCollects, HostBecomes
    <3>3. c \in ChunksType
      BY <1>1, <3>1, CollectedType
    <3>4. Complete(c) => text \in Seq(Char)
      BY <3>3, JoinedType DEF ChunksType
    <3> HIDE DEF c, text, m
    <3>5. empty \in ChunksType /\ rev \in Nat
      <4>1. <<>> \in Seq(Seq(Seq(Char)))
        OBVIOUS
      <4> QED BY <1>1, <3>3, <4>1, PageFields DEF ChunksType
    <3> HIDE DEF empty, rev
    <3>6. CASE Complete(c)
      <4>1. p \in PageType /\ p.asGiven = host.asGiven
        BY <1>1, <3>4, <3>5, <3>6 DEF PageType
      <4> HIDE DEF p
      <4>2. Shown(p, text) \in PageType /\ (Shown(p, text).asGiven => p.asGiven)
        BY <3>4, <3>6, <4>1, ShownType
      <4>3. host'.asGiven = Shown(p, text).asGiven
        BY <3>2, <3>6, <4>2, FullSyncFields
      <4> QED BY <4>1, <4>2, <4>3
    <3>7. CASE ~Complete(c)
      <4>1. host' = [host EXCEPT !.chunks = c]
        BY <3>2, <3>7
      <4> QED BY <4>1, <1>1 DEF PageType
    <3> QED BY <3>6, <3>7
  <2>5. m.type \in {"PEER_JOINED", "SYNC_REQUEST"} => SendRelayFullSync(host, <<>>)
    BY <1>8 DEF HostHandles
  <2>6. m.type \in {"PEER_JOINED", "SYNC_REQUEST", "EDIT", "DOCUMENT_SNAPSHOT"}
    BY <2>1 DEF GuestFrame, DocumentChunk
  <2> QED BY <2>2, <2>3, <2>4, <2>5, <2>6
<1> QED BY <1>4, <1>5, <1>6, <1>7, <1>8 DEF HostEdits

\* the guest's,
LEMMA GuestGivenLasts ==
    ASSUME PagesInv, GuestEdits \/ GuestHandles, guest'.asGiven
    PROVE  guest.asGiven
<1>1. guest \in PageType
  BY DEF PagesInv
<1>2. ASSUME NEW p \in PageType, GuestFlushes(p) PROVE guest'.asGiven = p.asGiven
  <2>1. guest' = [p EXCEPT !.last = p.editor]
    BY <1>2 DEF GuestFlushes, GuestBecomes
  <2> QED BY <2>1 DEF PageType
<1>3. ASSUME NEW p \in PageType, NEW t, guest' = [p EXCEPT !.timer = t] PROVE p.asGiven
  BY <1>3 DEF PageType
<1>4. CASE GuestHandles
  <2> DEFINE m == Head(toGuest)
  <2>1. PICK q \in PageType, frames \in Seq(GuestFrame) :
          /\ GuestBecomes(q, frames)
          /\ \/ /\ m.type = "JOIN_OK"
                /\ q = [guest EXCEPT !.role = "guest", !.rev = 0, !.last = guest.editor]
             \/ /\ m.type = "SYNC_RESPONSE" /\ Complete(Collected(guest, m))
                /\ q = Synchronised(guest, m)
             \/ /\ m.type = "SYNC_RESPONSE" /\ q = [guest EXCEPT !.chunks = Collected(guest, m)]
             \/ /\ m.type = "APPLY" /\ q = guest
             \/ /\ m.type = "APPLY" /\ q = [guest EXCEPT !.rev = m.rev, !.last = guest.editor]
             \/ /\ m.type = "APPLY" /\ Fits(guest.editor, m.op) /\ q = Followed(guest, m)
    BY <1>4, GuestHandlesCases
  <2>2. guest' = q /\ q.asGiven
    BY <2>1 DEF GuestBecomes
  <2>3. /\ m.type # "JOIN_OK" => m.rev \in Nat
        /\ m.type = "APPLY" => m.op \in Operation
        /\ m.type = "SYNC_RESPONSE" => m \in DocumentChunk("SYNC_RESPONSE")
    <3>1. m \in Frame
      BY <1>4, GuestHandlesCases
    <3> QED BY <3>1, FrameFields
  <2> HIDE DEF m
  <2>4. CASE q = [guest EXCEPT !.role = "guest", !.rev = 0, !.last = guest.editor]
    BY <2>2, <2>4, <1>1 DEF PageType
  <2>5. CASE m.type = "SYNC_RESPONSE" /\ Complete(Collected(guest, m)) /\ q = Synchronised(guest, m)
    BY <2>2, <2>3, <2>5, <1>1, SynchronisedType
  <2>6. CASE q = [guest EXCEPT !.chunks = Collected(guest, m)]
    BY <2>2, <2>6, <1>1 DEF PageType
  <2>7. CASE q = guest
    BY <2>2, <2>7
  <2>8. CASE q = [guest EXCEPT !.rev = m.rev, !.last = guest.editor]
    BY <2>2, <2>8, <1>1 DEF PageType
  <2>9. CASE m.type = "APPLY" /\ Fits(guest.editor, m.op) /\ q = Followed(guest, m)
    BY <2>2, <2>3, <2>9, <1>1, FollowedType
  <2> QED BY <2>1, <2>4, <2>5, <2>6, <2>7, <2>8, <2>9
<1>5. CASE \E text \in TypedTexts : GuestTypes(text)
  <2>1. PICK text \in TypedTexts : guest' = Typed(guest, text)
    BY <1>5 DEF GuestTypes, GuestBecomes
  <2> DEFINE p == [guest EXCEPT !.editor = text]
  <2>2. text \in Seq(Char)
    BY RelayPagesAssumption, TextIsSeq
  <2>3. p \in PageType /\ p.asGiven = guest.asGiven
    BY <1>1, <2>2 DEF PageType
  <2>4. \E t : guest' = [p EXCEPT !.timer = t]
    BY <2>1 DEF Typed, Scheduled
  <2> HIDE DEF p
  <2> QED BY <2>3, <2>4, <1>3
<1>6. CASE GuestComposes
  <2>1. guest' = [guest EXCEPT !.composing = TRUE]
    BY <1>6 DEF GuestComposes, GuestBecomes
  <2> QED BY <2>1, <1>1 DEF PageType
<1>7. CASE GuestSaves
  BY <1>1, <1>2, <1>7 DEF GuestSaves
<1>8. CASE GuestGoesOn
  <2>1. CASE guest.composing /\ GuestBecomes(Composed(guest), <<>>)
    <3> DEFINE d == guest.deferred \o guest.pending
               p == [guest EXCEPT !.composing = FALSE, !.deferred = d, !.pending = <<>>]
    <3>1. d \in Seq(Seq(Char)) /\ <<>> \in Seq(Seq(Char))
      BY <1>1, ConcatProperties DEF PageType
    <3>2. \E t : guest' = [p EXCEPT !.timer = t]
      BY <2>1 DEF GuestBecomes, Composed, Scheduled
    <3> HIDE DEF d
    <3>3. p \in PageType /\ p.asGiven = guest.asGiven
      BY <1>1, <3>1 DEF PageType
    <3> HIDE DEF p
    <3> QED BY <3>2, <3>3, <1>3
  <2>2. CASE guest.deferred # <<>> /\ GuestBecomes(ShownLate(guest), <<>>)
    BY <1>1, <2>2, ShownLateType DEF GuestBecomes
  <2>3. CASE guest.timer /\ GuestFlushes([guest EXCEPT !.timer = FALSE])
    <3> DEFINE p == [guest EXCEPT !.timer = FALSE]
    <3>1. p \in PageType /\ p.asGiven = guest.asGiven
      BY <1>1 DEF PageType
    <3>2. GuestFlushes(p)
      BY <2>3
    <3> HIDE DEF p
    <3> QED BY <3>1, <3>2, <1>2
  <2> QED BY <1>8, <2>1, <2>2, <2>3 DEF GuestGoesOn
<1> QED BY <1>4, <1>5, <1>6, <1>7, <1>8 DEF GuestEdits

\* and everybody else's.
LEMMA GivenLasts ==
    ASSUME PagesInv, [Next]_vars, AsGiven'
    PROVE  AsGiven
<1>1. host'.asGiven /\ guest'.asGiven
  BY DEF AsGiven
<1>2. host.asGiven
  <2>1. CASE HostEdits \/ HostHandles
    BY <1>1, <2>1, HostGivenLasts
  <2>2. CASE host' = host
    BY <1>1, <2>2
  <2>3. CASE HubRelays \/ GuestEdits \/ GuestHandles \/ GuestJoins \/ \E kept \in 0..Len(toHost) : GuestLoses(kept)
    <3>1. HubRelays \/ GuestJoins \/ (\E kept \in 0..Len(toHost) : GuestLoses(kept)) => host' = host
      BY DEF HubRelays, GuestJoins, GuestLoses, GuestBecomes
    <3>2. GuestEdits => host' = host
      BY DEF GuestEdits, GuestTypes, GuestComposes, GuestSaves, GuestGoesOn, GuestFlushes, GuestBecomes
    <3>3. GuestHandles => host' = host
      <4> SUFFICES ASSUME GuestHandles PROVE host' = host
        OBVIOUS
      <4>1. \E q \in PageType, frames \in Seq(GuestFrame) : GuestBecomes(q, frames)
        BY GuestHandlesCases
      <4> QED BY <4>1 DEF GuestBecomes
    <3> QED BY <2>3, <3>1, <3>2, <3>3, <1>1
  <2> QED BY <2>1, <2>2, <2>3, NextCases DEF vars
<1>3. guest.asGiven
  <2>1. CASE GuestEdits \/ GuestHandles
    BY <1>1, <2>1, GuestGivenLasts
  <2>2. CASE guest' = guest
    BY <1>1, <2>2
  <2>3. CASE HostEdits \/ HostHandles
    <3>1. guest' = guest
      BY <2>3, HostEditsSays, HostHandlesSays DEF HostEdits, HostBecomes
    <3> QED BY <3>1, <1>1
  <2>4. CASE GuestJoins
    <3>1. guest' = [guest EXCEPT !.role = "joining", !.rev = 0, !.last = guest.editor, !.chunks = NoChunks]
      BY <2>4 DEF GuestJoins, GuestBecomes
    <3> QED BY <3>1, <1>1 DEF PagesInv, PageType
  <2>5. CASE \E kept \in 0..Len(toHost) : GuestLoses(kept)
    <3>1. guest' = [guest EXCEPT !.role = "offline", !.timer = FALSE]
      BY <2>5 DEF GuestLoses
    <3> QED BY <3>1, <1>1 DEF PagesInv, PageType
  <2>6. HubRelays => guest' = guest
    BY DEF HubRelays
  <2> QED BY <2>1, <2>2, <2>3, <2>4, <2>5, <2>6, NextCases DEF vars
<1> QED BY <1>2, <1>3 DEF AsGiven

\* A guest that only reads follows the host: whenever a connection has been synchronised
\* and no further synchronisation is on its way, it shows the document of the revision it
\* counts - over synchronisations that cross, operations that come before the document
\* they change, and changes an earlier connection left behind at the host. ReaderFollows
\* speaks of a guest whose editor gave every text shown so far back as it was.
THEOREM GuestReads == Spec => []ReaderFollows
<1> DEFINE Inv == PagesInv /\ StreamInv /\ HeldInv /\ (AsGiven => ReaderInv)
<1>1. Init => Inv
  <2>1. Init => HeldInv /\ ReaderInv
    <3> SUFFICES ASSUME Init PROVE HeldInv /\ ReaderInv
      OBVIOUS
    <3>1. \A text : Page("offline", text).role = "offline"
      BY DEF Page
    <3>2. guest.role = "offline"
      BY <3>1 DEF Init
    <3> QED BY <3>2 DEF Init, HeldInv, ReaderInv
  <2> QED BY <2>1, InitStream
<1>2. Inv /\ [Next]_vars => Inv'
  <2> SUFFICES ASSUME Inv, [Next]_vars PROVE Inv'
    OBVIOUS
  <2>1. ASSUME AsGiven' PROVE ReaderInv'
    <3>1. AsGiven /\ guest'.asGiven
      BY <2>1, GivenLasts DEF AsGiven
    <3> QED BY <3>1, NextKeepsReader
  <2> QED BY <2>1, NextKeepsStream, NextKeepsHeld
<1>3. Inv => ReaderFollows
  <2>1. ~AsGiven => ReaderFollows
    BY DEF ReaderFollows
  <2> QED BY <2>1, ReaderFollowsFromInv
<1> HIDE DEF Inv
<1> QED BY <1>1, <1>2, <1>3, PTL DEF Spec

-----------------------------------------------------------------------------
(* Two users who wait for each other. *)

Changing(m) == m.type \in {"EDIT", "DOCUMENT_SNAPSHOT"}

\* The first n frames of D are operations that lead from one text to another; there are
\* never more of them than one diff has.
EditsLead(from, D, n, to) ==
    /\ \A i \in 1..n : D[i].type = "EDIT"
    /\ \/ n = 0 /\ from = to
       \/ n = 1 /\ Fits(from, D[1].op) /\ Applied(from, D[1].op) = to
       \/ /\ n = 2 /\ Fits(from, D[1].op) /\ Applied(from, D[1].op) \in Seq(Char)
          /\ Fits(Applied(from, D[1].op), D[2].op)
          /\ Applied(Applied(from, D[1].op), D[2].op) = to

\* The first n frames of D are chunks of the text, behind k that are held already.
SnapshotComes(chunks, D, n, k, rev, text) ==
    /\ k + n <= Count(text)
    /\ \A i \in 1..n : D[i] = Parts("DOCUMENT_SNAPSHOT", rev, text)[k + i]
    /\ k > 0 => /\ chunks.rev = rev /\ Len(chunks.parts) = Count(text)
                /\ \A i \in 1..k : chunks.parts[i] = <<Chunk(text, i)>>

\* The chunk that completes a document is its last one.
LastMissing(chunks) == chunks.parts # <<>> => chunks.parts[Len(chunks.parts)] = <<>>

\* Nothing interrupts the host's user, and what was typed is going to be sent.
HostPolite ==
    /\ NothingWaits(host) /\ LastMissing(host.chunks)
    /\ host.editor # host.last => host.timer \/ host.composing

\* The changes on their way to the host come first, and the host waits for them.  They are
\* one change, all of it or what was not lost.
Changed(n) ==
    \/ \E to \in Seq(Char) : EditsLead(host.last, toHost, n, to)
    \/ \E text \in Seq(Char), rev \in Nat, k \in Nat :
          SnapshotComes(host.chunks, toHost, n, k, rev, text)
Left ==
    Changes(toHost) =>
        /\ AtRest(host)
        /\ \E n \in 1..Len(toHost) :
              Changed(n) /\ \A i \in n + 1..Len(toHost) : ~Changing(toHost[i])

\* A guest whose PEER_JOINED is on its way has nothing of its own.
Waits == AtRest(guest) /\ guest.last = guest.editor /\ Left

\* The guest is going to show the host's document; or its composition goes on over the
\* document it has sent itself.
Composes ==
    /\ AtRest(host) /\ toHost = <<>> /\ guest.editor = host.last
    /\ \A i \in 1..Len(guest.pending) : guest.pending[i] = guest.editor
    /\ \A i \in 1..Len(guest.deferred) : guest.deferred[i] = guest.editor
    /\ \A i \in 1..Len(Stream) : Stream[i].type = "SYNC_RESPONSE" /\ Stream[i].rev = host.rev
Reads ==
    /\ guest.last = guest.editor /\ ~Changes(toHost)
    /\ AtRest(guest) \/ Composes
    /\ \E j \in 0..Len(Stream) : Follows(guest, history, Stream, host.rev, j)

\* Its user has typed what it has not sent.
Writes ==
    /\ toHost = <<>> /\ Stream = <<>> /\ AtRest(host) /\ NothingWaits(guest)
    /\ guest.last = host.last /\ guest.rev = host.rev
    /\ guest.editor # guest.last /\ (guest.timer \/ guest.composing)

\* Its operations are on their way to the host or back from it, perhaps with operations of
\* the host behind them.
Echoes(n) ==
    \A i \in 1..Len(Stream) :
        /\ Stream[i].type = "APPLY" /\ Stream[i].rev = guest.rev + i
        /\ Stream[i].client = IF i <= n THEN "B" ELSE "A"
Operating ==
    /\ NothingWaits(guest) /\ guest.last = guest.editor
    /\ guest.rev + Len(Stream) = host.rev
    /\ \E n \in 0..Len(Stream) :
          /\ Echoes(n)
          /\ \/ n = Len(Stream) /\ AtRest(host) /\ EditsLead(host.last, toHost, Len(toHost), guest.last)
             \/ toHost = <<>> /\ AtRest(guest) /\ guest.last = history[guest.rev + n + 1]

\* The document it has sent is on its way to the host.
Sends ==
    /\ NothingWaits(guest) /\ guest.last = guest.editor
    /\ Stream = <<>> /\ toHost # <<>> /\ AtRest(host)
    /\ \E rev \in Nat, k \in Nat :
          /\ k + Len(toHost) = Count(guest.last)
          /\ SnapshotComes(host.chunks, toHost, Len(toHost), k, rev, guest.last)

PoliteInv ==
    polite =>
        /\ HostPolite
        /\ guest.role = "joining" => Stream # <<>> /\ Stream[1].type = "JOIN_OK"
        /\ guest.role = "offline" => Left /\ ~guest.timer
        /\ guest.role # "offline" /\ Joins(toHost) => Waits
        /\ guest.role # "offline" /\ ~Joins(toHost) => Reads \/ Writes \/ Operating \/ Sends

\* A page at rest has nothing typed, composed or to be shown.
LEMMA Rest ==
    ASSUME NEW p
    PROVE  AtRest(p) <=> p.pending = <<>> /\ p.deferred = <<>> /\ ~p.timer /\ ~p.composing
BY DEF AtRest, NothingWaits

\* The diff of a text and itself is empty.
LEMMA DiffSame ==
    ASSUME NEW text \in Seq(Char)
    PROVE  ComputeEditorDiff(text, text) = <<>>
<1> DEFINE p == CommonPrefix(text, text)
           s == CommonSuffix(text, text)
           n == Len(text)
           inserted == SubSeq(text, p + 1, n - s)
<1>1. p \in 0..n /\ LongestPrefix(text, text, p) /\ n \in Nat
  BY CommonPrefixProperties, LenProperties
<1>2. s \in 0..n /\ LongestSuffix(text, text, p, s)
  BY CommonSuffixProperties
<1>3. /\ p <= n /\ ~ (p + 1 <= n)
  <2> HIDE DEF p
  <2> QED BY <1>1 DEF LongestPrefix, IsCommonPrefix
<1>4. p + s <= n
  <2> HIDE DEF p, s
  <2> QED BY <1>2 DEF LongestSuffix, IsCommonSuffix
<1>5. p = n /\ s = 0 /\ ~ (n - s - p > 0)
  <2> HIDE DEF p, s, n
  <2> QED BY <1>1, <1>2, <1>3, <1>4
<1>6. inserted = <<>>
  <2>1. inserted = SubSeq(text, n + 1, n)
    <3>1. p + 1 = n + 1 /\ n - s = n
      <4> HIDE DEF p, s, n
      <4> QED BY <1>1, <1>5
    <3> QED BY <3>1
  <2>2. n + 1 \in Int /\ n \in Int /\ n < n + 1
    BY <1>1
  <2> HIDE DEF n
  <2> QED BY <2>1, <2>2, SubSeqEmpty
<1>7. ComputeEditorDiff(text, text) =
        (IF n - s - p > 0 THEN <<Delete(p, n - s - p)>> ELSE <<>>)
            \o (IF inserted # <<>> THEN <<Insert(p, inserted)>> ELSE <<>>)
  BY DEF ComputeEditorDiff
<1> HIDE DEF p, s, n, inserted
<1>8. ComputeEditorDiff(text, text) = <<>> \o <<>>
  BY <1>5, <1>6, <1>7
<1> QED BY <1>8, ConcatEmptySeq, EmptySeq

\* What the first operation leads to; and what is left when the last ones are lost.
LEMMA LeadsTail ==
    ASSUME NEW from \in Seq(Char), NEW D \in Seq(GuestFrame), NEW n \in 1..Len(D), NEW to,
           EditsLead(from, D, n, to)
    PROVE  /\ D # <<>> /\ Head(D) = D[1] /\ D[1].type = "EDIT" /\ D[1].op \in Operation
           /\ Fits(from, D[1].op) /\ n - 1 \in 0..Len(Tail(D))
           /\ EditsLead(Applied(from, D[1].op), Tail(D), n - 1, to)
<1>1. D # <<>>
  BY LenProperties, EmptySeq
<1>2. /\ Tail(D) \in Seq(GuestFrame) /\ Len(Tail(D)) = Len(D) - 1 /\ Len(D) \in Nat
      /\ \A i \in 1..Len(Tail(D)) : Tail(D)[i] = D[i + 1]
      /\ Head(D) = D[1] /\ D[1] \in GuestFrame
  BY <1>1, HeadTailProperties, LenProperties
<1>3. D[1].type = "EDIT"
  <2>1. 1 \in 1..n
    BY <1>2
  <2> QED BY <2>1 DEF EditsLead
<1>4. D[1].op \in Operation
  BY <1>2, <1>3 DEF GuestFrame, DocumentChunk
<1> DEFINE T == Tail(D)
           l == Len(D)
<1>5. /\ l \in Nat /\ n \in 1..l /\ Len(T) = l - 1
      /\ \A i \in 1..l - 1 : T[i] = D[i + 1]
      /\ \A i \in 1..n : D[i].type = "EDIT"
      /\ \/ n = 0 /\ from = to
         \/ n = 1 /\ Fits(from, D[1].op) /\ Applied(from, D[1].op) = to
         \/ /\ n = 2 /\ Fits(from, D[1].op) /\ Applied(from, D[1].op) \in Seq(Char)
            /\ Fits(Applied(from, D[1].op), D[2].op)
            /\ Applied(Applied(from, D[1].op), D[2].op) = to
  BY <1>2 DEF EditsLead
<1>6. /\ Fits(from, D[1].op) /\ n - 1 \in 0..Len(T)
      /\ EditsLead(Applied(from, D[1].op), T, n - 1, to)
  <2> HIDE DEF T, l
  <2>1. n - 1 \in 0..l - 1 /\ n # 0
    BY <1>5
  <2>2. ASSUME NEW i \in 1..n - 1 PROVE T[i].type = "EDIT"
    <3>1. i \in 1..l - 1 /\ i + 1 \in 1..n
      BY <1>5
    <3> QED BY <3>1, <1>5
  <2>3. CASE n = 1
    BY <2>1, <2>2, <2>3, <1>5 DEF EditsLead
  <2>4. CASE n = 2
    <3>1. 1 \in 1..l - 1 /\ 1 + 1 = 2
      BY <2>4, <1>5
    <3>2. T[1] = D[2]
      <4>1. T[1] = D[1 + 1]
        BY <3>1, <1>5
      <4> QED BY <3>1, <4>1
    <3> QED BY <2>1, <2>2, <2>4, <3>2, <1>5 DEF EditsLead
  <2> QED BY <2>1, <2>3, <2>4, <1>5
<1> QED BY <1>1, <1>2, <1>3, <1>4, <1>6

LEMMA LeadsPart ==
    ASSUME NEW from \in Seq(Char), NEW D \in Seq(GuestFrame), NEW n \in 1..Len(D), NEW to \in Seq(Char),
           EditsLead(from, D, n, to),
           NEW E, NEW m \in 1..n, \A i \in 1..m : E[i] = D[i]
    PROVE  \E t \in Seq(Char) : EditsLead(from, E, m, t)
<1>1. /\ \A i \in 1..n : D[i].type = "EDIT"
      /\ \/ n = 0 /\ from = to
         \/ n = 1 /\ Fits(from, D[1].op) /\ Applied(from, D[1].op) = to
         \/ /\ n = 2 /\ Fits(from, D[1].op) /\ Applied(from, D[1].op) \in Seq(Char)
            /\ Fits(Applied(from, D[1].op), D[2].op)
            /\ Applied(Applied(from, D[1].op), D[2].op) = to
  BY DEF EditsLead
<1>2. \A i \in 1..m : E[i].type = "EDIT"
  BY <1>1
<1>3. E[1] = D[1]
  OBVIOUS
<1>4. CASE m = n
  <2>1. n = 2 => E[2] = D[2]
    BY <1>4
  <2>2. EditsLead(from, E, m, to)
    BY <2>1, <1>1, <1>2, <1>3, <1>4 DEF EditsLead
  <2> QED BY <2>2
<1>5. CASE m # n
  <2>1. m = 1 /\ n = 2
    BY <1>1, <1>5
  <2>2. EditsLead(from, E, m, Applied(from, D[1].op))
    BY <2>1, <1>1, <1>2, <1>3 DEF EditsLead
  <2> QED BY <2>1, <2>2, <1>1
<1> QED BY <1>4, <1>5

\* The changes keep their place at the head when the guest loses what it sent last, or sends
\* something that changes nothing.
LEMMA LeftPart ==
    ASSUME PagesInv, Left, UNCHANGED host, toHost' \in Seq(GuestFrame),
           \E k \in 0..Len(toHost) :
              /\ k <= Len(toHost')
              /\ \A i \in 1..k : toHost'[i] = toHost[i]
              /\ \A i \in k + 1..Len(toHost') : ~Changing(toHost'[i])
    PROVE  Left'
<1>1. PICK k \in 0..Len(toHost) :
              /\ k <= Len(toHost')
              /\ \A i \in 1..k : toHost'[i] = toHost[i]
              /\ \A i \in k + 1..Len(toHost') : ~Changing(toHost'[i])
  OBVIOUS
<1> DEFINE C == toHost
           D == toHost'
           c == Len(C)
           d == Len(D)
<1>2. C \in Seq(GuestFrame) /\ c \in Nat /\ D \in Seq(GuestFrame) /\ d \in Nat /\ host.last \in Seq(Char)
  BY LenProperties, PageFields DEF PagesInv
<1> SUFFICES ASSUME Changes(D)
             PROVE  /\ AtRest(host)
                    /\ \E n \in 1..d : Changed(n)' /\ \A i \in n + 1..d : ~Changing(D[i])
  BY DEF Left, AtRest, NothingWaits
<1>3. PICK e \in 1..d : Changing(D[e])
  BY DEF Changes, Changing
<1>4. k \in 0..c /\ k <= d /\ e \in 1..k
  <2> HIDE DEF c, d
  <2> QED BY <1>1, <1>2, <1>3 DEF c, d
<1>5. e \in 1..c /\ Changing(C[e])
  <2>1. D[e] = C[e] /\ e \in 1..c
    BY <1>1, <1>2, <1>4
  <2> QED BY <2>1, <1>3
<1>6. Changes(C)
  BY <1>5 DEF Changes, Changing
<1>7. PICK n \in 1..c : Changed(n) /\ \A i \in n + 1..c : ~Changing(C[i])
  BY <1>6 DEF Left
<1>8. AtRest(host)
  BY <1>6 DEF Left
<1> DEFINE m == IF n <= k THEN n ELSE k
<1>9. /\ m \in 1..n /\ m \in 1..d /\ m \in 1..k
      /\ \A i \in m + 1..d : ~Changing(D[i])
      /\ \A i \in 1..m : D[i] = C[i]
  <2>1. k \in Nat /\ n \in Nat /\ n >= 1 /\ k >= 1 /\ k <= d /\ n <= c
    BY <1>2, <1>4, <1>7
  <2>2. m \in 1..n /\ m \in 1..d /\ m \in 1..k
    <3> HIDE DEF c, d
    <3> QED BY <2>1, <1>2
  <2>3. ASSUME NEW i \in m + 1..d PROVE ~Changing(D[i])
    <3>1. CASE i \in k + 1..d
      BY <3>1, <1>1
    <3>2. CASE i \notin k + 1..d
      <4>1. i \in n + 1..c /\ i \in 1..k
        <5> HIDE DEF c, d
        <5> QED BY <3>2, <2>1, <1>2, <1>4
      <4> QED BY <4>1, <1>1, <1>7
    <3> QED BY <3>1, <3>2
  <2>4. ASSUME NEW i \in 1..m PROVE D[i] = C[i]
    <3>1. i \in 1..k
      <4> HIDE DEF c, d, m
      <4> QED BY <2>1, <2>2
    <3> QED BY <3>1, <1>1
  <2> QED BY <2>2, <2>3, <2>4
<1> HIDE DEF m
<1>10. Changed(m)'
  <2>1. CASE \E to \in Seq(Char) : EditsLead(host.last, C, n, to)
    <3>1. \E t \in Seq(Char) : EditsLead(host.last, D, m, t)
      BY <2>1, <1>2, <1>7, <1>9, LeadsPart
    <3> QED BY <3>1 DEF Changed, EditsLead
  <2>2. ASSUME NEW text \in Seq(Char), NEW rev \in Nat, NEW l \in Nat,
               SnapshotComes(host.chunks, C, n, l, rev, text)
        PROVE  Changed(m)'
    <3>1. l + m <= Count(text)
      <4>1. l + n <= Count(text) /\ Count(text) \in Nat
        BY <2>2, CountProperties DEF SnapshotComes
      <4>2. m \in Nat /\ n \in Nat /\ m <= n
        BY <1>7, <1>9
      <4> QED BY <4>1, <4>2
    <3>2. \A i \in 1..m : D[i] = Parts("DOCUMENT_SNAPSHOT", rev, text)[l + i]
      <4>1. \A i \in 1..m : i \in 1..n
        BY <1>9
      <4> QED BY <4>1, <2>2, <1>9 DEF SnapshotComes
    <3>3. SnapshotComes(host.chunks, D, m, l, rev, text)
      BY <2>2, <3>1, <3>2 DEF SnapshotComes
    <3> QED BY <3>3 DEF Changed, SnapshotComes
  <2> QED BY <2>1, <2>2, <1>7 DEF Changed
<1> QED BY <1>8, <1>9, <1>10

\* What the host's user does leaves it polite; one who begins something waits for the guest.
LEMMA HostEditsPolite ==
    ASSUME PagesInv, polite, HostPolite, HostEdits
    PROVE  /\ HostPolite'
           /\ AtRest(host) => AtRest(guest) /\ ~Changes(toHost)
<1>1. host \in PageType /\ host.role = "host"
  BY DEF PagesInv
<1>2. /\ host.pending = <<>> /\ host.deferred = <<>> /\ LastMissing(host.chunks)
      /\ host.editor # host.last => host.timer \/ host.composing
  BY DEF HostPolite, NothingWaits
<1>3. CASE \E text \in TypedTexts : HostTypes(text)
  <2>1. PICK text \in TypedTexts : HostTypes(text)
    BY <1>3
  <2>2. host' = Typed(host, text) /\ HostMayType
    BY <2>1 DEF HostTypes, HostBecomes
  <2>3. /\ host'.pending = host.pending /\ host'.deferred = host.deferred
        /\ host'.chunks = host.chunks
        /\ host'.timer \/ host'.composing
    <3> DEFINE p == [host EXCEPT !.editor = text]
    <3>1. host' = [p EXCEPT !.timer = @ \/ (p.role \in {"host", "guest"} /\ ~p.composing)]
      BY <2>2 DEF Typed, Scheduled
    <3>2. /\ p.pending = host.pending /\ p.deferred = host.deferred /\ p.chunks = host.chunks
          /\ p.role = "host" /\ p.composing \in BOOLEAN
      BY <1>1 DEF PageType
    <3>3. p = [role |-> p.role, editor |-> p.editor, last |-> p.last, rev |-> p.rev,
               timer |-> p.timer, composing |-> p.composing, pending |-> p.pending,
               deferred |-> p.deferred, chunks |-> p.chunks, asGiven |-> p.asGiven]
      <4>1. text \in Seq(Char)
        BY RelayPagesAssumption, TextIsSeq
      <4>2. p \in PageType
        BY <1>1, <4>1 DEF PageType
      <4> HIDE DEF p
      <4> QED BY <4>2 DEF PageType
    <3> HIDE DEF p
    <3>4. /\ host'.pending = p.pending /\ host'.deferred = p.deferred /\ host'.chunks = p.chunks
          /\ host'.composing = p.composing
          /\ host'.timer = (p.timer \/ (p.role \in {"host", "guest"} /\ ~p.composing))
      BY <3>1, <3>3
    <3> QED BY <3>2, <3>4
  <2> QED BY <2>2, <2>3, <1>2 DEF HostPolite, HostMayType, NothingWaits
<1>4. CASE HostComposes
  <2>1. host' = [host EXCEPT !.composing = TRUE] /\ HostMayType
    BY <1>4 DEF HostComposes, HostBecomes
  <2>2. /\ host'.pending = host.pending /\ host'.deferred = host.deferred
        /\ host'.chunks = host.chunks /\ host'.composing
    BY <2>1, <1>1 DEF PageType
  <2> QED BY <2>1, <2>2, <1>2 DEF HostPolite, HostMayType, NothingWaits
<1>5. ASSUME NEW p \in PageType, HostFlushes(p), p.chunks = host.chunks,
             p.pending = <<>>, p.deferred = <<>>
      PROVE  HostPolite'
  <2> DEFINE rev == p.rev + Len(ComputeEditorDiff(p.last, p.editor))
  <2>1. host' = [p EXCEPT !.last = p.editor, !.rev = rev]
    BY <1>5 DEF HostFlushes, HostBecomes
  <2> HIDE DEF rev
  <2>2. /\ host'.pending = <<>> /\ host'.deferred = <<>>
        /\ host'.chunks = host.chunks /\ host'.editor = host'.last
    BY <2>1, <1>5 DEF PageType
  <2> QED BY <2>2, <1>2 DEF HostPolite, NothingWaits
<1>6. CASE HostSaves
  <2>1. HostFlushes(host) /\ host.editor # host.last /\ ~AtRest(host)
    BY <1>6, <1>2, Rest DEF HostSaves
  <2> QED BY <2>1, <1>1, <1>2, <1>5
<1>7. CASE HostGoesOn
  <2>1. CASE host.composing /\ HostBecomes(Composed(host), <<>>, <<>>)
    <3> DEFINE deferred == host.deferred \o host.pending
               p == [host EXCEPT !.composing = FALSE, !.deferred = deferred, !.pending = <<>>]
    <3>1. host' = Scheduled(p)
      BY <2>1 DEF HostBecomes, Composed
    <3>2. deferred = <<>>
      BY <1>2, ConcatEmptySeq, EmptySeq
    <3> HIDE DEF deferred
    <3>3. /\ p.pending = <<>> /\ p.deferred = <<>> /\ p.chunks = host.chunks
          /\ p.role = "host" /\ ~p.composing /\ p.timer = host.timer
      BY <1>1, <3>2 DEF PageType
    <3>4. /\ p \in [role : {"host", "offline", "joining", "guest"}, editor : Seq(Char), last : Seq(Char),
                    rev : Nat, timer : BOOLEAN, composing : BOOLEAN, pending : {<<>>}, deferred : {<<>>},
                    chunks : ChunksType, asGiven : BOOLEAN]
      BY <1>1, <3>2 DEF PageType
    <3> HIDE DEF p
    <3>5. /\ host'.pending = <<>> /\ host'.deferred = <<>> /\ host'.chunks = host.chunks
          /\ host'.timer
      BY <3>1, <3>3, <3>4 DEF Scheduled
    <3>6. ~AtRest(host)
      BY <2>1, Rest
    <3> QED BY <3>5, <3>6, <1>2 DEF HostPolite, NothingWaits
  <2>2. CASE host.timer /\ HostFlushes([host EXCEPT !.timer = FALSE])
    <3> DEFINE p == [host EXCEPT !.timer = FALSE]
    <3>1. /\ p \in PageType /\ p.chunks = host.chunks
          /\ p.pending = <<>> /\ p.deferred = <<>>
      BY <1>1, <1>2 DEF PageType
    <3>2. HostFlushes(p)
      BY <2>2
    <3> HIDE DEF p
    <3>3. ~AtRest(host)
      BY <2>2, Rest
    <3> QED BY <3>1, <3>2, <3>3, <1>5
  <2> QED BY <2>1, <2>2, <1>2, <1>7 DEF HostGoesOn
<1> QED BY <1>3, <1>4, <1>6, <1>7 DEF HostEdits

\* The host answers a guest that joins or asks, and stays polite.
LEMMA AnswersPolite ==
    ASSUME PagesInv, HostPolite, HostHandles, Head(toHost).type \in {"PEER_JOINED", "SYNC_REQUEST"}
    PROVE  HostPolite'
<1>1. SendRelayFullSync(host, <<>>)
  BY DEF HostHandles
<1>2. host \in PageType
  BY DEF PagesInv
<1> QED BY <1>1, <1>2, FullSyncFields DEF HostPolite, NothingWaits

\* The host shows and passes on an operation that lies in its document.
LEMMA HandlesOperation ==
    ASSUME PagesInv, StreamInv, HostPolite, AtRest(host), HostHandles, host'.asGiven,
           Head(toHost).type = "EDIT", Fits(host.last, Head(toHost).op)
    PROVE  /\ HostPolite' /\ AtRest(host')
           /\ host'.last = Applied(host.last, Head(toHost).op)
           /\ host'.chunks = host.chunks /\ host'.rev = host.rev + 1
           /\ \E frames \in Seq(Frame) :
                 /\ Len(frames) = 1 /\ Stream' = Stream \o frames
                 /\ frames[1].type = "APPLY" /\ frames[1].rev = host.rev + 1 /\ frames[1].client = "B"
           /\ UNCHANGED guest
<1> DEFINE op == Head(toHost).op
           text == Applied(host.last, op)
           p == [host EXCEPT !.last = text, !.rev = @ + 1]
           q == Shown(p, text)
           m == Apply(host.rev + 1, "B", op)
<1>1. /\ host \in PageType /\ host.role = "host" /\ host.last \in Seq(Char) /\ host.rev \in Nat
      /\ toHost \in Seq(GuestFrame) /\ toHub \in Seq(HostFrame)
  BY PageFields DEF PagesInv
<1>2. toHost # <<>> /\ toHost' = Tail(toHost) /\ HostApplies(host, op)
  BY DEF HostHandles
<1>3. HostBecomes(q, <<m>>, <<text>>)
  BY <1>2 DEF HostApplies
<1>4. op \in Operation
  <2>1. Head(toHost) \in GuestFrame
    BY <1>1, <1>2, HeadTailProperties
  <2> QED BY <2>1 DEF GuestFrame, DocumentChunk
<1>5. text \in Seq(Char)
  BY <1>1, <1>4, FitsApplied
<1>6. /\ host.pending = <<>> /\ host.deferred = <<>> /\ ~host.timer /\ ~host.composing
      /\ host.editor = host.last /\ LastMissing(host.chunks)
  BY Rest DEF HostPolite
<1>7. text = Applied(host.last, Head(toHost).op)
  OBVIOUS
<1>8. m \in HostFrame /\ m.type = "APPLY" /\ m.rev = host.rev + 1 /\ m.client = "B"
  BY <1>1, <1>4 DEF Apply, HostFrame
<1> HIDE DEF text, m
<1>9. /\ p \in PageType /\ p.last = text /\ p.rev = host.rev + 1 /\ p.chunks = host.chunks
      /\ p.pending = <<>> /\ p.deferred = <<>> /\ ~p.timer /\ ~p.composing
  <2>1. host.rev + 1 \in Nat /\ p = [host EXCEPT !.last = text, !.rev = host.rev + 1]
    BY <1>1
  <2> HIDE DEF p
  <2> QED BY <2>1, <1>1, <1>5, <1>6 DEF PageType
<1> HIDE DEF p
<1>11. host' = q /\ toHub' = toHub \o <<m>> /\ UNCHANGED <<guest, toGuest>>
  BY <1>3 DEF HostBecomes
<1>15. q.asGiven
  <2> HIDE DEF q
  <2> QED BY <1>11
<1>10. /\ q.last = text /\ q.editor = text /\ q.rev = host.rev + 1 /\ q.chunks = host.chunks
       /\ q.pending = <<>> /\ q.deferred = <<>> /\ ~q.timer /\ ~q.composing
  BY <1>5, <1>9, <1>15, ShownType
<1> HIDE DEF q
<1>12. HostPolite' /\ AtRest(host')
  BY <1>6, <1>10, <1>11, Rest DEF HostPolite, NothingWaits
<1>13. Stream' = Stream \o <<m>> /\ <<m>> \in Seq(Frame)
  <2>1. toGuest \in Seq(Frame) /\ toHub \in Seq(Frame)
    BY StreamType
  <2>2. m \in Frame
    BY <1>8 DEF Frame
  <2>3. <<m>> \in Seq(Frame)
    <3> HIDE DEF Frame
    <3> QED BY <2>2
  <2> DEFINE new == <<m>>
  <2>4. Stream' = toGuest \o (toHub \o new)
    BY <1>11 DEF Stream
  <2>5. new \in Seq(Frame)
    BY <2>3
  <2> HIDE DEF new
  <2>6. (toGuest \o toHub) \o new = toGuest \o (toHub \o new)
    BY ONLY <2>1, <2>5, FramesAssociate
  <2>7. Stream' = Stream \o new
    BY <2>4, <2>6 DEF Stream
  <2> QED BY <2>5, <2>7 DEF new
<1>14. Len(<<m>>) = 1 /\ <<m>>[1] = m
  OBVIOUS
<1> QED BY <1>7, <1>8, <1>10, <1>11, <1>12, <1>13, <1>14

\* The next chunk joins those before it, and completes the document if it is the last.
LEMMA CollectsNext ==
    ASSUME NEW p \in PageType, LastMissing(p.chunks), NEW D \in Seq(GuestFrame), NEW n \in 1..Len(D),
           NEW text \in Seq(Char), NEW rev \in Nat, NEW k \in Nat,
           SnapshotComes(p.chunks, D, n, k, rev, text),
           NEW m, m = Head(D), NEW c, c = Collected(p, m)
    PROVE  /\ D # <<>> /\ m \in DocumentChunk("DOCUMENT_SNAPSHOT") /\ m.type = "DOCUMENT_SNAPSHOT"
           /\ Count(text) \in Nat /\ k + 1 <= Count(text) /\ c \in ChunksType
           /\ k + 1 = Count(text) => n = 1 /\ Complete(c) /\ Joined(c) = text
           /\ k + 1 # Count(text) => ~Complete(c) /\ LastMissing(c)
           /\ SnapshotComes(c, Tail(D), n - 1, k + 1, rev, text)
<1> DEFINE count == Count(text)
           frames == Parts("DOCUMENT_SNAPSHOT", rev, text)
           T == Tail(D)
           l == Len(D)
<1>1. D # <<>>
  BY LenProperties, EmptySeq
<1>2. /\ m = D[1] /\ l \in Nat /\ \A i \in 1..l - 1 : T[i] = D[i + 1]
  BY <1>1, HeadTailProperties, LenProperties
<1>3. count \in Nat \ {0}
  BY CountProperties
<1>4. /\ k + n <= count
      /\ \A i \in 1..n : D[i] = frames[k + i]
      /\ k > 0 => /\ p.chunks.rev = rev /\ Len(p.chunks.parts) = count
                  /\ \A i \in 1..k : p.chunks.parts[i] = <<Chunk(text, i)>>
  BY DEF SnapshotComes
<1>5. \A i \in 1..count :
          frames[i] = [type |-> "DOCUMENT_SNAPSHOT", rev |-> rev, index |-> i, count |-> count,
                       text |-> Chunk(text, i)]
  BY PartsType
<1>6. k + 1 \in 1..count /\ 1 \in 1..n
  <2> HIDE DEF count, frames, T, l
  <2> QED BY <1>2, <1>3, <1>4
<1>7. /\ m = [type |-> "DOCUMENT_SNAPSHOT", rev |-> rev, index |-> k + 1, count |-> count,
              text |-> Chunk(text, k + 1)]
  BY <1>2, <1>4, <1>5, <1>6
<1>8. m \in DocumentChunk("DOCUMENT_SNAPSHOT")
  <2>1. Chunk(text, k + 1) \in Seq(Char)
    BY <1>6, ChunkType
  <2> HIDE DEF count
  <2>2. k + 1 \in Nat \ {0} /\ k + 1 <= count
    BY <1>3, <1>6
  <2> QED BY <2>1, <2>2, <1>3, <1>7 DEF DocumentChunk
<1>9. m.index = k + 1 /\ m.count = count /\ m.rev = rev /\ m.text = Chunk(text, k + 1)
  BY <1>7
<1>10. /\ c \in ChunksType /\ c.rev = rev /\ Len(c.parts) = count
       /\ \A i \in 1..count :
             c.parts[i] = IF i = k + 1 THEN <<Chunk(text, k + 1)>>
                          ELSE IF p.chunks.rev = rev /\ Len(p.chunks.parts) = count
                            THEN p.chunks.parts[i] ELSE <<>>
  <2>1. /\ Collected(p, m) \in ChunksType /\ Collected(p, m).rev = m.rev
        /\ Len(Collected(p, m).parts) = m.count
        /\ \A i \in 1..m.count :
              Collected(p, m).parts[i] =
                IF i = m.index THEN <<m.text>>
                ELSE IF p.chunks.rev = m.rev /\ Len(p.chunks.parts) = m.count
                  THEN p.chunks.parts[i] ELSE <<>>
    <3> DEFINE type == "DOCUMENT_SNAPSHOT"
    <3>1. p \in PageType /\ m \in DocumentChunk(type)
      BY <1>8
    <3> HIDE DEF type
    <3> QED BY ONLY <3>1, CollectedType
  <2> QED BY <2>1, <1>9
<1> HIDE DEF count, frames, T, l
<1>11. \A i \in 1..k + 1 : i \in 1..count /\ c.parts[i] = <<Chunk(text, i)>>
  <2> TAKE i \in 1..k + 1
  <2>1. i \in 1..count
    BY <1>3, <1>6
  <2>2. CASE i = k + 1
    BY <2>1, <2>2, <1>10
  <2>3. CASE i # k + 1
    <3>1. i \in 1..k /\ k > 0
      BY <2>3, <1>6
    <3> QED BY <2>1, <2>3, <3>1, <1>4, <1>10
  <2> QED BY <2>1, <2>2, <2>3
<1>12. SnapshotComes(c, T, n - 1, k + 1, rev, text)
  <2>1. (k + 1) + (n - 1) <= count
    BY <1>3, <1>4
  <2>2. ASSUME NEW i \in 1..n - 1 PROVE T[i] = frames[(k + 1) + i]
    <3>1. i \in 1..l - 1 /\ i + 1 \in 1..n /\ k + (i + 1) = (k + 1) + i
      BY <1>2 DEF l
    <3>2. T[i] = D[i + 1] /\ D[i + 1] = frames[k + (i + 1)]
      BY <3>1, <1>2, <1>4
    <3> QED BY <3>1, <3>2
  <2> QED BY <2>1, <2>2, <1>10, <1>11 DEF SnapshotComes, count, frames
<1>13. ASSUME k + 1 = count PROVE n = 1 /\ Complete(c) /\ Joined(c) = text
  <2>1. n = 1
    <3>1. n \in Nat /\ n >= 1
      BY <1>2 DEF l
    <3> QED BY <3>1, <1>3, <1>4, <1>13
  <2>2. \A i \in 1..count : c.parts[i] = <<Chunk(text, i)>>
    BY <1>11, <1>13
  <2>3. Complete(c)
    <3>1. \A t : <<t>> # <<>>
      OBVIOUS
    <3>2. Len(c.parts) = count /\ count > 0
      BY <1>3, <1>6, <1>10, <1>13
    <3>3. \A i \in 1..Len(c.parts) : c.parts[i] # <<>>
      BY ONLY <2>2, <3>1, <3>2
    <3> QED BY <3>2, <3>3 DEF Complete
  <2>4. Joined(c) = text
    BY <2>2, <1>10, JoinedParts DEF count
  <2> QED BY <2>1, <2>3, <2>4
<1>14. ASSUME k + 1 # count PROVE ~Complete(c) /\ LastMissing(c)
  <2>1. count \in 1..count /\ count # k + 1
    BY <1>3, <1>14
  <2>2. c.parts[count] = <<>>
    <3>1. CASE p.chunks.rev = rev /\ Len(p.chunks.parts) = count
      <4>1. p.chunks.parts # <<>>
        BY <3>1, <1>3, EmptySeq
      <4>2. p.chunks.parts[count] = <<>>
        BY <3>1, <4>1 DEF LastMissing
      <4> QED BY <2>1, <3>1, <4>2, <1>10
    <3>2. CASE ~(p.chunks.rev = rev /\ Len(p.chunks.parts) = count)
      BY <2>1, <3>2, <1>10
    <3> QED BY <3>1, <3>2
  <2> QED BY <2>1, <2>2, <1>10 DEF Complete, LastMissing
<1> QED BY <1>1, <1>3, <1>6, <1>7, <1>8, <1>10, <1>12, <1>13, <1>14 DEF count, T

\* The host, at rest, takes the next chunk: it waits for those behind it, or takes over and
\* sends the document.
LEMMA HandlesSnapshot ==
    ASSUME PagesInv, StreamInv, HostPolite, AtRest(host), HostHandles, host'.asGiven,
           NEW n \in 1..Len(toHost),
           NEW text \in Seq(Char), NEW rev \in Nat, NEW k \in Nat,
           SnapshotComes(host.chunks, toHost, n, k, rev, text)
    PROVE  /\ Head(toHost).type = "DOCUMENT_SNAPSHOT"
           /\ HostPolite' /\ AtRest(host') /\ UNCHANGED guest
           /\ \/ /\ k + 1 < Count(text) /\ host'.last = host.last /\ Stream' = Stream
                 /\ SnapshotComes(host'.chunks, toHost', n - 1, k + 1, rev, text)
              \/ /\ k + 1 = Count(text) /\ n = 1 /\ host'.last = text
                 /\ \E frames \in Seq(HostFrame) :
                       /\ Stream' = Stream \o frames
                       /\ frames = Parts("SYNC_RESPONSE", host'.rev, host'.last)
<1> DEFINE m == Head(toHost)
           c == Collected(host, m)
<1>1. /\ host \in PageType /\ host.role = "host" /\ host.last \in Seq(Char) /\ host.rev \in Nat
      /\ toHost \in Seq(GuestFrame)
  BY PageFields DEF PagesInv
<1>2. /\ host.pending = <<>> /\ host.deferred = <<>> /\ ~host.timer /\ ~host.composing
      /\ host.editor = host.last /\ LastMissing(host.chunks)
  BY Rest DEF HostPolite
<1>3. /\ m \in DocumentChunk("DOCUMENT_SNAPSHOT") /\ m.type = "DOCUMENT_SNAPSHOT"
      /\ Count(text) \in Nat /\ k + 1 <= Count(text) /\ c \in ChunksType
      /\ k + 1 = Count(text) => n = 1 /\ Complete(c) /\ Joined(c) = text
      /\ k + 1 # Count(text) => ~Complete(c) /\ LastMissing(c)
      /\ SnapshotComes(c, Tail(toHost), n - 1, k + 1, rev, text)
  BY <1>1, <1>2, CollectsNext
<1>4. HostCollects(host, m) /\ toHost' = Tail(toHost)
  BY <1>3 DEF HostHandles
<1>5. m.type = Head(toHost).type
  OBVIOUS
<1>6. CASE k + 1 # Count(text)
  <2>1. HostBecomes([host EXCEPT !.chunks = c], <<>>, <<>>)
    BY <1>3, <1>4, <1>6 DEF HostCollects
  <2>2. /\ host' = [host EXCEPT !.chunks = c] /\ toHub' = toHub \o <<>> /\ UNCHANGED <<guest, toGuest>>
    BY <2>1 DEF HostBecomes
  <2> HIDE DEF c, m
  <2>3. /\ host'.last = host.last /\ host'.chunks = c /\ host'.editor = host.editor
        /\ host'.pending = <<>> /\ host'.deferred = <<>> /\ ~host'.timer /\ ~host'.composing
    BY <2>2, <1>1, <1>2 DEF PageType
  <2>4. toHub' = toHub
    BY <2>2, ConcatEmptySeq DEF PagesInv
  <2>5. Stream' = Stream
    BY <2>2, <2>4 DEF Stream
  <2>6. HostPolite' /\ AtRest(host')
    BY <1>2, <1>3, <1>6, <2>3, Rest DEF HostPolite, NothingWaits
  <2>7. k + 1 < Count(text)
    BY <1>3, <1>6
  <2> QED BY <1>3, <1>4, <1>5, <2>2, <2>3, <2>5, <2>6, <2>7
<1>7. CASE k + 1 = Count(text)
  <2> DEFINE empty == [c EXCEPT !.parts = <<>>]
             joined == Joined(c)
             p == [host EXCEPT !.chunks = empty, !.rev = @ + 1, !.last = joined]
             q == Shown(p, joined)
  <2>1. SendRelayFullSync(q, <<joined>>)
    BY <1>3, <1>4, <1>7 DEF HostCollects
  <2>2. joined = text
    BY <1>3, <1>7
  <2> HIDE DEF joined, c, m
  <2>3. empty \in ChunksType /\ empty.parts = <<>>
    <3>1. <<>> \in Seq(Seq(Seq(Char)))
      OBVIOUS
    <3> QED BY <1>3, <3>1 DEF ChunksType
  <2> HIDE DEF empty
  <2>4. /\ p \in PageType /\ p.last = text /\ p.rev = host.rev + 1 /\ p.chunks = empty
        /\ p.pending = <<>> /\ p.deferred = <<>> /\ ~p.timer /\ ~p.composing
    <3>1. host.rev + 1 \in Nat
      BY <1>1
    <3>2. p = [host EXCEPT !.chunks = empty, !.rev = host.rev + 1, !.last = joined]
      OBVIOUS
    <3> HIDE DEF p
    <3> QED BY <1>1, <1>2, <2>2, <2>3, <3>1, <3>2 DEF PageType
  <2> HIDE DEF p
  <2>12. q \in PageType
    BY <2>2, <2>4, ShownType
  <2>13. q.asGiven
    <3> HIDE DEF q
    <3> QED BY <2>1, <2>12, FullSyncFields
  <2>5. /\ q \in PageType /\ q.last = text /\ q.editor = text /\ q.rev = host.rev + 1
        /\ q.chunks = empty
        /\ q.pending = <<>> /\ q.deferred = <<>> /\ ~q.timer /\ ~q.composing
    BY <2>2, <2>4, <2>13, ShownType
  <2> HIDE DEF q
  <2>6. host' = q /\ UNCHANGED guest
    BY <2>1, <2>5 DEF SendRelayFullSync, HostBecomes
  <2>7. HostPolite' /\ AtRest(host')
    BY <2>3, <2>5, <2>6, Rest DEF HostPolite, NothingWaits, LastMissing
  <2> DEFINE frames == Parts("SYNC_RESPONSE", q.rev, q.last)
  <2>8. toHub' = toHub \o frames /\ toGuest' = toGuest
    BY <2>1, <2>5 DEF SendRelayFullSync, HostBecomes
  <2>9. frames \in Seq(HostFrame)
    <3>1. frames \in Seq(DocumentChunk("SYNC_RESPONSE")) /\ Len(frames) = Count(q.last)
      <4> DEFINE shown  == q.last
                 newest == q.rev
                 kind   == "SYNC_RESPONSE"
      <4>1. newest \in Nat /\ shown \in Seq(Char)
        BY <2>5, <1>1, PageFields
      <4>2. frames = Parts(kind, newest, shown)
        OBVIOUS
      <4> HIDE DEF frames, shown, newest, kind
      <4>3. Parts(kind, newest, shown) \in Seq(DocumentChunk(kind)) /\ Len(Parts(kind, newest, shown)) = Count(shown)
        BY ONLY <4>1, PartsType
      <4> QED BY ONLY <4>2, <4>3 DEF shown, kind
    <3>2. DocumentChunk("SYNC_RESPONSE") \subseteq HostFrame
      BY DEF HostFrame
    <3> HIDE DEF frames
    <3>3. frames \in [1..Len(frames) -> HostFrame] /\ Len(frames) \in Nat
      BY <3>1, <3>2, LenProperties
    <3> QED BY <3>3, SeqDef
  <2> HIDE DEF frames
  <2>10. Stream' = Stream \o frames
    <3>1. toGuest \in Seq(Frame) /\ toHub \in Seq(Frame)
      BY StreamType
    <3>2. frames \in Seq(Frame)
      <4>1. frames \in [1..Len(frames) -> HostFrame] /\ Len(frames) \in Nat /\ HostFrame \subseteq Frame
        BY <2>9, LenProperties DEF Frame
      <4>2. frames \in [1..Len(frames) -> Frame]
        BY <4>1
      <4> QED BY <4>1, <4>2, SeqDef
    <3>3. (toGuest \o toHub) \o frames = toGuest \o (toHub \o frames)
      BY ONLY <3>1, <3>2, FramesAssociate
    <3> QED BY <2>8, <3>3 DEF Stream
  <2>11. frames = Parts("SYNC_RESPONSE", host'.rev, host'.last)
    BY <2>6 DEF frames
  <2> QED BY <1>3, <1>5, <1>7, <2>5, <2>6, <2>7, <2>9, <2>10, <2>11
<1> QED BY <1>6, <1>7

\* Whatever the host takes of what is left, the rest is left.
LEMMA LeftHandles ==
    ASSUME PagesInv, StreamInv, HostPolite, Left, HostHandles, host'.asGiven
    PROVE  /\ HostPolite' /\ Left'
           /\ Head(toHost).type \in {"PEER_JOINED", "SYNC_REQUEST"} => ~Changes(toHost')
<1> DEFINE T == Tail(toHost)
           l == Len(toHost)
<1>1. toHost # <<>> /\ toHost' = T
  BY DEF HostHandles
<1>2. /\ toHost \in Seq(GuestFrame) /\ T \in Seq(GuestFrame) /\ l \in Nat \ {0} /\ Len(T) = l - 1
      /\ Head(toHost) = toHost[1] /\ toHost[1] \in GuestFrame
      /\ \A i \in 1..l - 1 : T[i] = toHost[i + 1]
      /\ host.last \in Seq(Char)
  BY <1>1, HeadTailProperties, LenProperties, EmptySeq, PageFields DEF PagesInv
<1> HIDE DEF T, l
<1>3. ASSUME Changing(toHost[1]) \/ Changes(T)
      PROVE  Changes(toHost)
  <2>1. CASE Changing(toHost[1])
    <3>1. 1 \in 1..l
      BY <1>2
    <3> QED BY <2>1, <3>1 DEF Changes, Changing, l
  <2>2. CASE Changes(T)
    <3>1. PICK i \in 1..l - 1 : Changing(T[i])
      BY <2>2, <1>2 DEF Changes, Changing
    <3>2. i + 1 \in 1..l /\ Changing(toHost[i + 1])
      BY <3>1, <1>2
    <3> QED BY <3>2 DEF Changes, Changing, l
  <2> QED BY <1>3, <2>1, <2>2
<1>4. toHost[1].type \in {"PEER_JOINED", "SYNC_REQUEST", "EDIT", "DOCUMENT_SNAPSHOT"}
  BY <1>2 DEF GuestFrame, DocumentChunk
<1>5. ASSUME NEW n \in 1..l, Changed(n), AtRest(host), \A i \in n + 1..l : ~Changing(toHost[i])
      PROVE  /\ Changing(toHost[1]) /\ HostPolite' /\ AtRest(host') 
             /\ n # 1 => n - 1 \in 1..l - 1 /\ Changed(n - 1)'
             /\ \A i \in (n - 1) + 1..l - 1 : ~Changing(T[i])
  <2>1. n - 1 \in 0..l - 1 /\ (n # 1 => n - 1 \in 1..l - 1)
    BY <1>2
  <2>2. ASSUME NEW i \in (n - 1) + 1..l - 1 PROVE ~Changing(T[i])
    <3>1. i \in 1..l - 1 /\ i + 1 \in n + 1..l
      BY <1>2
    <3> QED BY <3>1, <1>2, <1>5
  <2>3. ASSUME NEW to \in Seq(Char), EditsLead(host.last, toHost, n, to)
        PROVE  /\ Changing(toHost[1]) /\ HostPolite' /\ AtRest(host') /\ Changed(n - 1)'
    <3>1. /\ toHost[1].type = "EDIT" /\ Fits(host.last, toHost[1].op)
          /\ EditsLead(Applied(host.last, toHost[1].op), T, n - 1, to)
      BY <2>3, <1>2, LeadsTail DEF T, l
    <3>2. HostPolite' /\ AtRest(host') /\ host'.last = Applied(host.last, toHost[1].op)
      BY <3>1, <1>2, <1>5, HandlesOperation
    <3>3. EditsLead(host'.last, toHost', n - 1, to)
      BY <3>1, <3>2, <1>1
    <3>4. Changed(n - 1)'
      <4>1. \E t \in Seq(Char) : EditsLead(host'.last, toHost', n - 1, t)
        BY <3>3
      <4> QED BY <4>1 DEF Changed, EditsLead
    <3> QED BY <3>1, <3>2, <3>4 DEF Changing
  <2>4. ASSUME NEW text \in Seq(Char), NEW rev \in Nat, NEW k \in Nat,
               SnapshotComes(host.chunks, toHost, n, k, rev, text)
        PROVE  /\ Changing(toHost[1]) /\ HostPolite' /\ AtRest(host') 
               /\ n # 1 => Changed(n - 1)'
    <3>1. n \in 1..Len(toHost)
      BY DEF l
    <3>2. /\ Head(toHost).type = "DOCUMENT_SNAPSHOT"
          /\ HostPolite' /\ AtRest(host')
          /\ \/ SnapshotComes(host'.chunks, toHost', n - 1, k + 1, rev, text)
             \/ n = 1
      BY <2>4, <3>1, <1>5, HandlesSnapshot
    <3>3. n # 1 => Changed(n - 1)'
      <4> SUFFICES ASSUME n # 1 PROVE Changed(n - 1)'
        OBVIOUS
      <4>1. SnapshotComes(host'.chunks, toHost', n - 1, k + 1, rev, text) /\ k + 1 \in Nat
        BY <3>2
      <4>2. \E t \in Seq(Char), r \in Nat, j \in Nat : SnapshotComes(host'.chunks, toHost', n - 1, j, r, t)
        BY <4>1
      <4> QED BY <4>2 DEF Changed, SnapshotComes
    <3> QED BY <3>2, <3>3, <1>2 DEF Changing
  <2> QED BY <2>1, <2>2, <2>3, <2>4, <1>5 DEF Changed
<1>6. CASE Changes(toHost)
  <2>1. PICK n \in 1..l : Changed(n) /\ \A i \in n + 1..l : ~Changing(toHost[i])
    BY <1>6 DEF Left, l
  <2>2. AtRest(host)
    BY <1>6 DEF Left
  <2>3. /\ Changing(toHost[1]) /\ HostPolite' /\ AtRest(host') 
        /\ n # 1 => n - 1 \in 1..l - 1 /\ Changed(n - 1)'
        /\ \A i \in (n - 1) + 1..l - 1 : ~Changing(T[i])
    BY <2>1, <2>2, <1>5
  <2>4. Left'
    <3>1. CASE n = 1
      <4>1. \A i \in 1..l - 1 : ~Changing(T[i])
        BY <2>3, <3>1
      <4>2. ~Changes(T)
        BY <4>1, <1>2 DEF Changes, Changing
      <4> QED BY <4>2, <1>1 DEF Left, Changes
    <3>2. CASE n # 1
      <4>1. \E j \in 1..l - 1 : Changed(j)' /\ \A i \in j + 1..l - 1 : ~Changing(T[i])
        BY <2>3, <3>2
      <4> QED BY <4>1, <2>3, <1>1, <1>2 DEF Left, AtRest, NothingWaits
    <3> QED BY <3>1, <3>2
  <2> QED BY <2>3, <2>4, <1>2 DEF Changing
<1>7. CASE ~Changes(toHost)
  <2>1. toHost[1].type \in {"PEER_JOINED", "SYNC_REQUEST"} /\ ~Changes(T)
    BY <1>3, <1>4, <1>7 DEF Changing
  <2>2. HostPolite'
    BY <2>1, <1>2, AnswersPolite
  <2> QED BY <2>1, <2>2, <1>1 DEF Left, Changes
<1> QED BY <1>6, <1>7

\* Frames of the host are frames.
LEMMA HostFrames ==
    ASSUME NEW frames \in Seq(HostFrame)
    PROVE  frames \in Seq(Frame) /\ Len(frames) \in Nat
<1>1. HostFrame \subseteq Frame
  BY DEF Frame
<1>2. Len(frames) \in Nat /\ frames \in [1..Len(frames) -> HostFrame]
  BY LenProperties
<1>3. frames \in [1..Len(frames) -> Frame]
  BY <1>1, <1>2
<1> QED BY <1>2, <1>3, SeqDef

\* What the host adds comes behind all there is.
LEMMA StreamGrows ==
    ASSUME PagesInv, NEW frames \in Seq(HostFrame), Stream' = Stream \o frames, Stream # <<>>
    PROVE  Stream' # <<>> /\ Stream'[1] = Stream[1]
<1>1. Stream \in Seq(Frame) /\ frames \in Seq(Frame) /\ Len(Stream) \in Nat /\ Len(frames) \in Nat
  BY StreamType, HostFrames
<1>2. /\ Len(Stream \o frames) = Len(Stream) + Len(frames)
      /\ \A i \in 1..Len(Stream) : (Stream \o frames)[i] = Stream[i]
  BY <1>1, ConcatAt
<1>3. Len(Stream) # 0
  BY <1>1, EmptySeq
<1>4. 1 \in 1..Len(Stream) /\ Len(Stream) + Len(frames) # 0
  BY <1>1, <1>3
<1> QED BY <1>2, <1>4, EmptySeq

\* When the host's user begins something, a guest at rest reads on.
LEMMA EditsKeepReads ==
    ASSUME PagesInv, StreamInv, HeldInv, guest.role # "offline",
           NEW q, NEW frames, NEW texts, Says(q, frames, texts), Operates(frames, texts),
           HostBecomes(q, frames, texts), Stream' = Stream \o frames,
           NEW j \in 0..Len(Stream), Follows(guest, history, Stream, host.rev, j)
    PROVE  \E i \in 0..Len(Stream') : Follows(guest', history', Stream', host'.rev, i)
<1> DEFINE rev == host.rev
           S == Stream
           h == history
<1>1. /\ guest \in PageType /\ h \in Seq(Seq(Char)) /\ S \in Seq(Frame)
      /\ rev \in Nat /\ Len(h) = rev + 1
  BY PageFields, StreamType DEF PagesInv
<1>2. /\ Len(frames) = Len(texts)
      /\ \A k \in 1..Len(frames) :
            frames[k].type = "APPLY" /\ frames[k].client = "A" /\ frames[k].rev = rev + k
  BY DEF Operates
<1>3. Held(guest, h, S) /\ \A k \in 1..Len(S) : Tells(h, S[k])
  BY DEF HeldInv, StreamInv
<1>4. /\ frames \in Seq(Frame) /\ texts \in Seq(Seq(Char)) /\ q.rev = rev + Len(texts)
  BY HostFrames DEF Says
<1>5. host' = q /\ history' = h \o texts /\ guest' = guest
  BY DEF HostBecomes
<1>6. j \in 0..Len(S) /\ Follows(guest, h, S, rev, j)
  OBVIOUS
<1>7. Stream' = S \o frames
  OBVIOUS
<1> HIDE DEF rev, S, h
<1>8. /\ Follows(guest, h \o texts, S \o frames, rev + Len(texts), j)
      /\ j \in 0..Len(S \o frames)
  BY <1>1, <1>2, <1>3, <1>4, <1>6, FollowsOperations
<1> QED BY <1>4, <1>5, <1>7, <1>8

\* One that waits for its operations gets those of the host behind them.
LEMMA EditsKeepOperating ==
    ASSUME PagesInv, StreamInv, Operating, NEW q, NEW frames, NEW texts,
           Says(q, frames, texts), Operates(frames, texts), HostBecomes(q, frames, texts),
           Stream' = Stream \o frames, toHost' = toHost,
           AtRest(host) => AtRest(guest) /\ ~Changes(toHost)
    PROVE  Operating'
<1> DEFINE S == Stream
           T == Stream'
           s == Len(S)
           f == Len(frames)
           rev == host.rev
<1>1. /\ S \in Seq(Frame) /\ s \in Nat /\ frames \in Seq(Frame) /\ f \in Nat /\ rev \in Nat
      /\ guest.rev \in Nat /\ history \in Seq(Seq(Char)) /\ Len(history) = rev + 1
      /\ host.last = history[rev + 1] /\ toHost \in Seq(GuestFrame)
  BY StreamType, HostFrames, PageFields DEF PagesInv, Says
<1>2. /\ Len(texts) = f /\ texts \in Seq(Seq(Char)) /\ q.rev = rev + Len(texts)
      /\ \A k \in 1..f :
            frames[k].type = "APPLY" /\ frames[k].client = "A" /\ frames[k].rev = rev + k
  BY DEF Operates, Says
<1>3. host' = q /\ history' = history \o texts /\ guest' = guest
  BY DEF HostBecomes
<1>4. /\ Len(T) = s + f
      /\ \A i \in 1..s : T[i] = S[i]
      /\ \A i \in 1..f : T[s + i] = frames[i]
  <2>1. S \in Seq(Frame) /\ frames \in Seq(Frame) /\ T = S \o frames
    BY <1>1
  <2> HIDE DEF S, T
  <2>2. /\ Len(S \o frames) = Len(S) + Len(frames)
        /\ \A i \in 1..Len(S) : (S \o frames)[i] = S[i]
        /\ \A i \in 1..Len(frames) : (S \o frames)[Len(S) + i] = frames[i]
    BY ONLY <2>1, ConcatAt
  <2> QED BY ONLY <2>1, <2>2 DEF s, f
<1>5. PICK n \in 0..s :
          /\ Echoes(n)
          /\ \/ n = s /\ AtRest(host) /\ EditsLead(host.last, toHost, Len(toHost), guest.last)
             \/ toHost = <<>> /\ AtRest(guest) /\ guest.last = history[guest.rev + n + 1]
  BY DEF Operating
<1>6. /\ NothingWaits(guest) /\ guest.last = guest.editor /\ guest.rev + s = rev
  BY DEF Operating
<1>7. \A i \in 1..s : S[i].type = "APPLY" /\ S[i].rev = guest.rev + i
                      /\ S[i].client = IF i <= n THEN "B" ELSE "A"
  BY <1>5 DEF Echoes
<1>8. toHost = <<>> /\ AtRest(guest) /\ guest.last = history[guest.rev + n + 1]
  <2>1. CASE n = s /\ AtRest(host) /\ EditsLead(host.last, toHost, Len(toHost), guest.last)
    <3>1. AtRest(guest) /\ ~Changes(toHost) /\ Len(toHost) \in Nat
      BY <2>1, <1>1, LenProperties
    <3>2. Len(toHost) = 0
      <4> SUFFICES ASSUME Len(toHost) # 0 PROVE FALSE
        OBVIOUS
      <4>1. 1 \in 1..Len(toHost)
        BY <3>1
      <4>2. toHost[1].type = "EDIT"
        BY <2>1, <4>1 DEF EditsLead
      <4> QED BY <3>1, <4>1, <4>2 DEF Changes
    <3>3. toHost = <<>>
      BY <3>2, <1>1, EmptySeq
    <3>4. host.last = guest.last
      BY <2>1, <3>2 DEF EditsLead
    <3>5. guest.rev + n + 1 = rev + 1
      <4> HIDE DEF s, rev
      <4> QED BY <2>1, <1>1, <1>6
    <3> QED BY <3>1, <3>3, <3>4, <3>5, <1>1
  <2> QED BY <2>1, <1>5
<1> DEFINE g == guest.rev
           r == q.rev
           t == Len(T)
<1>15. /\ g \in Nat /\ s \in Nat /\ f \in Nat /\ rev \in Nat /\ n \in 0..s
       /\ g + s = rev /\ t = s + f /\ r = rev + f /\ Len(history) = rev + 1
  BY <1>1, <1>2, <1>4, <1>5, <1>6
<1> HIDE DEF S, T, s, f, rev, g, r, t
<1>9. g + t = r /\ n \in 0..t
  BY <1>15
<1>10. ASSUME NEW i \in 1..t
       PROVE  T[i].type = "APPLY" /\ T[i].rev = guest.rev + i
              /\ T[i].client = IF i <= n THEN "B" ELSE "A"
  <2>1. CASE i \in 1..s
    BY <2>1, <1>4, <1>7
  <2>2. CASE i \notin 1..s
    <3>1. i - s \in 1..f /\ s + (i - s) = i /\ ~(i <= n) /\ rev + (i - s) = g + i
      BY <2>2, <1>15
    <3>2. T[i] = frames[i - s]
      BY <3>1, <1>4
    <3> QED BY <3>1, <3>2, <1>2 DEF g
  <2> QED BY <2>1, <2>2
<1>11. history'[guest.rev + n + 1] = history[guest.rev + n + 1]
  <2>1. g + n + 1 \in 1..Len(history)
    BY <1>15
  <2> QED BY <2>1, <1>1, <1>2, <1>3, ConcatAt DEF g
<1>12. Echoes(n)'
  BY <1>3, <1>10 DEF Echoes, T, t
<1>13. guest'.last = history'[guest'.rev + n + 1] /\ toHost' = <<>> /\ AtRest(guest')
  BY <1>3, <1>8, <1>11
<1>14. NothingWaits(guest') /\ guest'.last = guest'.editor /\ guest'.rev + Len(Stream') = host'.rev
  BY <1>3, <1>6, <1>9 DEF T, t, g, r
<1> QED BY <1>9, <1>12, <1>13, <1>14 DEF Operating, T, t

\* What the host's user does keeps both users polite.
LEMMA PoliteHostEdits ==
    ASSUME PagesInv, StreamInv, HeldInv, PoliteInv, HostEdits
    PROVE  PoliteInv'
<1>1. PICK q, frames, texts :
           /\ HostBecomes(q, frames, texts) /\ Says(q, frames, texts)
           /\ Operates(frames, texts) /\ Stream' = Stream \o frames
  BY HostStepSays
<1>2. /\ toHost' = toHost /\ polite' = polite /\ guest' = guest
      /\ history' = history \o texts /\ host' = q
  BY <1>1, HostEditsSays DEF HostBecomes, HostEdits
<1> SUFFICES ASSUME polite
             PROVE  /\ HostPolite'
                    /\ guest.role = "joining" => Stream' # <<>> /\ Stream'[1].type = "JOIN_OK"
                    /\ guest.role = "offline" => Left'
                    /\ guest.role # "offline" /\ Joins(toHost) => Waits'
                    /\ guest.role # "offline" /\ ~Joins(toHost)
                          => Reads' \/ Operating'
  BY <1>2 DEF PoliteInv, Joins
<1>3. /\ HostPolite
      /\ guest.role = "joining" => Stream # <<>> /\ Stream[1].type = "JOIN_OK"
      /\ guest.role = "offline" => Left
      /\ guest.role # "offline" /\ Joins(toHost) => Waits
      /\ guest.role # "offline" /\ ~Joins(toHost) => Reads \/ Writes \/ Operating \/ Sends
  BY DEF PoliteInv
<1>4. /\ HostPolite'
      /\ AtRest(host) => AtRest(guest) /\ ~Changes(toHost)
  BY <1>3, HostEditsPolite
<1>5. Left => Left'
  BY <1>2, <1>4 DEF Left, Changes
<1>6. Stream # <<>> => Stream' # <<>> /\ Stream'[1] = Stream[1]
  BY <1>1, StreamGrows DEF Says
<1>7. CASE guest.role = "offline"
  BY <1>3, <1>4, <1>5, <1>7
<1>8. CASE guest.role # "offline" /\ Joins(toHost)
  <2>1. Waits'
    BY <1>2, <1>3, <1>5, <1>8 DEF Waits, AtRest, NothingWaits
  <2> QED BY <2>1, <1>3, <1>4, <1>6, <1>8
<1>9. CASE guest.role # "offline" /\ ~Joins(toHost)
  <2>1. CASE Reads
    <3>1. AtRest(guest)
      BY <2>1, <1>4 DEF Reads, Composes
    <3>2. PICK j \in 0..Len(Stream) : Follows(guest, history, Stream, host.rev, j)
      BY <2>1 DEF Reads
    <3>3. \E i \in 0..Len(Stream') : Follows(guest', history', Stream', host'.rev, i)
      BY <3>2, <1>1, <1>9, EditsKeepReads
    <3>4. AtRest(guest') /\ guest'.last = guest'.editor /\ ~Changes(toHost')
      BY <2>1, <3>1, <1>2 DEF Reads
    <3>5. Reads'
      BY <3>3, <3>4 DEF Reads, Changes, AtRest, NothingWaits
    <3> QED BY <3>5, <1>3, <1>4, <1>6, <1>9
  <2>2. CASE Operating
    BY <2>2, <1>1, <1>2, <1>3, <1>4, <1>6, <1>9, EditsKeepOperating
  <2>3. ASSUME Writes PROVE FALSE
    BY <2>3, <1>4 DEF Writes, AtRest
  <2>4. ASSUME Sends PROVE FALSE
    <3>1. AtRest(host) /\ toHost # <<>>
      BY <2>4 DEF Sends
    <3>2. PICK rev \in Nat, k \in Nat :
             SnapshotComes(host.chunks, toHost, Len(toHost), k, rev, guest.last)
      BY <2>4 DEF Sends
    <3>3. guest.last \in Seq(Char) /\ toHost \in Seq(GuestFrame) /\ host \in PageType
      BY PageFields DEF PagesInv
    <3>4. Len(toHost) \in 1..Len(toHost) /\ 1 \in 1..Len(toHost) /\ Head(toHost) = toHost[1]
      BY <3>1, <3>3, EmptySeq
    <3>5. Head(toHost).type = "DOCUMENT_SNAPSHOT"
      BY <3>2, <3>3, <3>4, <1>3, CollectsNext DEF HostPolite
    <3> QED BY <3>1, <3>4, <3>5, <1>4 DEF Changes
  <2> QED BY <2>1, <2>2, <2>3, <2>4, <1>3, <1>9
<1> QED BY <1>7, <1>8, <1>9

\* Whoever is sent the whole document is going to show it.
LEMMA AnswerFollows ==
    ASSUME PagesInv, PagesInv', UNCHANGED guest, NEW frames \in Seq(HostFrame),
           Stream' = Stream \o frames, frames = Parts("SYNC_RESPONSE", host'.rev, host'.last)
    PROVE  \E i \in 0..Len(Stream') : Follows(guest', history', Stream', host'.rev, i)
<1> DEFINE rev == host'.rev
           text == host'.last
           h == history'
           S == Stream
<1>1. frames \in Seq(Frame) /\ S \in Seq(Frame)
  BY HostFrames, StreamType
<1>2. host' \in PageType /\ host'.last = history'[host'.rev + 1]
  BY DEF PagesInv
<1>3. rev \in Nat /\ text \in Seq(Char) /\ h[rev + 1] = text
  BY <1>2, PageFields
<1>4. frames = Parts("SYNC_RESPONSE", rev, text) /\ Stream' = S \o frames
  OBVIOUS
<1> HIDE DEF rev, text, h, S
<1>5. /\ Follows(guest, h, S \o frames, rev, Len(S \o frames))
      /\ Len(S \o frames) \in 0..Len(S \o frames)
  BY <1>1, <1>3, <1>4, FollowsAnswer
<1> QED BY <1>4, <1>5 DEF rev, h

\* The host's operation comes back to a guest that waits for it.
LEMMA HandlesKeepOperating ==
    ASSUME PagesInv, StreamInv, HostPolite, Operating, HostHandles, host'.asGiven
    PROVE  HostPolite' /\ Operating'
<1> DEFINE S == Stream
           T == Stream'
           s == Len(S)
           c == Len(toHost)
           op == toHost[1].op
<1>1. toHost # <<>> /\ toHost' = Tail(toHost)
  BY DEF HostHandles
<1>2. /\ S \in Seq(Frame) /\ s \in Nat /\ host.rev \in Nat /\ guest.rev \in Nat
      /\ toHost \in Seq(GuestFrame) /\ c \in Nat \ {0} /\ c \in 1..c
      /\ host.last \in Seq(Char) /\ Len(Tail(toHost)) = c - 1
  BY <1>1, StreamType, PageFields, LenProperties, EmptySeq, HeadTailProperties DEF PagesInv
<1>3. PICK n \in 0..s :
          /\ Echoes(n) /\ n = s /\ AtRest(host)
          /\ EditsLead(host.last, toHost, Len(toHost), guest.last)
  BY <1>1 DEF Operating
<1>4. /\ Head(toHost) = toHost[1] /\ toHost[1].type = "EDIT" /\ Fits(host.last, op)
      /\ EditsLead(Applied(host.last, op), Tail(toHost), c - 1, guest.last)
  BY <1>2, <1>3, LeadsTail
<1>5. /\ HostPolite' /\ AtRest(host') /\ host'.last = Applied(host.last, op)
      /\ host'.rev = host.rev + 1 /\ UNCHANGED guest
  BY <1>3, <1>4, HandlesOperation
<1>6. PICK frames \in Seq(Frame) :
         /\ Len(frames) = 1 /\ T = S \o frames
         /\ frames[1].type = "APPLY" /\ frames[1].rev = host.rev + 1 /\ frames[1].client = "B"
  BY <1>3, <1>4, HandlesOperation
<1>7. EditsLead(host'.last, toHost', Len(toHost'), guest'.last)
  BY <1>1, <1>2, <1>4, <1>5
<1>8. /\ Len(T) = n + 1 /\ n \in Nat /\ n = s
      /\ \A i \in 1..n : T[i] = S[i]
      /\ T[n + 1] = frames[1]
  <2> DEFINE f == Len(frames)
  <2>1. /\ Len(S \o frames) = s + f
        /\ \A i \in 1..s : (S \o frames)[i] = S[i]
        /\ \A i \in 1..f : (S \o frames)[s + i] = frames[i]
    <3>1. S \in Seq(Frame) /\ frames \in Seq(Frame)
      BY <1>2
    <3> HIDE DEF S
    <3> QED BY <3>1, ConcatAt
  <2>2. f = 1 /\ 1 \in 1..1 /\ n = s /\ n \in Nat
    BY <1>2, <1>3, <1>6
  <2> HIDE DEF S, s, f
  <2> QED BY <2>1, <2>2, <1>6
<1>9. \A i \in 1..n : S[i].type = "APPLY" /\ S[i].rev = guest.rev + i /\ S[i].client = "B"
  BY <1>3 DEF Echoes
<1>10. NothingWaits(guest) /\ guest.last = guest.editor /\ guest.rev + n = host.rev
  BY <1>8 DEF Operating
<1> DEFINE g == guest.rev
           rev == host.rev
<1>15. g \in Nat /\ rev \in Nat /\ g + n = rev /\ n \in Nat
  BY <1>2, <1>8, <1>10
<1> HIDE DEF S, T, s, c, op, g, rev
<1>11. ASSUME NEW i \in 1..n + 1
       PROVE  T[i].type = "APPLY" /\ T[i].rev = g + i /\ T[i].client = "B" /\ i <= n + 1
  <2>1. i <= n + 1
    BY <1>15
  <2>2. CASE i \in 1..n
    BY <2>1, <2>2, <1>8, <1>9 DEF g
  <2>3. CASE i \notin 1..n
    <3>1. i = n + 1 /\ rev + 1 = g + (n + 1)
      BY <2>3, <1>15
    <3> QED BY <2>1, <3>1, <1>6, <1>8 DEF rev
  <2> QED BY <2>2, <2>3
<1>12. Echoes(n + 1)'
  BY <1>5, <1>8, <1>11 DEF Echoes, T, g
<1>13. n + 1 \in 0..n + 1 /\ n + 1 = Len(Stream') /\ guest'.rev + Len(Stream') = host'.rev
  <2>1. g + (n + 1) = rev + 1 /\ n + 1 \in 0..n + 1
    BY <1>15
  <2> QED BY <2>1, <1>5, <1>8 DEF T, g, rev
<1>14. NothingWaits(guest') /\ guest'.last = guest'.editor
  BY <1>5, <1>10
<1>16. Operating'
  <2>1. \E k \in 0..Len(Stream') :
          /\ Echoes(k)'
          /\ k = Len(Stream') /\ AtRest(host') /\ EditsLead(host'.last, toHost', Len(toHost'), guest'.last)
    BY <1>5, <1>7, <1>12, <1>13
  <2> QED BY <2>1, <1>13, <1>14 DEF Operating, Echoes, AtRest, NothingWaits, EditsLead
<1> QED BY <1>5, <1>16

\* A chunk that reaches the host is followed by the others, or by the host's answer.
LEMMA HandlesKeepSends ==
    ASSUME PagesInv, StreamInv, PagesInv', HostPolite, Sends, HostHandles, host'.asGiven
    PROVE  HostPolite' /\ (Reads' \/ Sends')
<1> DEFINE c == Len(toHost)
           text == guest.last
<1>1. toHost # <<>> /\ toHost' = Tail(toHost)
  BY DEF HostHandles
<1>2. /\ toHost \in Seq(GuestFrame) /\ c \in Nat \ {0} /\ c \in 1..Len(toHost)
      /\ text \in Seq(Char) /\ Len(Tail(toHost)) = c - 1 /\ Tail(toHost) \in Seq(GuestFrame)
  BY <1>1, PageFields, LenProperties, EmptySeq, HeadTailProperties DEF PagesInv
<1>3. /\ NothingWaits(guest) /\ guest.last = guest.editor /\ Stream = <<>> /\ AtRest(host)
  BY DEF Sends
<1>4. PICK rev \in Nat, k \in Nat :
          /\ k + c = Count(text)
          /\ SnapshotComes(host.chunks, toHost, c, k, rev, text)
  BY DEF Sends
<1> HIDE DEF c, text
<1>5. /\ HostPolite' /\ AtRest(host') /\ UNCHANGED guest
      /\ \/ /\ k + 1 < Count(text) /\ host'.last = host.last /\ Stream' = Stream
            /\ SnapshotComes(host'.chunks, toHost', c - 1, k + 1, rev, text)
         \/ /\ k + 1 = Count(text) /\ c = 1 /\ host'.last = text
            /\ \E frames \in Seq(HostFrame) :
                  /\ Stream' = Stream \o frames
                  /\ frames = Parts("SYNC_RESPONSE", host'.rev, host'.last)
  BY <1>2, <1>3, <1>4, HandlesSnapshot
<1>6. CASE /\ k + 1 < Count(text) /\ Stream' = Stream
           /\ SnapshotComes(host'.chunks, toHost', c - 1, k + 1, rev, text)
  <2>1. (k + 1) + (c - 1) = Count(text) /\ k + 1 \in Nat /\ c - 1 # 0
    <3>1. Count(text) \in Nat
      BY <1>2, CountProperties
    <3> QED BY <3>1, <1>2, <1>4, <1>6
  <2>2. toHost' # <<>> /\ Len(toHost') = c - 1
    BY <2>1, <1>1, <1>2, EmptySeq
  <2>3. \E r \in Nat, j \in Nat : /\ j + Len(toHost') = Count(guest'.last)
                                  /\ SnapshotComes(host'.chunks, toHost', Len(toHost'), j, r, guest'.last)
    BY <2>1, <2>2, <1>5, <1>6 DEF text
  <2>4. NothingWaits(guest') /\ guest'.last = guest'.editor /\ Stream' = <<>> /\ AtRest(host')
    BY <1>3, <1>5, <1>6
  <2>5. Sends'
    BY <2>2, <2>3, <2>4 DEF Sends
  <2> QED BY <2>5, <1>5
<1>7. CASE /\ c = 1 /\ host'.last = text
           /\ \E frames \in Seq(HostFrame) :
                  /\ Stream' = Stream \o frames
                  /\ frames = Parts("SYNC_RESPONSE", host'.rev, host'.last)
  <2>1. PICK frames \in Seq(HostFrame) :
                  /\ Stream' = Stream \o frames
                  /\ frames = Parts("SYNC_RESPONSE", host'.rev, host'.last)
    BY <1>7
  <2>2. \E i \in 0..Len(Stream') : Follows(guest', history', Stream', host'.rev, i)
    BY <2>1, <1>5, AnswerFollows
  <2>3. toHost' = <<>>
    BY <1>1, <1>2, <1>7, EmptySeq
  <2>4. Stream' = frames
    <3>1. frames \in Seq(Frame)
      BY HostFrames
    <3> QED BY <3>1, <2>1, <1>3, ConcatEmptySeq
  <2>5. \A i \in 1..Len(Stream') : Stream'[i].type = "SYNC_RESPONSE" /\ Stream'[i].rev = host'.rev
    <3>1. host'.rev \in Nat
      BY PageFields DEF PagesInv
    <3>2. \A i \in 1..Len(frames) : frames[i].type = "SYNC_RESPONSE" /\ frames[i].rev = host'.rev
      BY <3>1, <2>1, <1>2, <1>7, PartsFields
    <3> QED BY <3>2, <2>4
  <2>6. guest'.pending = <<>> /\ guest'.deferred = <<>> /\ guest'.last = guest'.editor
        /\ guest'.editor = host'.last
    BY <1>3, <1>5, <1>7 DEF NothingWaits, text
  <2>7. Composes'
    <3>1. Len(<<>>) = 0 /\ 1..0 = {}
      OBVIOUS
    <3> QED BY <3>1, <1>5, <2>3, <2>5, <2>6 DEF Composes, AtRest, NothingWaits
  <2>8. ~Changes(toHost')
    BY <2>3 DEF Changes
  <2>9. Reads'
    BY <2>2, <2>6, <2>7, <2>8 DEF Reads, Changes
  <2> QED BY <2>9, <1>5
<1> QED BY <1>5, <1>6, <1>7

\* The host takes the first frame.
LEMMA JoinsTail ==
    ASSUME NEW C \in Seq(GuestFrame), C # <<>>
    PROVE  /\ ~Joins(C) => Head(C).type # "PEER_JOINED" /\ ~Joins(Tail(C))
           /\ Joins(C) /\ Head(C).type # "PEER_JOINED" => Joins(Tail(C))
           /\ ~Changes(C) => ~Changes(Tail(C)) /\ ~Changing(Head(C))
<1> DEFINE T == Tail(C)
           n == Len(C)
<1>1. /\ n \in Nat \ {0} /\ Len(T) = n - 1 /\ Head(C) = C[1]
      /\ \A k \in 1..n - 1 : T[k] = C[k + 1]
  BY HeadTailProperties, LenProperties, EmptySeq
<1>2. /\ Joins(C) <=> \E k \in 1..n : C[k].type = "PEER_JOINED"
      /\ Joins(T) <=> \E k \in 1..Len(T) : T[k].type = "PEER_JOINED"
      /\ Changes(C) <=> \E k \in 1..n : Changing(C[k])
      /\ Changes(T) <=> \E k \in 1..Len(T) : Changing(T[k])
  BY DEF Joins, Changes, Changing
<1> HIDE DEF T, n
<1>3. 1 \in 1..n
  BY <1>1
<1>4. \A k \in 1..Len(T) : k + 1 \in 1..n /\ T[k] = C[k + 1]
  BY <1>1
<1>5. \A k \in 1..n : k # 1 => k - 1 \in 1..Len(T) /\ T[k - 1] = C[k]
  <2> TAKE k \in 1..n
  <2> HAVE k # 1
  <2>1. k - 1 \in 1..Len(T) /\ (k - 1) + 1 = k
    BY <1>1
  <2> QED BY <2>1, <1>4
<1> QED BY <1>1, <1>2, <1>3, <1>4, <1>5 DEF T

\* What the host makes of a frame of its guest keeps both users polite.
LEMMA PoliteHostHandles ==
    ASSUME PagesInv, StreamInv, HeldInv, PoliteInv, HostHandles, host'.asGiven
    PROVE  PoliteInv'
<1>1. PICK q, frames, texts :
           /\ HostBecomes(q, frames, texts) /\ Says(q, frames, texts)
           /\ Head(toHost).type \in {"PEER_JOINED", "SYNC_REQUEST"} => Answers(q, frames)
           /\ Stream' = Stream \o frames
  BY HostStepSays
<1>2. /\ toHost # <<>> /\ toHost' = Tail(toHost) /\ polite' = polite /\ guest' = guest
      /\ host' = q
  BY <1>1 DEF HostBecomes, HostHandles
<1>3. toHost \in Seq(GuestFrame) /\ PagesInv' /\ frames \in Seq(HostFrame)
  BY <1>1, HostStepsKeepStream DEF PagesInv, Says
<1> SUFFICES ASSUME polite
             PROVE  /\ HostPolite'
                    /\ guest.role = "joining" => Stream' # <<>> /\ Stream'[1].type = "JOIN_OK"
                    /\ guest.role = "offline" => Left'
                    /\ guest.role # "offline" /\ Joins(toHost') => Waits'
                    /\ guest.role # "offline" /\ ~Joins(toHost')
                          => Reads' \/ Writes' \/ Operating' \/ Sends'
  BY <1>2 DEF PoliteInv, Joins
<1>4. /\ HostPolite
      /\ guest.role = "joining" => Stream # <<>> /\ Stream[1].type = "JOIN_OK"
      /\ guest.role = "offline" => Left
      /\ guest.role # "offline" /\ Joins(toHost) => Waits
      /\ guest.role # "offline" /\ ~Joins(toHost) => Reads \/ Writes \/ Operating \/ Sends
  BY DEF PoliteInv
<1>5. guest.role = "joining" => Stream' # <<>> /\ Stream'[1].type = "JOIN_OK"
  BY <1>1, <1>3, <1>4, StreamGrows
<1>6. /\ ~Joins(toHost) => Head(toHost).type # "PEER_JOINED" /\ ~Joins(toHost')
      /\ Joins(toHost) /\ Head(toHost).type # "PEER_JOINED" => Joins(toHost')
      /\ ~Changes(toHost) => ~Changes(toHost') /\ ~Changing(Head(toHost))
  BY <1>2, <1>3, JoinsTail
<1>7. ASSUME Head(toHost).type \in {"PEER_JOINED", "SYNC_REQUEST"}, AtRest(guest),
             guest.last = guest.editor, ~Changes(toHost')
      PROVE  Reads'
  <2>1. frames = Parts("SYNC_RESPONSE", host'.rev, host'.last)
    BY <1>1, <1>2, <1>7 DEF Answers
  <2>2. \E i \in 0..Len(Stream') : Follows(guest', history', Stream', host'.rev, i)
    BY <2>1, <1>1, <1>2, <1>3, AnswerFollows
  <2> QED BY <2>2, <1>2, <1>7 DEF Reads, AtRest, NothingWaits, Changes
<1>8. CASE guest.role = "offline"
  BY <1>4, <1>8, LeftHandles
<1>9. CASE guest.role # "offline" /\ Joins(toHost)
  <2>1. /\ Waits /\ HostPolite' /\ Left'
        /\ Head(toHost).type \in {"PEER_JOINED", "SYNC_REQUEST"} => ~Changes(toHost')
    BY <1>4, <1>9, LeftHandles DEF Waits
  <2>2. Waits'
    BY <2>1, <1>2 DEF Waits, AtRest, NothingWaits
  <2>3. ASSUME ~Joins(toHost') PROVE Reads'
    <3>1. Head(toHost).type = "PEER_JOINED"
      BY <2>3, <1>6, <1>9
    <3> QED BY <3>1, <2>1, <1>7 DEF Waits
  <2> QED BY <2>1, <2>2, <2>3, <1>5, <1>9
<1>10. CASE guest.role # "offline" /\ ~Joins(toHost)
  <2>1. CASE Reads
    <3>1. AtRest(guest) /\ guest.last = guest.editor /\ ~Changes(toHost)
      BY <2>1, <1>2 DEF Reads, Composes
    <3>2. Head(toHost).type \in {"PEER_JOINED", "SYNC_REQUEST"}
      <4>1. Head(toHost) \in GuestFrame
        BY <1>2, <1>3, HeadTailProperties
      <4>2. Head(toHost).type \in {"PEER_JOINED", "SYNC_REQUEST", "EDIT", "DOCUMENT_SNAPSHOT"}
        BY <4>1 DEF GuestFrame, DocumentChunk
      <4> QED BY <4>2, <3>1, <1>6 DEF Changing
    <3>3. Reads'
      BY <3>1, <3>2, <1>6, <1>7
    <3>4. HostPolite'
      BY <3>2, <1>4, AnswersPolite
    <3> QED BY <3>3, <3>4, <1>5, <1>6, <1>10
  <2>2. CASE Operating
    BY <2>2, <1>4, <1>5, <1>6, <1>10, HandlesKeepOperating
  <2>3. CASE Sends
    BY <2>3, <1>3, <1>4, <1>5, <1>6, <1>10, HandlesKeepSends
  <2>4. ASSUME Writes PROVE FALSE
    BY <2>4, <1>2 DEF Writes
  <2> QED BY <2>1, <2>2, <2>3, <2>4, <1>4, <1>10
<1> QED BY <1>8, <1>9, <1>10

\* The relay passes on what comes, as long as both users stay polite.
LEMMA PoliteHub ==
    ASSUME PagesInv, StreamInv, PoliteInv, HubRelays
    PROVE  PoliteInv'
<1>1. /\ UNCHANGED <<host, guest, toHost, history>>
      /\ Stream' = Stream \/ guest.role = "offline" \/ ~polite'
  BY HubKeepsStream
<1>2. polite' => polite
  BY DEF HubRelays
<1> SUFFICES ASSUME polite' PROVE PoliteInv'
  BY DEF PoliteInv
<1>3. /\ HostPolite
      /\ guest.role = "joining" => Stream # <<>> /\ Stream[1].type = "JOIN_OK"
      /\ guest.role = "offline" => Left /\ ~guest.timer
      /\ guest.role # "offline" /\ Joins(toHost) => Waits
      /\ guest.role # "offline" /\ ~Joins(toHost) => Reads \/ Writes \/ Operating \/ Sends
  BY <1>2 DEF PoliteInv
<1>4. HostPolite'
  BY <1>1, <1>3 DEF HostPolite, NothingWaits, LastMissing
<1>5. Left => Left'
  <2>1. \A n : Changed(n) => Changed(n)'
    BY <1>1 DEF Changed, EditsLead, SnapshotComes
  <2>2. AtRest(host) => AtRest(host')
    BY <1>1
  <2>3. Changes(toHost') => Changes(toHost)
    BY <1>1 DEF Changes
  <2> QED BY <2>1, <2>2, <2>3, <1>1 DEF Left, Changing
<1>6. Waits => Waits'
  BY <1>1, <1>5 DEF Waits, AtRest, NothingWaits
<1>7. CASE guest.role = "offline"
  BY <1>1, <1>3, <1>4, <1>5, <1>7 DEF PoliteInv
<1>8. CASE guest.role # "offline"
  <2>1. Stream' = Stream
    BY <1>1, <1>8
  <2>2. Reads => Reads'
    <3>1. \A j : Follows(guest, history, Stream, host.rev, j)
                    => Follows(guest', history', Stream', host'.rev, j)
      BY <2>1, <1>1
    <3>2. Composes => Composes'
      BY <2>1, <1>1 DEF Composes, AtRest, NothingWaits
    <3>3. (AtRest(guest) => AtRest(guest')) /\ (~Changes(toHost) => ~Changes(toHost'))
      BY <1>1
    <3> QED BY <3>1, <3>2, <3>3, <2>1, <1>1 DEF Reads
  <2>3. Writes => Writes'
    BY <2>1, <1>1 DEF Writes, AtRest, NothingWaits
  <2>4. Operating => Operating'
    BY <2>1, <1>1 DEF Operating, Echoes, AtRest, NothingWaits, EditsLead
  <2>5. Sends => Sends'
    BY <2>1, <1>1 DEF Sends, AtRest, NothingWaits, SnapshotComes
  <2> QED BY <2>1, <2>2, <2>3, <2>4, <2>5, <1>1, <1>3, <1>4, <1>6, <1>8 DEF PoliteInv, Joins
<1> QED BY <1>7, <1>8

\* Whatever the guest is doing, it leaves one change to the host, or nothing.
LEMMA PoliteLeft ==
    ASSUME PagesInv, polite, PoliteInv
    PROVE  Left
<1> DEFINE c == Len(toHost)
<1>1. /\ toHost \in Seq(GuestFrame) /\ c \in Nat /\ guest.last \in Seq(Char)
      /\ ~Changes(toHost) \/ c # 0
  <2>1. toHost \in Seq(GuestFrame) /\ guest.last \in Seq(Char) /\ c \in Nat
    BY PageFields, LenProperties DEF PagesInv
  <2>2. c = 0 => ~Changes(toHost)
    <3>1. 1..0 = {}
      OBVIOUS
    <3> QED BY <3>1 DEF Changes
  <2> QED BY <2>1, <2>2
<1> SUFFICES ASSUME Changes(toHost) PROVE Left
  BY DEF Left
<1>2. c \in 1..c /\ c + 1..c = {}
  <2>1. c \in Nat \ {0}
    BY <1>1
  <2> HIDE DEF c
  <2> QED BY <2>1
<1>3. ASSUME AtRest(host), Changed(c) PROVE Left
  BY <1>2, <1>3 DEF Left
<1>4. CASE guest.role = "offline" \/ Joins(toHost)
  BY <1>4 DEF PoliteInv, Waits
<1>5. CASE ~(guest.role = "offline" \/ Joins(toHost))
  <2>1. Reads \/ Writes \/ Operating \/ Sends
    BY <1>5 DEF PoliteInv
  <2>2. ~Reads
    BY DEF Reads
  <2>3. toHost # <<>>
    <3>1. Len(<<>>) = 0
      OBVIOUS
    <3> QED BY <3>1, <1>1
  <2>4. ~Writes
    BY <2>3 DEF Writes
  <2>5. CASE Operating
    <3>1. AtRest(host) /\ EditsLead(host.last, toHost, c, guest.last)
      BY <2>3, <2>5 DEF Operating
    <3>2. Changed(c)
      BY <3>1, <1>1 DEF Changed
    <3> QED BY <3>1, <3>2, <1>3
  <2>6. CASE Sends
    <3>1. AtRest(host) /\ \E rev \in Nat, k \in Nat :
                              SnapshotComes(host.chunks, toHost, c, k, rev, guest.last)
      BY <2>6 DEF Sends
    <3>2. Changed(c)
      BY <3>1, <1>1 DEF Changed
    <3> QED BY <3>1, <3>2, <1>3
  <2> QED BY <2>1, <2>2, <2>4, <2>5, <2>6
<1> QED BY <1>4, <1>5

\* A guest that joins has nothing of its own.
LEMMA PoliteGuestJoins ==
    ASSUME PagesInv, StreamInv, PoliteInv, GuestJoins
    PROVE  PoliteInv'
<1> DEFINE j == [type |-> "JOIN_OK"]
           a == [type |-> "PEER_JOINED"]
           D == <<a>>
<1>1. /\ PagesInv' /\ UNCHANGED <<host, polite>>
      /\ Stream' = <<j>> \o Stream /\ toHost' = toHost \o D
      /\ guest' = [guest EXCEPT !.role = "joining", !.rev = 0, !.last = guest.editor,
                                !.chunks = NoChunks]
  BY GuestJoinsKeepsStream
<1>2. guest \in PageType /\ toHost \in Seq(GuestFrame) /\ toHost' \in Seq(GuestFrame)
  BY <1>1 DEF PagesInv
<1> SUFFICES ASSUME polite PROVE PoliteInv'
  BY <1>1 DEF PoliteInv
<1>3. HostPolite /\ Left
  BY PoliteLeft DEF PoliteInv
<1>4. HostPolite'
  BY <1>1, <1>3 DEF HostPolite, NothingWaits, LastMissing
<1>5. AtRest(guest)
  BY DEF GuestJoins
<1>6. guest'.role = "joining" /\ AtRest(guest') /\ guest'.last = guest'.editor
  BY <1>1, <1>2, <1>5 DEF AtRest, NothingWaits, PageType
<1>7. Stream' # <<>> /\ Stream'[1].type = "JOIN_OK"
  <2>1. j \in Frame /\ j.type = "JOIN_OK"
    BY DEF Frame
  <2> HIDE DEF j
  <2>2. Stream \in Seq(Frame) /\ <<j>> \in Seq(Frame) /\ Len(<<j>>) = 1 /\ <<j>>[1] = j
        /\ Len(Stream) \in Nat
    BY <2>1, StreamType
  <2>3. /\ Len(<<j>> \o Stream) = Len(<<j>>) + Len(Stream)
        /\ \A i \in 1..Len(<<j>>) : (<<j>> \o Stream)[i] = <<j>>[i]
    BY <2>2, ConcatAt
  <2>4. 1 \in 1..Len(<<j>>) /\ Len(<<j>>) + Len(Stream) # 0
    BY <2>2
  <2> QED BY <2>1, <2>2, <2>3, <2>4, <1>1, EmptySeq
<1>8. /\ Len(toHost') = Len(toHost) + 1 /\ Len(toHost) \in Nat
      /\ \A i \in 1..Len(toHost) : toHost'[i] = toHost[i]
      /\ toHost'[Len(toHost) + 1] = a
  <2>1. a \in GuestFrame
    BY DEF GuestFrame
  <2> HIDE DEF a
  <2>2. D \in Seq(GuestFrame) /\ Len(D) = 1 /\ D[1] = a /\ 1 \in 1..1 /\ Len(toHost) \in Nat
    BY <2>1, <1>2, LenProperties
  <2>4. toHost' = toHost \o D
    BY <1>1
  <2> HIDE DEF D
  <2>3. /\ Len(toHost \o D) = Len(toHost) + Len(D)
        /\ \A i \in 1..Len(toHost) : (toHost \o D)[i] = toHost[i]
        /\ \A i \in 1..Len(D) : (toHost \o D)[Len(toHost) + i] = D[i]
    <3>1. toHost \in Seq(GuestFrame) /\ D \in Seq(GuestFrame)
      BY <2>2, <1>2
    <3> QED BY <3>1, ConcatAt
  <2> QED BY <2>2, <2>3, <2>4
<1> DEFINE c == Len(toHost)
<1>9. ~Changing(a) /\ a.type = "PEER_JOINED"
  BY DEF Changing
<1> HIDE DEF a, D, j
<1>10. /\ c \in 0..c /\ c <= c + 1 /\ c + 1..c + 1 = {c + 1} /\ c + 1 \in 1..c + 1
  <2>1. c \in Nat
    BY <1>8
  <2> HIDE DEF c
  <2> QED BY <2>1
<1>11. Left'
  <2>1. /\ c \in 0..Len(toHost) /\ c <= Len(toHost')
        /\ \A i \in 1..c : toHost'[i] = toHost[i]
        /\ \A i \in c + 1..Len(toHost') : ~Changing(toHost'[i])
    BY <1>8, <1>9, <1>10
  <2> QED BY <2>1, <1>1, <1>2, <1>3, LeftPart
<1>12. Joins(toHost')
  BY <1>8, <1>9, <1>10 DEF Joins
<1> QED BY <1>4, <1>6, <1>7, <1>11, <1>12 DEF PoliteInv, Waits

\* One that loses its connection leaves what was not lost.
LEMMA PoliteGuestLoses ==
    ASSUME PagesInv, StreamInv, PoliteInv, NEW kept \in 0..Len(toHost), GuestLoses(kept)
    PROVE  PoliteInv'
<1>1. /\ PagesInv' /\ UNCHANGED <<host, polite>> /\ toHost' = SubSeq(toHost, 1, kept)
      /\ guest' = [guest EXCEPT !.role = "offline", !.timer = FALSE]
  BY GuestLosesKeepsStream DEF GuestLoses
<1>2. guest \in PageType /\ toHost \in Seq(GuestFrame) /\ toHost' \in Seq(GuestFrame)
  BY <1>1 DEF PagesInv
<1> SUFFICES ASSUME polite PROVE PoliteInv'
  BY <1>1 DEF PoliteInv
<1>3. HostPolite /\ Left
  BY PoliteLeft DEF PoliteInv
<1>4. HostPolite'
  BY <1>1, <1>3 DEF HostPolite, NothingWaits, LastMissing
<1>5. guest'.role = "offline" /\ ~guest'.timer
  BY <1>1, <1>2 DEF PageType
<1>6. /\ Len(toHost') = kept /\ kept \in Nat
      /\ \A i \in 1..kept : toHost'[i] = toHost[i]
  <2>1. Len(toHost) \in Nat
    BY <1>2, LenProperties
  <2>2. kept \in Nat /\ kept <= Len(toHost) /\ 1 \in Int /\ kept \in Int
    BY <2>1
  <2>3. \A i \in 1..kept : 1 + i - 1 = i
    BY <2>2
  <2> QED BY <2>2, <2>3, <1>1, <1>2, SubSeqProperties
<1>7. Left'
  <2>1. kept + 1..kept = {} /\ kept <= kept
    BY <1>6
  <2>2. /\ kept <= Len(toHost')
        /\ \A i \in 1..kept : toHost'[i] = toHost[i]
        /\ \A i \in kept + 1..Len(toHost') : ~Changing(toHost'[i])
    BY <2>1, <1>6
  <2> QED BY <2>2, <1>1, <1>2, <1>3, LeftPart
<1> QED BY <1>4, <1>5, <1>7 DEF PoliteInv

\* What the guest's user begins,
BeginsTyping ==
    /\ polite => GuestMayType
    /\ guest'.composing = guest.composing
    /\ guest'.timer = (guest.timer \/ (guest.role = "guest" /\ ~guest.composing))
BeginsComposing ==
    /\ polite => GuestMayType
    /\ guest'.composing /\ guest'.timer = guest.timer
Begins ==
    /\ guest'.last = guest.last /\ guest'.pending = guest.pending /\ guest'.deferred = guest.deferred
    /\ toHost' = toHost
    /\ BeginsTyping \/ BeginsComposing

\* what is sent then,
Flushes(p) ==
    /\ guest.timer \/ (guest.role = "guest" /\ guest.editor # guest.last)
    /\ p = [guest EXCEPT !.timer = FALSE] /\ GuestFlushes(p)

\* and what ends a composition.
EndsComposing ==
    /\ guest.composing /\ ~guest'.composing
    /\ guest'.timer = (guest.timer \/ guest.role = "guest")
    /\ guest'.deferred = guest.deferred \o guest.pending /\ guest'.pending = <<>>
    /\ guest'.editor = guest.editor /\ guest'.last = guest.last /\ toHost' = toHost
ShowsLate ==
    /\ guest.deferred # <<>> /\ guest'.deferred = Tail(guest.deferred)
    /\ guest'.composing = guest.composing /\ guest'.timer = guest.timer
    /\ guest'.last = guest.last /\ toHost' = toHost
    /\ IF guest.composing
         THEN guest'.pending = <<Head(guest.deferred)>> /\ guest'.editor = guest.editor
         ELSE guest'.pending = guest.pending /\ guest'.editor = Head(guest.deferred)

\* There is nothing else.
LEMMA GuestEditsCases ==
    ASSUME PagesInv, GuestEdits, guest'.asGiven
    PROVE  Begins \/ (\E p : Flushes(p)) \/ EndsComposing \/ ShowsLate
<1>1. guest \in PageType /\ toHost \in Seq(GuestFrame) /\ guest.role # "host"
  BY DEF PagesInv
<1>2. ASSUME NEW p, GuestBecomes(p, <<>>) PROVE guest' = p /\ toHost' = toHost
  BY <1>1, <1>2, ConcatEmptySeq DEF GuestBecomes
<1>3. ASSUME NEW text \in TypedTexts, GuestTypes(text) PROVE Begins
  <2>1. guest' = Typed(guest, text) /\ toHost' = toHost /\ (polite => GuestMayType)
    BY <1>2, <1>3 DEF GuestTypes
  <2> DEFINE q == [guest EXCEPT !.editor = text]
             t == q.timer \/ (q.role \in {"host", "guest"} /\ ~q.composing)
  <2>2. /\ q = [x \in DOMAIN q |-> q[x]]
        /\ q.timer = guest.timer /\ q.role = guest.role /\ q.composing = guest.composing
        /\ q.last = guest.last /\ q.pending = guest.pending /\ q.deferred = guest.deferred
        /\ DOMAIN q = DOMAIN guest
    BY <1>1 DEF PageType
  <2>3. guest' = [q EXCEPT !.timer = t]
    BY <2>1 DEF Typed, Scheduled
  <2>4. DOMAIN guest = {"role", "editor", "last", "rev", "timer", "composing", "pending",
                        "deferred", "chunks", "asGiven"}
    BY <1>1 DEF PageType
  <2>5. t = (guest.timer \/ (guest.role = "guest" /\ ~guest.composing))
    BY <2>2, <1>1 DEF PageType
  <2> HIDE DEF q, t
  <2>6. /\ guest'.timer = t /\ guest'.composing = q.composing /\ guest'.last = q.last
        /\ guest'.pending = q.pending /\ guest'.deferred = q.deferred
    BY <2>2, <2>3, <2>4
  <2> QED BY <2>1, <2>2, <2>5, <2>6 DEF Begins, BeginsTyping
<1>4. CASE GuestComposes
  <2>1. guest' = [guest EXCEPT !.composing = TRUE] /\ toHost' = toHost /\ (polite => GuestMayType)
    BY <1>2, <1>4 DEF GuestComposes
  <2> QED BY <1>1, <2>1 DEF Begins, BeginsComposing, PageType
<1>5. CASE GuestSaves
  <2>1. guest.role = "guest" /\ guest.editor # guest.last /\ ~guest.timer /\ GuestFlushes(guest)
    BY <1>5 DEF GuestSaves
  <2>2. guest = [guest EXCEPT !.timer = FALSE]
    BY <2>1, <1>1 DEF PageType
  <2> QED BY <2>1, <2>2 DEF Flushes
<1>6. CASE GuestGoesOn
  <2>1. CASE guest.composing /\ GuestBecomes(Composed(guest), <<>>)
    <3> DEFINE d == guest.deferred \o guest.pending
               q == [guest EXCEPT !.composing = FALSE, !.deferred = d, !.pending = <<>>]
               t == q.timer \/ (q.role \in {"host", "guest"} /\ ~q.composing)
    <3>1. guest' = [q EXCEPT !.timer = t] /\ toHost' = toHost
      BY <2>1, <1>2 DEF Composed, Scheduled
    <3>0. /\ guest = [x \in DOMAIN guest |-> guest[x]]
          /\ DOMAIN guest = {"role", "editor", "last", "rev", "timer", "composing", "pending",
                             "deferred", "chunks", "asGiven"}
      BY <1>1 DEF PageType
    <3>2. /\ q.timer = guest.timer /\ q.role = guest.role /\ ~q.composing
          /\ q.last = guest.last /\ q.pending = <<>> /\ q.deferred = d /\ q.editor = guest.editor
          /\ q = [x \in DOMAIN q |-> q[x]]
          /\ DOMAIN q = {"role", "editor", "last", "rev", "timer", "composing", "pending",
                         "deferred", "chunks", "asGiven"}
      <4> HIDE DEF d
      <4> QED BY <3>0
    <3>3. t = (guest.timer \/ guest.role = "guest")
      <4> HIDE DEF q
      <4> QED BY <3>2, <1>1
    <3> HIDE DEF q, t, d
    <3>4. /\ guest'.timer = t /\ guest'.composing = q.composing /\ guest'.last = q.last
          /\ guest'.pending = q.pending /\ guest'.deferred = q.deferred /\ guest'.editor = q.editor
      BY <3>1, <3>2
    <3> QED BY <2>1, <3>1, <3>2, <3>3, <3>4 DEF EndsComposing, d
  <2>2. CASE guest.deferred # <<>> /\ GuestBecomes(ShownLate(guest), <<>>)
    <3> DEFINE d == Tail(guest.deferred)
               text == Head(guest.deferred)
               q == [guest EXCEPT !.deferred = d]
    <3>1. guest' = Shown(q, text) /\ toHost' = toHost
      BY <2>2, <1>2 DEF ShownLate
    <3>2. /\ q.timer = guest.timer /\ q.composing = guest.composing /\ q.last = guest.last
          /\ q.pending = guest.pending /\ q.deferred = d /\ q.editor = guest.editor
          /\ q = [x \in DOMAIN q |-> q[x]]
          /\ DOMAIN q = {"role", "editor", "last", "rev", "timer", "composing", "pending",
                         "deferred", "chunks", "asGiven"}
      <4> HIDE DEF d
      <4> QED BY <1>1 DEF PageType
    <3>5. q \in PageType /\ text \in Seq(Char)
      <4>1. guest.deferred \in Seq(Seq(Char))
        BY <1>1 DEF PageType
      <4>2. d \in Seq(Seq(Char)) /\ text \in Seq(Char)
        BY <4>1, <2>2, HeadTailProperties
      <4> HIDE DEF d, text
      <4> QED BY <4>2, <1>1 DEF PageType
    <3> HIDE DEF q, text, d
    <3>3. Shown(q, text).asGiven
      BY <3>1
    <3>4. /\ guest'.timer = q.timer /\ guest'.composing = q.composing /\ guest'.last = q.last
          /\ guest'.deferred = q.deferred
          /\ IF q.composing THEN guest'.pending = <<text>> /\ guest'.editor = q.editor
                            ELSE guest'.pending = q.pending /\ guest'.editor = text
      BY <3>1, <3>3, <3>5, ShownType
    <3> QED BY <2>2, <3>1, <3>2, <3>4 DEF ShowsLate, d, text
  <2>3. CASE guest.timer /\ GuestFlushes([guest EXCEPT !.timer = FALSE])
    BY <2>3 DEF Flushes
  <2> QED BY <1>6, <2>1, <2>2, <2>3 DEF GuestGoesOn
<1> QED BY <1>3, <1>4, <1>5, <1>6 DEF GuestEdits

\* With nothing under way the guest has the host's document.
LEMMA NothingUnderWay ==
    ASSUME PagesInv, polite, PoliteInv, guest.role # "offline", toHost = <<>>, Stream = <<>>
    PROVE  /\ guest.role = "guest" /\ guest.rev = host.rev /\ guest.last = host.last
           /\ Reads \/ Writes \/ Operating
<1>1. /\ guest.role \in {"host", "offline", "joining", "guest"} /\ guest.role # "host"
      /\ guest.rev \in Nat /\ host.rev \in Nat /\ host.last = history[host.rev + 1]
  BY PageFields DEF PagesInv, PageType
<1>2. Len(toHost) = 0 /\ Len(Stream) = 0
  OBVIOUS
<1>3. ~Joins(toHost)
  <2>1. 1..0 = {}
    OBVIOUS
  <2> QED BY <2>1, <1>2 DEF Joins
<1>4. guest.role = "guest"
  BY <1>1 DEF PoliteInv
<1>5. Reads \/ Writes \/ Operating
  BY <1>3 DEF PoliteInv, Sends
<1>6. CASE Reads
  <2>1. PICK j \in 0..0 : Follows(guest, history, Stream, host.rev, j)
    BY <1>2, <1>6 DEF Reads
  <2>2. j = 0
    OBVIOUS
  <2>3. Shows(guest, history, Stream, Base(Stream, host.rev, 0))
    BY <2>1, <2>2 DEF Follows, Covered
  <2>4. Base(Stream, host.rev, 0) = host.rev
    <3> DEFINE rev == host.rev
    <3>1. Base(Stream, rev, 0) = rev - (0 - 0) /\ rev \in Nat
      BY <1>1, <1>2 DEF Base
    <3> HIDE DEF rev
    <3>2. Base(Stream, rev, 0) = rev
      BY <3>1
    <3> QED BY <3>2 DEF rev
  <2>5. guest.rev = host.rev /\ guest.editor = history[host.rev + 1]
    BY <2>3, <2>4 DEF Shows
  <2> QED BY <2>5, <1>1, <1>4, <1>6 DEF Reads
<1>7. CASE Writes
  BY <1>4, <1>7 DEF Writes
<1>8. CASE Operating
  <2>1. guest.rev + 0 = host.rev
    BY <1>2, <1>8 DEF Operating
  <2>2. guest.rev = host.rev
    BY <2>1, <1>1
  <2>3. PICK n \in 0..0 :
          \/ EditsLead(host.last, toHost, 0, guest.last)
          \/ guest.last = history[guest.rev + n + 1]
    BY <1>2, <1>8 DEF Operating
  <2>4. CASE EditsLead(host.last, toHost, 0, guest.last)
    BY <2>2, <2>4, <1>4, <1>8 DEF EditsLead
  <2>5. CASE guest.last = history[guest.rev + n + 1]
    <3>1. guest.rev + n + 1 = host.rev + 1
      BY <2>1, <2>2, <1>1
    <3> QED BY <2>2, <2>5, <3>1, <1>1, <1>4, <1>8
  <2> QED BY <2>3, <2>4, <2>5
<1> QED BY <1>5, <1>6, <1>7, <1>8

\* The guest's user begins something when there is nothing under way.
LEMMA BeginsPolite ==
    ASSUME PagesInv, StreamInv, polite, PoliteInv, guest.role # "offline", GuestEdits, Begins
    PROVE  ~Joins(toHost') /\ (Writes' \/ Operating')
<1>1. /\ Stream' = Stream /\ guest'.role = guest.role /\ guest'.rev = guest.rev
      /\ UNCHANGED <<host, history>>
  BY GuestEditsKeepStream
<1>2. /\ NothingWaits(guest) /\ AtRest(host) /\ toHub = <<>> /\ toGuest = <<>> /\ toHost = <<>>
  BY DEF Begins, BeginsTyping, BeginsComposing, GuestMayType
<1>3. Stream = <<>> /\ Len(Stream) = 0
  <2>1. Stream \in Seq(Frame) /\ Len(Stream) = Len(toGuest) + Len(toHub)
    BY StreamType
  <2>2. Len(toGuest) = 0 /\ Len(toHub) = 0
    BY <1>2
  <2>3. Len(Stream) = 0
    BY <2>1, <2>2
  <2> QED BY <2>1, <2>3, EmptySeq
<1>4. /\ guest.role = "guest" /\ guest.rev = host.rev /\ guest.last = host.last
      /\ Reads \/ Writes \/ Operating
  BY <1>2, <1>3, NothingUnderWay
<1>5. /\ guest'.last = guest.last /\ toHost' = <<>> /\ NothingWaits(guest')
  BY <1>2 DEF Begins, NothingWaits
<1>6. ~Joins(toHost')
  <2>1. Len(toHost') = 0 /\ 1..0 = {}
    BY <1>5
  <2> QED BY <2>1 DEF Joins
<1>7. CASE guest'.editor # guest'.last
  <2>1. guest'.timer \/ guest'.composing
    BY <1>4 DEF Begins, BeginsTyping, BeginsComposing
  <2>2. Writes'
    BY <2>1, <1>1, <1>2, <1>3, <1>4, <1>5, <1>7 DEF Writes, AtRest, NothingWaits
  <2> QED BY <2>2, <1>6
<1>8. CASE guest'.editor = guest'.last
  <2>1. Echoes(0)'
    <3>1. Len(Stream') = 0 /\ 1..0 = {}
      BY <1>1, <1>3
    <3> QED BY <3>1 DEF Echoes
  <2>2. EditsLead(host'.last, toHost', Len(toHost'), guest'.last)
    <3>1. Len(toHost') = 0 /\ 1..0 = {}
      BY <1>5
    <3> QED BY <3>1, <1>1, <1>4, <1>5 DEF EditsLead
  <2>3. AtRest(host') /\ 0 \in 0..Len(Stream') /\ 0 = Len(Stream')
    BY <1>1, <1>2, <1>3
  <2>4. guest'.rev + Len(Stream') = host'.rev
    <3>1. host.rev \in Nat
      BY PageFields DEF PagesInv
    <3>2. host.rev + 0 = host.rev
      BY <3>1
    <3> QED BY <3>2, <1>1, <1>3, <1>4
  <2>5. Operating'
    BY <2>1, <2>2, <2>3, <2>4, <1>5, <1>8 DEF Operating
  <2> QED BY <2>5, <1>6
<1> QED BY <1>7, <1>8

\* A guest that has more to do shows and sends nothing new.
Quiet ==
    /\ guest'.editor = guest.editor /\ guest'.last = guest.last /\ toHost' = toHost
    /\ ~AtRest(guest)
    /\ NothingWaits(guest) => NothingWaits(guest')
    /\ (\A i \in 1..Len(guest.pending) : guest.pending[i] = guest.editor)
        /\ (\A i \in 1..Len(guest.deferred) : guest.deferred[i] = guest.editor)
       => /\ \A i \in 1..Len(guest'.pending) : guest'.pending[i] = guest.editor
          /\ \A i \in 1..Len(guest'.deferred) : guest'.deferred[i] = guest.editor
    /\ guest.editor # guest.last /\ guest.role = "guest" => guest'.timer \/ guest'.composing

LEMMA QuietKeeps ==
    ASSUME PagesInv, StreamInv, polite, PoliteInv, GuestEdits, Quiet
    PROVE  /\ Reads => Reads'
           /\ guest.role # "offline" /\ Writes => Writes'
           /\ Operating => Operating'
           /\ Sends => Sends'
<1>1. /\ Stream' = Stream /\ guest'.role = guest.role /\ guest'.rev = guest.rev
      /\ UNCHANGED <<host, history>> /\ guest'.chunks = guest.chunks
  BY GuestEditsKeepStream
<1>2. guest'.editor = guest.editor /\ guest'.last = guest.last /\ toHost' = toHost
  BY DEF Quiet
<1>3. ASSUME Reads PROVE Reads'
  <2>1. Composes'
    BY <1>1, <1>2, <1>3 DEF Reads, Composes, Quiet, AtRest, NothingWaits
  <2>2. \A j \in 0..Len(Stream) :
          Follows(guest, history, Stream, host.rev, j) => Follows(guest', history', Stream', host'.rev, j)
    BY <1>1, <1>2 DEF Follows, Shows, Covered, Has
  <2> QED BY <2>1, <2>2, <1>1, <1>2, <1>3 DEF Reads, Changes
<1>4. ASSUME guest.role # "offline", Writes PROVE Writes'
  <2>1. guest.role = "guest"
    BY <1>4, NothingUnderWay DEF Writes
  <2> QED BY <2>1, <1>1, <1>2, <1>4 DEF Writes, Quiet, AtRest, NothingWaits
<1>5. ASSUME Operating PROVE Operating'
  <2>1. PICK n \in 0..Len(Stream) :
          /\ Echoes(n) /\ n = Len(Stream) /\ AtRest(host)
          /\ EditsLead(host.last, toHost, Len(toHost), guest.last)
    BY <1>5 DEF Operating, Quiet
  <2>2. Echoes(n)' /\ EditsLead(host'.last, toHost', Len(toHost'), guest'.last) /\ AtRest(host')
    BY <2>1, <1>1, <1>2 DEF Echoes
  <2>3. NothingWaits(guest') /\ guest'.last = guest'.editor /\ guest'.rev + Len(Stream') = host'.rev
    BY <1>1, <1>2, <1>5 DEF Operating, Quiet
  <2> QED BY <2>1, <2>2, <2>3, <1>1 DEF Operating
<1>6. ASSUME Sends PROVE Sends'
  <2>1. AtRest(host') /\ NothingWaits(guest') /\ guest'.last = guest'.editor
    BY <1>1, <1>2, <1>6 DEF Sends, Quiet
  <2> QED BY <2>1, <1>1, <1>2, <1>6 DEF Sends
<1> QED BY <1>3, <1>4, <1>5, <1>6

\* The guest sends what it has: nothing new, or operations, or the whole text.
LEMMA FlushesFrames ==
    ASSUME PagesInv, NEW p, Flushes(p)
    PROVE  /\ guest' = [guest EXCEPT !.timer = FALSE, !.last = guest.editor]
           /\ guest.editor = guest.last => toHost' = toHost
           /\ toHost = <<>> /\ guest.editor # guest.last =>
                 \/ EditsLead(guest.last, toHost', Len(toHost'), guest.editor)
                 \/ toHost' = Parts("DOCUMENT_SNAPSHOT", guest.rev, guest.editor)
<1> DEFINE old == guest.last
           new == guest.editor
           ops == ComputeEditorDiff(old, new)
           large  == \E k \in 1..Len(ops) : ops[k].type = "INSERT" /\ Len(ops[k].text) > RelayChunkSize
           single == [k \in 1..Len(ops) |-> [type |-> "EDIT", op |-> ops[k]]]
           whole  == Parts("DOCUMENT_SNAPSHOT", guest.rev, new)
<1>1. /\ guest \in PageType /\ old \in Seq(Char) /\ new \in Seq(Char) /\ guest.rev \in Nat
      /\ toHost \in Seq(GuestFrame)
  BY PageFields DEF PagesInv
<1>2. /\ p.last = old /\ p.editor = new /\ p.rev = guest.rev
      /\ p = [guest EXCEPT !.timer = FALSE] /\ GuestFlushes(p)
  BY <1>1 DEF Flushes, PageType
<1>3. /\ guest' = [p EXCEPT !.last = new]
      /\ toHost' = toHost \o (IF large THEN whole ELSE single)
  <2>1. /\ guest' = [p EXCEPT !.last = p.editor]
        /\ toHost' = toHost \o
             (IF \E k \in 1..Len(ComputeEditorDiff(p.last, p.editor)) :
                   /\ ComputeEditorDiff(p.last, p.editor)[k].type = "INSERT"
                   /\ Len(ComputeEditorDiff(p.last, p.editor)[k].text) > RelayChunkSize
              THEN Parts("DOCUMENT_SNAPSHOT", p.rev, p.editor)
              ELSE [k \in 1..Len(ComputeEditorDiff(p.last, p.editor)) |->
                      [type |-> "EDIT", op |-> ComputeEditorDiff(p.last, p.editor)[k]]])
    BY <1>2 DEF GuestFlushes, GuestBecomes
  <2> QED BY <2>1, <1>2
<1>4. guest' = [guest EXCEPT !.timer = FALSE, !.last = new]
  <2> HIDE DEF new
  <2> QED BY <1>2, <1>3
<1>5. ASSUME new = old PROVE toHost' = toHost
  <2>1. ops = <<>>
    BY <1>1, <1>5, DiffSame
  <2>2. Len(ops) = 0 /\ 1..0 = {}
    BY <2>1
  <2> HIDE DEF ops
  <2>3. ~large /\ single = <<>>
    BY <2>2
  <2> HIDE DEF large, single, whole
  <2>4. toHost' = toHost \o <<>>
    BY <2>3, <1>3
  <2> QED BY <2>4, <1>1, ConcatEmptySeq
<1>6. ASSUME toHost = <<>>
      PROVE  \/ EditsLead(old, toHost', Len(toHost'), new)
             \/ toHost' = whole
  <2>1. CASE large
    <3>1. whole \in Seq(DocumentChunk("DOCUMENT_SNAPSHOT"))
      <4> DEFINE rev == guest.rev
      <4>1. rev \in Nat /\ new \in Seq(Char) /\ whole = Parts("DOCUMENT_SNAPSHOT", rev, new)
        BY <1>1
      <4> HIDE DEF rev, new, whole
      <4> QED BY <4>1, PartsType
    <3>2. toHost' = toHost \o whole
      BY <2>1, <1>3
    <3> HIDE DEF whole
    <3>3. toHost' = whole
      BY <3>1, <3>2, <1>6, ConcatEmptySeq
    <3> QED BY <3>3
  <2>2. CASE ~large
    <3>1. /\ ops \in Seq(Operation)
          /\ \/ ops = <<>> /\ old = new
             \/ Len(ops) = 1 /\ Fits(old, ops[1]) /\ Applied(old, ops[1]) = new
             \/ /\ Len(ops) = 2
                /\ Fits(old, ops[1]) /\ Applied(old, ops[1]) \in Seq(Char)
                /\ Fits(Applied(old, ops[1]), ops[2])
                /\ Applied(Applied(old, ops[1]), ops[2]) = new
      <4> DEFINE D == ComputeEditorDiff(old, new)
      <4>1. D = ComputeEditorDiff(old, new) /\ ops = D /\ old \in Seq(Char) /\ new \in Seq(Char)
        BY <1>1
      <4> HIDE DEF D, old, new, ops
      <4> QED BY <4>1, DiffLeads
    <3>2. toHost' = toHost \o single
      BY <2>2, <1>3
    <3> HIDE DEF ops
    <3>3. Len(ops) \in Nat
      BY <3>1, LenProperties
    <3> DEFINE n == Len(ops)
    <3>4. /\ single \in [1..n -> {single[i] : i \in 1..n}] /\ n \in Nat
          /\ \A i \in 1..n : single[i].type = "EDIT" /\ single[i].op = ops[i]
      BY <3>3
    <3> HIDE DEF single
    <3>5. single \in Seq({single[i] : i \in 1..n}) /\ Len(single) = n
      <4> HIDE DEF n
      <4>1. single \in Seq({single[i] : i \in 1..n})
        BY <3>4, SeqDef
      <4>2. Len(single) = n
        BY <4>1, <3>4, LenProperties
      <4> QED BY <4>1, <4>2
    <3>6. toHost' = single
      BY <3>2, <3>5, <1>6, ConcatEmptySeq
    <3>7. EditsLead(old, single, n, new)
      <4>1. CASE n = 0
        <5>1. ops = <<>>
          BY <4>1, <3>1, EmptySeq
        <5>2. old = new
          BY <5>1, <4>1, <3>1
        <5> QED BY <4>1, <5>2, <3>4 DEF EditsLead
      <4>2. CASE n # 0
        <5>1. 1 \in 1..n
          BY <4>2, <3>4
        <5>2. single[1].op = ops[1]
          BY <5>1, <3>4
        <5>3. n = 2 => single[2].op = ops[2]
          BY <3>4
        <5>4. ops # <<>>
          BY <4>2
        <5> QED BY <5>2, <5>3, <5>4, <3>1, <3>4 DEF EditsLead
      <4> QED BY <4>1, <4>2
    <3> QED BY <3>5, <3>6, <3>7
  <2> QED BY <2>1, <2>2
<1> QED BY <1>4, <1>5, <1>6

\* The guest sends what its user has typed.
LEMMA WritesFlushes ==
    ASSUME PagesInv, StreamInv, GuestEdits, Writes, NEW p, Flushes(p)
    PROVE  ~Joins(toHost') /\ (Operating' \/ Sends')
<1>1. /\ Stream' = Stream /\ guest'.role = guest.role /\ guest'.rev = guest.rev
      /\ UNCHANGED <<host, history>> /\ PagesInv'
  BY GuestEditsKeepStream
<1>2. /\ toHost = <<>> /\ Stream = <<>> /\ AtRest(host) /\ NothingWaits(guest)
      /\ guest.last = host.last /\ guest.rev = host.rev /\ guest.editor # guest.last
  BY DEF Writes
<1>3. /\ guest \in PageType /\ guest.editor \in Seq(Char) /\ guest.rev \in Nat /\ host.rev \in Nat
      /\ toHost' \in Seq(GuestFrame) /\ Len(toHost') \in Nat
  BY <1>1, PageFields, LenProperties DEF PagesInv
<1>4. /\ guest' = [guest EXCEPT !.timer = FALSE, !.last = guest.editor]
      /\ \/ EditsLead(guest.last, toHost', Len(toHost'), guest.editor)
         \/ toHost' = Parts("DOCUMENT_SNAPSHOT", guest.rev, guest.editor)
  BY <1>2, FlushesFrames
<1>5. /\ guest'.last = guest.editor /\ guest'.editor = guest.editor
      /\ guest'.pending = guest.pending /\ guest'.deferred = guest.deferred
  BY <1>3, <1>4 DEF PageType
<1>6. NothingWaits(guest') /\ guest'.last = guest'.editor /\ AtRest(host') /\ Stream' = <<>>
  BY <1>1, <1>2, <1>5 DEF NothingWaits
<1>7. CASE EditsLead(guest.last, toHost', Len(toHost'), guest.editor)
  <2>1. EditsLead(host'.last, toHost', Len(toHost'), guest'.last)
    BY <1>1, <1>2, <1>5, <1>7
  <2>2. Echoes(0)' /\ 0 = Len(Stream') /\ 0 \in 0..Len(Stream')
    <3>1. Len(Stream') = 0 /\ 1..0 = {} /\ 0 \in 0..0
      BY <1>6
    <3> QED BY <3>1 DEF Echoes
  <2>3. guest'.rev + Len(Stream') = host'.rev
    <3>1. host.rev + 0 = host.rev
      BY <1>3
    <3> QED BY <3>1, <2>2, <1>1, <1>2
  <2>4. Operating'
    BY <2>1, <2>2, <2>3, <1>6 DEF Operating
  <2>5. ~Joins(toHost')
    <3>1. \A i \in 1..Len(toHost') : toHost'[i].type = "EDIT"
      BY <1>7 DEF EditsLead
    <3> QED BY <3>1 DEF Joins
  <2> QED BY <2>4, <2>5
<1>8. CASE toHost' = Parts("DOCUMENT_SNAPSHOT", guest.rev, guest.editor)
  <2> DEFINE rev == guest.rev
             text == guest.editor
             D == toHost'
  <2>1. rev \in Nat /\ text \in Seq(Char) /\ D = Parts("DOCUMENT_SNAPSHOT", rev, text)
    BY <1>3, <1>8
  <2>2. guest'.last = text /\ D \in Seq(GuestFrame) /\ D = toHost'
    BY <1>3, <1>5
  <2> HIDE DEF rev, text, D
  <2>3. /\ Len(D) = Count(text) /\ Count(text) \in Nat \ {0}
        /\ \A k \in 1..Count(text) : D[k].type = "DOCUMENT_SNAPSHOT"
    BY <2>1, PartsFields, CountProperties
  <2>4. D # <<>> /\ 0 + Len(D) = Count(text) /\ 0 + Count(text) <= Count(text) /\ ~(0 > 0)
    <3>1. Len(<<>>) = 0
      OBVIOUS
    <3> QED BY <3>1, <2>3
  <2>5. \A i \in 1..Len(D) : 0 + i = i
    BY <2>3
  <2>6. SnapshotComes(host'.chunks, D, Len(D), 0, rev, text)
    BY <2>1, <2>3, <2>4, <2>5 DEF SnapshotComes
  <2>7. 0 \in Nat /\ rev \in Nat
    BY <2>1
  <2>8. \E r \in Nat, k \in Nat :
          /\ k + Len(toHost') = Count(guest'.last)
          /\ SnapshotComes(host'.chunks, toHost', Len(toHost'), k, r, guest'.last)
    BY <2>2, <2>4, <2>6, <2>7
  <2>9. Sends'
    BY <2>2, <2>4, <2>8, <1>6 DEF Sends
  <2>10. ~Joins(toHost')
    BY <2>2, <2>3 DEF Joins
  <2> QED BY <2>9, <2>10
<1> QED BY <1>4, <1>7, <1>8

\* What ends a composition, or finds nothing to send, is quiet.
LEMMA EndsQuietly ==
    ASSUME PagesInv, guest.role # "offline"
    PROVE  /\ EndsComposing => Quiet
           /\ (\E p : Flushes(p)) /\ guest.editor = guest.last => Quiet
           /\ /\ ShowsLate /\ guest.editor = guest.last
              /\ \A i \in 1..Len(guest.deferred) : guest.deferred[i] = guest.editor
              => Quiet
<1>1. /\ guest \in PageType
      /\ guest.pending \in Seq(Seq(Char)) /\ guest.deferred \in Seq(Seq(Char))
  BY DEF PagesInv, PageType
<1> DEFINE d == guest.deferred
           e == guest.editor
<1>2. ASSUME EndsComposing PROVE Quiet
  <2> DEFINE b == guest.pending
             c == d \o b
  <2>1. /\ Len(c) = Len(d) + Len(b) /\ Len(d) \in Nat /\ Len(b) \in Nat
        /\ \A i \in 1..Len(d) : c[i] = d[i]
        /\ \A i \in 1..Len(b) : c[Len(d) + i] = b[i]
    <3>1. d \in Seq(Seq(Char)) /\ b \in Seq(Seq(Char))
      BY <1>1
    <3> HIDE DEF d, b
    <3> QED BY <3>1, ConcatAt, LenProperties
  <2>2. /\ guest'.deferred = c /\ guest'.pending = <<>> /\ ~AtRest(guest)
        /\ guest'.editor = e /\ guest'.last = guest.last /\ toHost' = toHost
        /\ guest.role = "guest" => guest'.timer
    BY <1>2 DEF EndsComposing, AtRest
  <2>3. Len(guest'.pending) = 0 /\ 1..0 = {}
    BY <2>2
  <2>4. ASSUME \A i \in 1..Len(d) : d[i] = e, \A i \in 1..Len(b) : b[i] = e, NEW i \in 1..Len(c)
        PROVE  c[i] = e
    <3> HIDE DEF d, b, c, e
    <3>1. i \in 1..Len(d) \/ (i - Len(d) \in 1..Len(b) /\ Len(d) + (i - Len(d)) = i)
      BY <2>1
    <3>2. CASE i \in 1..Len(d)
      BY <3>2, <2>1, <2>4
    <3>3. CASE i - Len(d) \in 1..Len(b) /\ Len(d) + (i - Len(d)) = i
      BY <3>3, <2>1, <2>4
    <3> QED BY <3>1, <3>2, <3>3
  <2>5. NothingWaits(guest) => c = <<>>
    <3>1. <<>> \in Seq(Seq(Char))
      OBVIOUS
    <3> QED BY <3>1, ConcatEmptySeq DEF NothingWaits
  <2> HIDE DEF c
  <2> QED BY <2>2, <2>3, <2>4, <2>5 DEF Quiet, NothingWaits
<1>3. ASSUME NEW p, Flushes(p), guest.editor = guest.last PROVE Quiet
  <2>1. guest' = [guest EXCEPT !.timer = FALSE, !.last = guest.editor] /\ toHost' = toHost
    BY <1>3, FlushesFrames
  <2>2. /\ guest'.editor = guest.editor /\ guest'.last = guest.editor
        /\ guest'.pending = guest.pending /\ guest'.deferred = guest.deferred
    BY <2>1, <1>1 DEF PageType
  <2>3. guest.timer
    BY <1>3 DEF Flushes
  <2> QED BY <1>3, <2>1, <2>2, <2>3 DEF Quiet, NothingWaits, AtRest
<1>4. ASSUME ShowsLate, e = guest.last, \A i \in 1..Len(d) : d[i] = e PROVE Quiet
  <2> DEFINE t == Tail(d)
  <2>1. /\ d # <<>> /\ guest'.deferred = t /\ guest'.composing = guest.composing
        /\ guest'.timer = guest.timer /\ guest'.last = guest.last /\ toHost' = toHost
        /\ IF guest.composing
             THEN guest'.pending = <<Head(d)>> /\ guest'.editor = e
             ELSE guest'.pending = guest.pending /\ guest'.editor = Head(d)
    BY <1>4 DEF ShowsLate
  <2>2. /\ Len(d) \in Nat \ {0} /\ Len(t) = Len(d) - 1 /\ Head(d) = d[1]
        /\ \A i \in 1..Len(d) - 1 : t[i] = d[i + 1]
    <3>1. d \in Seq(Seq(Char)) /\ d # <<>>
      BY <1>1, <2>1
    <3> HIDE DEF d
    <3> QED BY <3>1, HeadTailProperties, LenProperties, EmptySeq
  <2> HIDE DEF t, d, e
  <2>3. Head(d) = e /\ \A i \in 1..Len(t) : t[i] = e
    <3>1. 1 \in 1..Len(d) /\ \A i \in 1..Len(t) : i \in 1..Len(d) - 1 /\ i + 1 \in 1..Len(d)
      BY <2>2
    <3> QED BY <3>1, <2>2, <1>4
  <2>4. Len(<<e>>) = 1 /\ <<e>>[1] = e /\ \A i \in 1..1 : i = 1
    OBVIOUS
  <2>5. (\A i \in 1..Len(guest.pending) : guest.pending[i] = e)
           => \A i \in 1..Len(guest'.pending) : guest'.pending[i] = e
    BY <2>1, <2>3, <2>4
  <2>6. guest'.editor = e /\ ~NothingWaits(guest) /\ ~AtRest(guest)
    BY <2>1, <2>3 DEF NothingWaits, AtRest, d
  <2> QED BY <2>1, <2>3, <2>5, <2>6, <1>4 DEF Quiet, e, d
<1> QED BY <1>2, <1>3, <1>4

\* What the guest's user does, and what the page goes on with, keeps both users polite.
LEMMA PoliteGuestEdits ==
    ASSUME PagesInv, StreamInv, PoliteInv, GuestEdits, guest'.asGiven
    PROVE  PoliteInv'
<1>1. /\ Stream' = Stream /\ guest'.role = guest.role /\ PagesInv' /\ UNCHANGED <<host, polite>>
  BY GuestEditsKeepStream
<1> SUFFICES ASSUME polite PROVE PoliteInv'
  BY <1>1 DEF PoliteInv
<1>2. /\ HostPolite
      /\ guest.role = "joining" => Stream # <<>> /\ Stream[1].type = "JOIN_OK"
      /\ guest.role = "offline" => Left /\ ~guest.timer
      /\ guest.role # "offline" /\ Joins(toHost) => Waits
      /\ guest.role # "offline" /\ ~Joins(toHost) => Reads \/ Writes \/ Operating \/ Sends
  BY DEF PoliteInv
<1>3. HostPolite'
  BY <1>1, <1>2 DEF HostPolite, NothingWaits, LastMissing
<1>4. Begins \/ (\E p : Flushes(p)) \/ EndsComposing \/ ShowsLate
  BY GuestEditsCases
<1>5. CASE guest.role = "offline"
  <2>1. ~ \E p : Flushes(p)
    BY <1>2, <1>5 DEF Flushes
  <2>2. toHost' = toHost /\ ~guest'.timer
    BY <2>1, <1>2, <1>4, <1>5 DEF Begins, BeginsTyping, BeginsComposing, EndsComposing, ShowsLate
  <2>3. Len(toHost) \in 0..Len(toHost) /\ Len(toHost) + 1..Len(toHost) = {}
        /\ Len(toHost) <= Len(toHost)
    <3>1. Len(toHost) \in Nat
      BY LenProperties DEF PagesInv
    <3> QED BY <3>1
  <2>4. Left'
    <3>1. toHost' \in Seq(GuestFrame)
      BY <1>1 DEF PagesInv
    <3>2. \E k \in 0..Len(toHost) :
              /\ k <= Len(toHost')
              /\ \A i \in 1..k : toHost'[i] = toHost[i]
              /\ \A i \in k + 1..Len(toHost') : ~Changing(toHost'[i])
      BY <2>2, <2>3
    <3> QED BY <3>1, <3>2, <1>1, <1>2, <1>5, LeftPart
  <2> QED BY <2>2, <2>4, <1>1, <1>3, <1>5 DEF PoliteInv
<1>6. ASSUME guest.role # "offline", Joins(toHost) PROVE FALSE
  <2>1. AtRest(guest) /\ guest.last = guest.editor
    BY <1>2, <1>6 DEF Waits
  <2>2. toHost # <<>>
    <3>1. Len(<<>>) = 0 /\ 1..0 = {}
      OBVIOUS
    <3> QED BY <3>1, <1>6 DEF Joins
  <2>3. ~Begins
    BY <2>2, <1>6 DEF Begins, BeginsTyping, BeginsComposing, GuestMayType
  <2> QED BY <2>1, <2>3, <1>4 DEF Flushes, EndsComposing, ShowsLate, AtRest, NothingWaits
<1>7. CASE guest.role # "offline" /\ ~Joins(toHost)
  <2>1. SUFFICES ~Joins(toHost') /\ (Reads' \/ Writes' \/ Operating' \/ Sends')
    BY <2>1, <1>1, <1>2, <1>3, <1>7 DEF PoliteInv
  <2>2. Reads \/ Writes \/ Operating \/ Sends
    BY <1>2, <1>7
  <2>3. CASE Begins
    BY <2>3, <1>7, BeginsPolite
  <2>4. CASE \E p : Flushes(p) /\ Writes
    BY <2>4, WritesFlushes
  <2>5. CASE Quiet
    <3>1. toHost' = toHost
      BY <2>5 DEF Quiet
    <3>2. ~Joins(toHost')
      BY <3>1, <1>7
    <3>3. /\ Reads => Reads'
          /\ Writes => Writes'
          /\ Operating => Operating'
          /\ Sends => Sends'
      BY <2>5, <1>7, QuietKeeps
    <3> QED BY <3>2, <3>3, <2>2
  <2>6. CASE EndsComposing
    BY <2>5, <2>6, <1>7, EndsQuietly
  <2>7. CASE ~Writes
    <3>1. guest.last = guest.editor
      BY <2>2, <2>7 DEF Reads, Operating, Sends
    <3>2. ASSUME NEW p, Flushes(p) PROVE Quiet
      BY <3>1, <3>2, <1>7, EndsQuietly
    <3>3. ASSUME ShowsLate PROVE Quiet
      <4>1. ~NothingWaits(guest) /\ ~AtRest(guest)
        BY <3>3 DEF ShowsLate, NothingWaits, AtRest
      <4>2. Reads
        BY <4>1, <2>2, <2>7 DEF Operating, Sends
      <4>3. \A i \in 1..Len(guest.deferred) : guest.deferred[i] = guest.editor
        BY <4>1, <4>2 DEF Reads, Composes
      <4> QED BY <4>3, <3>1, <3>3, <1>7, EndsQuietly
    <3> QED BY <2>3, <2>5, <2>6, <3>2, <3>3, <1>4
  <2>8. CASE Writes
    <3>1. ~ShowsLate
      BY <2>8 DEF Writes, ShowsLate, NothingWaits
    <3> QED BY <3>1, <2>3, <2>4, <2>6, <2>8, <1>4
  <2> QED BY <2>7, <2>8
<1> QED BY <1>5, <1>6, <1>7

\* The guest asks for the document, or sends nothing.
LEMMA AsksOnly ==
    ASSUME PagesInv, NEW frames \in Seq(GuestFrame), toHost' = toHost \o frames,
           \A k \in 1..Len(frames) : frames[k].type = "SYNC_REQUEST"
    PROVE  /\ Joins(toHost') <=> Joins(toHost)
           /\ ~Changes(toHost) => ~Changes(toHost')
           /\ PagesInv' /\ UNCHANGED host /\ Left => Left'
<1> DEFINE C == toHost
           D == toHost'
           c == Len(C)
           l == Len(frames)
<1>1. /\ Len(D) = c + l /\ c \in Nat /\ l \in Nat
      /\ \A i \in 1..c : D[i] = C[i]
      /\ \A i \in 1..l : D[c + i] = frames[i]
  <2>1. C \in Seq(GuestFrame) /\ D = C \o frames
    BY DEF PagesInv
  <2> HIDE DEF C, D
  <2> QED BY <2>1, ConcatAt
<1>2. /\ Joins(C) <=> \E k \in 1..c : C[k].type = "PEER_JOINED"
      /\ Joins(D) <=> \E k \in 1..Len(D) : D[k].type = "PEER_JOINED"
      /\ Changes(C) <=> \E k \in 1..c : Changing(C[k])
      /\ Changes(D) <=> \E k \in 1..Len(D) : Changing(D[k])
  BY DEF Joins, Changes, Changing
<1> HIDE DEF C, D, c, l
<1>3. \A i \in 1..c : i \in 1..Len(D)
  BY <1>1
<1>4. ASSUME NEW i \in 1..Len(D), i \notin 1..c PROVE D[i].type = "SYNC_REQUEST"
  <2>1. i - c \in 1..l /\ c + (i - c) = i
    BY <1>1, <1>4
  <2> QED BY <2>1, <1>1 DEF l
<1>5. Joins(D) <=> Joins(C)
  BY <1>1, <1>2, <1>3, <1>4
<1>6. ~Changes(C) => ~Changes(D)
  BY <1>1, <1>2, <1>4 DEF Changing
<1>7. ASSUME PagesInv', UNCHANGED host, Left PROVE Left'
  <2>1. c \in 0..c /\ c <= Len(D) /\ \A i \in c + 1..Len(D) : i \in 1..Len(D) /\ i \notin 1..c
    BY <1>1
  <2>2. \A i \in c + 1..Len(D) : ~Changing(D[i])
    BY <2>1, <1>4 DEF Changing
  <2>3. D \in Seq(GuestFrame)
    BY <1>7 DEF PagesInv, D
  <2> QED BY <2>1, <2>2, <2>3, <1>1, <1>7, LeftPart DEF c, C, D
<1> QED BY <1>5, <1>6, <1>7 DEF C, D

\* A guest that waits for its operations counts the next one, or follows the host's.
LEMMA GuestKeepsOperating ==
    ASSUME PagesInv, StreamInv, Operating, GuestHandles, guest'.asGiven
    PROVE  toHost' = toHost /\ Operating'
<1> DEFINE m == Head(toGuest)
           S == Stream
           T == Tail(S)
           s == Len(S)
           g == guest.rev
           h == history
<1>1. /\ S # <<>> /\ Head(S) = m /\ Stream' = T /\ UNCHANGED <<host, history>>
  BY GuestHandlesKeepsStream
<1>2. S \in Seq(Frame) /\ s \in Nat
  BY StreamType
<1>3. /\ T \in Seq(Frame) /\ s \in Nat \ {0} /\ Len(T) = s - 1
      /\ S[1] = m /\ \A i \in 1..s - 1 : T[i] = S[i + 1]
  BY <1>1, <1>2, TailLeft
<1>4. PICK n \in 0..s :
          /\ Echoes(n)
          /\ \/ n = s /\ AtRest(host) /\ EditsLead(host.last, toHost, Len(toHost), guest.last)
             \/ toHost = <<>> /\ AtRest(guest) /\ guest.last = h[g + n + 1]
  BY DEF Operating
<1>5. \A i \in 1..s : S[i].type = "APPLY" /\ S[i].rev = g + i /\ S[i].client = IF i <= n THEN "B" ELSE "A"
  BY <1>4 DEF Echoes
<1>6. NothingWaits(guest) /\ guest.last = guest.editor /\ g + s = host.rev
  BY DEF Operating
<1>7. /\ guest \in PageType /\ g \in Nat /\ host.rev \in Nat /\ toHost \in Seq(GuestFrame)
  BY PageFields DEF PagesInv
<1>8. PICK q \in PageType, frames \in Seq(GuestFrame) :
        /\ GuestBecomes(q, frames)
        /\ \/ m.type = "JOIN_OK"
           \/ m.type = "SYNC_RESPONSE"
           \/ m.type = "APPLY" /\ m.rev <= g
           \/ /\ m.client = "B"
              /\ q = [guest EXCEPT !.rev = m.rev, !.last = guest.editor] /\ frames = <<>>
           \/ /\ m.type = "APPLY" /\ m.client # "B"
              /\ Fits(guest.editor, m.op) /\ q = Followed(guest, m) /\ frames = <<>>
           \/ /\ m.type = "APPLY" /\ m.client # "B" /\ ~Fits(guest.editor, m.op)
  BY GuestHandlesCases
<1>9. guest' = q /\ toHost' = toHost \o frames
  BY <1>8 DEF GuestBecomes
<1>10. Tells(h, m) /\ (m.type = "APPLY" => m.op \in Operation)
  <2>1. 1 \in 1..s
    BY <1>3
  <2>2. Tells(h, S[1])
    BY <2>1 DEF StreamInv
  <2>3. m \in Frame
    BY GuestHandlesCases
  <2> QED BY <2>2, <2>3, <1>3, FrameFields
<1> HIDE DEF m, S, T, s, g, h
<1> DEFINE r == host.rev
<1>11. /\ s \in Nat \ {0} /\ g \in Nat /\ r \in Nat /\ n \in 0..s /\ g + s = r /\ Len(T) = s - 1
  BY <1>3, <1>4, <1>6, <1>7
<1> HIDE DEF r
<1>12. m.type = "APPLY" /\ m.rev = g + 1 /\ m.rev \in Nat /\ ~(m.rev <= g)
       /\ m.client = IF 1 <= n THEN "B" ELSE "A"
  <2>1. 1 \in 1..s /\ g + 1 \in Nat /\ ~(g + 1 <= g)
    BY <1>11
  <2> QED BY <2>1, <1>3, <1>5
<1>13. g + 1 + Len(T) = r
  BY <1>11
<1>14. ASSUME NEW i \in 1..Len(T)
       PROVE  /\ T[i].type = "APPLY" /\ T[i].rev = (g + 1) + i
              /\ T[i].client = IF i + 1 <= n THEN "B" ELSE "A"
  <2>1. i \in 1..s - 1 /\ i + 1 \in 1..s /\ g + (i + 1) = (g + 1) + i
    BY <1>11
  <2> QED BY <2>1, <1>3, <1>5
<1>15. CASE n # 0
  <2>1. /\ 1 <= n /\ n - 1 \in 0..Len(T) /\ (g + 1) + (n - 1) + 1 = g + n + 1
        /\ n = s => n - 1 = Len(T)
        /\ \A i \in 1..Len(T) : (i + 1 <= n) <=> (i <= n - 1)
    BY <1>11, <1>15
  <2>2. q = [guest EXCEPT !.rev = m.rev, !.last = guest.editor] /\ frames = <<>>
    BY <2>1, <1>8, <1>12
  <2>3. /\ q.rev = g + 1 /\ q.last = guest.editor /\ q.editor = guest.editor
        /\ q.pending = guest.pending /\ q.deferred = guest.deferred
        /\ q.timer = guest.timer /\ q.composing = guest.composing
    BY <2>2, <1>7, <1>12 DEF PageType
  <2>4. toHost' = toHost
    BY <2>2, <1>7, <1>9, ConcatEmptySeq
  <2>5. NothingWaits(guest') /\ guest'.last = guest'.editor /\ guest'.rev + Len(Stream') = host'.rev
    BY <2>3, <1>1, <1>6, <1>9, <1>13 DEF NothingWaits, r
  <2>6. Echoes(n - 1)'
    BY <2>1, <2>3, <1>1, <1>9, <1>14 DEF Echoes
  <2>7. \/ /\ n - 1 = Len(Stream') /\ AtRest(host')
           /\ EditsLead(host'.last, toHost', Len(toHost'), guest'.last)
        \/ toHost' = <<>> /\ AtRest(guest') /\ guest'.last = history'[guest'.rev + (n - 1) + 1]
    <3>1. CASE n = s /\ AtRest(host) /\ EditsLead(host.last, toHost, Len(toHost), guest.last)
      BY <3>1, <2>1, <2>3, <2>4, <1>1, <1>6, <1>9
    <3>2. CASE toHost = <<>> /\ AtRest(guest) /\ guest.last = h[g + n + 1]
      <4>1. AtRest(guest')
        BY <3>2, <2>3, <1>9 DEF AtRest, NothingWaits
      <4> QED BY <3>2, <4>1, <2>1, <2>3, <2>4, <1>1, <1>6, <1>9 DEF h
    <3> QED BY <3>1, <3>2, <1>4
  <2>8. Operating'
    BY <2>1, <2>5, <2>6, <2>7, <1>1 DEF Operating
  <2> QED BY <2>4, <2>8
<1>16. CASE n = 0
  <2>1. ~(1 <= n) /\ n # s /\ g + n + 1 = m.rev /\ 0 \in 0..Len(T)
        /\ \A i \in 1..Len(T) : ~(i + 1 <= n) /\ ~(i <= 0)
    BY <1>11, <1>12, <1>16
  <2>2. m.client = "A"
    BY <2>1, <1>12
  <2>3. toHost = <<>> /\ AtRest(guest) /\ guest.editor = h[m.rev]
    BY <2>1, <1>4, <1>6
  <2>4. Fits(guest.editor, m.op) /\ Applied(guest.editor, m.op) = h[m.rev + 1]
    BY <2>3, <1>10, <1>12 DEF Tells
  <2>5. q = Followed(guest, m) /\ frames = <<>>
    BY <2>2, <2>4, <1>8, <1>12
  <2>6. toHost' = toHost
    BY <2>5, <1>7, <1>9, ConcatEmptySeq
  <2>7. q.rev = g + 1 /\ q.last = h[m.rev + 1]
    BY <2>4, <2>5, <1>7, <1>10, <1>12, FollowedType
  <2>8. AtRest(guest') /\ guest'.last = guest'.editor
    BY <2>3, <1>6, RestHandles
  <2>9. guest'.rev + Len(Stream') = host'.rev
    BY <2>7, <1>1, <1>9, <1>13 DEF r
  <2>10. Echoes(0)'
    BY <2>1, <2>7, <1>1, <1>9, <1>14 DEF Echoes
  <2>11. guest'.last = history'[guest'.rev + 0 + 1]
    <3>1. g + 1 + 0 + 1 = m.rev + 1
      BY <1>11, <1>12
    <3> QED BY <3>1, <2>7, <1>1, <1>9 DEF h
  <2>12. Operating'
    BY <2>1, <2>3, <2>6, <2>8, <2>9, <2>10, <2>11, <1>1 DEF Operating, AtRest
  <2> QED BY <2>6, <2>12
<1> QED BY <1>15, <1>16

\* A guest that reads goes on reading; one whose user composes over the document it has
\* sent gets that document again.
LEMMA GuestKeepsReads ==
    ASSUME PagesInv, StreamInv, HeldInv, Reads, GuestHandles, guest'.asGiven
    PROVE  Reads' /\ (Joins(toHost') <=> Joins(toHost))
<1> DEFINE m == Head(toGuest)
           S == Stream
           T == Tail(S)
           h == history
           e == guest.editor
<1>1. /\ S # <<>> /\ Head(S) = m /\ Stream' = T /\ UNCHANGED <<host, history>>
      /\ guest.role # "offline"
  BY GuestHandlesKeepsStream
<1>2. /\ S \in Seq(Frame) /\ Len(S) \in Nat \ {0} /\ Len(T) = Len(S) - 1
      /\ S[1] = m /\ \A i \in 1..Len(S) - 1 : T[i] = S[i + 1]
  <2>1. S \in Seq(Frame) /\ S # <<>> /\ Head(S) = m
    BY <1>1, StreamType
  <2> HIDE DEF S
  <2> QED BY <2>1, TailLeft
<1>3. guest.last = guest.editor /\ ~Changes(toHost) /\ (AtRest(guest) \/ Composes)
  BY DEF Reads
<1>4. PICK q \in PageType, frames \in Seq(GuestFrame) :
        /\ GuestBecomes(q, frames)
        /\ frames = <<>> \/ frames = <<[type |-> "SYNC_REQUEST"]>>
        /\ m.type = "SYNC_RESPONSE" =>
              /\ frames = <<>>
              /\ \/ Complete(Collected(guest, m)) /\ q = Synchronised(guest, m)
                 \/ q = [guest EXCEPT !.chunks = Collected(guest, m)]
  <2> HIDE DEF m
  <2> QED BY GuestHandlesCases DEF m
<1>5. guest' = q /\ toHost' = toHost \o frames
  BY <1>4 DEF GuestBecomes
<1>6. \A k \in 1..Len(frames) : frames[k].type = "SYNC_REQUEST"
  BY <1>4
<1>7. (Joins(toHost') <=> Joins(toHost)) /\ ~Changes(toHost')
  BY <1>3, <1>5, <1>6, AsksOnly
<1>8. guest \in PageType /\ host.last = h[host.rev + 1] /\ toHost \in Seq(GuestFrame)
  BY DEF PagesInv
<1>9. PICK j \in 0..Len(S) : Follows(guest, h, S, host.rev, j)
  BY DEF Reads
<1>10. CASE AtRest(guest)
  <2>1. \E i \in 0..Len(Stream') : Follows(guest', history', Stream', host'.rev, i)
    BY <1>9, <1>10, FollowsHandles DEF AtRest
  <2>2. AtRest(guest') /\ guest'.last = guest'.editor
    BY <1>3, <1>10, RestHandles
  <2> QED BY <2>1, <2>2, <1>7 DEF Reads, Changes, AtRest, NothingWaits
<1>11. CASE Composes
  <2>1. /\ AtRest(host) /\ toHost = <<>> /\ e = host.last
        /\ \A i \in 1..Len(guest.pending) : guest.pending[i] = e
        /\ \A i \in 1..Len(guest.deferred) : guest.deferred[i] = e
        /\ \A i \in 1..Len(S) : S[i].type = "SYNC_RESPONSE" /\ S[i].rev = host.rev
    BY <1>11 DEF Composes
  <2>2. \E i \in 0..Len(Stream') : Follows(guest', history', Stream', host'.rev, i)
    <3>1. SeesNewest
      BY <2>1, <1>8 DEF SeesNewest
    <3> QED BY <3>1, <1>9, FollowsHandles
  <2>3. m.type = "SYNC_RESPONSE" /\ m.rev = host.rev
    <3>1. 1 \in 1..Len(S)
      BY <1>2
    <3> QED BY <3>1, <2>1, <1>2
  <2>4. m \in DocumentChunk("SYNC_RESPONSE")
    <3>1. m \in Frame
      BY GuestHandlesCases
    <3> QED BY <3>1, <2>3, FrameFields
  <2>5. \A i \in 1..Len(T) : T[i].type = "SYNC_RESPONSE" /\ T[i].rev = host.rev
    <3>1. \A i \in 1..Len(T) : i \in 1..Len(S) - 1 /\ i + 1 \in 1..Len(S)
      BY <1>2
    <3> QED BY <3>1, <2>1, <1>2
  <2>6. /\ q.editor = e /\ q.last = e /\ q.deferred = guest.deferred
        /\ q.pending = guest.pending \/ q.pending = <<e>>
    <3>1. CASE Complete(Collected(guest, m)) /\ q = Synchronised(guest, m)
      <4>3. Synchronised(guest, m).asGiven
        <5> HIDE DEF m
        <5> QED BY <3>1, <1>5
      <4>1. Joined(Collected(guest, m)) = h[m.rev + 1]
        <5>1. Held(guest, h, S) /\ Tells(h, S[1])
          <6>1. 1 \in 1..Len(S)
            BY <1>2
          <6> QED BY <6>1, <1>1 DEF HeldInv, StreamInv
        <5>2. Tells(h, m)
          BY <5>1, <1>2
        <5> HIDE DEF m, S, h
        <5> QED BY <5>1, <5>2, <3>1, <2>4, HeldCompletes DEF S, h
      <4>2. Joined(Collected(guest, m)) = e
        BY <4>1, <2>1, <2>3, <1>8
      <4> HIDE DEF m
      <4> QED BY <4>2, <4>3, <3>1, <2>4, <1>8, SynchronisedType
    <3>2. CASE q = [guest EXCEPT !.chunks = Collected(guest, m)]
      <4> DEFINE c == Collected(guest, m)
      <4>1. q = [guest EXCEPT !.chunks = c]
        BY <3>2
      <4> HIDE DEF c
      <4>2. /\ q.editor = guest.editor /\ q.last = guest.last /\ q.deferred = guest.deferred
            /\ q.pending = guest.pending
        BY <4>1, <1>8 DEF PageType
      <4> QED BY <4>2, <1>3
    <3> QED BY <3>1, <3>2, <2>3, <1>4
  <2>7. \A i \in 1..Len(q.pending) : q.pending[i] = e
    <3>1. Len(<<e>>) = 1 /\ <<e>>[1] = e /\ \A i \in 1..1 : i = 1
      OBVIOUS
    <3> QED BY <3>1, <2>1, <2>6
  <2>8. toHost' = <<>>
    <3>1. frames = <<>>
      BY <2>3, <1>4
    <3> QED BY <3>1, <2>1, <1>5, <1>8, ConcatEmptySeq
  <2>9. Composes'
    BY <2>1, <2>5, <2>6, <2>7, <2>8, <1>1, <1>5 DEF Composes, AtRest, NothingWaits
  <2> QED BY <2>2, <2>6, <2>9, <1>5, <1>7 DEF Reads, Changes
<1> QED BY <1>3, <1>10, <1>11

\* What the guest makes of a frame keeps both users polite.
LEMMA PoliteGuestHandles ==
    ASSUME PagesInv, StreamInv, HeldInv, PoliteInv, GuestHandles, guest'.asGiven
    PROVE  PoliteInv'
<1> DEFINE m == Head(toGuest)
<1>1. /\ PagesInv' /\ Stream # <<>> /\ Head(Stream) = m /\ UNCHANGED <<host, polite>>
      /\ guest.role # "offline" /\ guest'.role # "offline"
  BY GuestHandlesKeepsStream
<1>2. PICK q \in PageType, frames \in Seq(GuestFrame) :
        /\ GuestBecomes(q, frames)
        /\ q.role = guest.role \/ q.role = "guest"
        /\ frames = <<>> \/ frames = <<[type |-> "SYNC_REQUEST"]>>
        /\ m.type = "JOIN_OK" => q = [guest EXCEPT !.role = "guest", !.rev = 0, !.last = guest.editor]
  <2> HIDE DEF m
  <2> QED BY GuestHandlesCases DEF m
<1>3. guest' = q /\ toHost' = toHost \o frames
  BY <1>2 DEF GuestBecomes
<1> SUFFICES ASSUME polite PROVE PoliteInv'
  BY <1>1 DEF PoliteInv
<1>4. /\ HostPolite
      /\ guest.role = "joining" => Stream # <<>> /\ Stream[1].type = "JOIN_OK"
      /\ Joins(toHost) => Waits
      /\ ~Joins(toHost) => Reads \/ Writes \/ Operating \/ Sends
  BY <1>1 DEF PoliteInv
<1>5. HostPolite'
  BY <1>1, <1>4 DEF HostPolite, NothingWaits, LastMissing
<1>6. guest'.role # "joining"
  <2>1. Stream[1] = m
    <3>1. Stream \in Seq(Frame)
      BY StreamType
    <3> QED BY <3>1, <1>1, HeadTailProperties
  <2>2. ASSUME guest.role = "joining" PROVE q.role = "guest"
    <3>1. q = [guest EXCEPT !.role = "guest", !.rev = 0, !.last = guest.editor] /\ guest \in PageType
      BY <2>1, <2>2, <1>2, <1>4 DEF PagesInv
    <3> QED BY <3>1 DEF PageType
  <2> QED BY <2>2, <1>2, <1>3
<1>7. \A k \in 1..Len(frames) : frames[k].type = "SYNC_REQUEST"
  BY <1>2
<1>8. (Joins(toHost') <=> Joins(toHost)) /\ (Left => Left')
  BY <1>1, <1>3, <1>7, AsksOnly
<1>9. CASE Joins(toHost)
  <2>1. AtRest(guest') /\ guest'.last = guest'.editor /\ Left'
    BY <1>4, <1>8, <1>9, RestHandles DEF Waits
  <2> QED BY <2>1, <1>1, <1>5, <1>6, <1>8, <1>9 DEF PoliteInv, Waits
<1>10. CASE ~Joins(toHost)
  <2>1. ~Writes /\ ~Sends
    BY <1>1 DEF Writes, Sends
  <2>2. Reads' \/ Operating'
    BY <2>1, <1>4, <1>10, GuestKeepsReads, GuestKeepsOperating
  <2> QED BY <2>2, <1>1, <1>5, <1>6, <1>8, <1>10 DEF PoliteInv
<1> QED BY <1>9, <1>10

\* With everything at rest and nothing under way, the users agree.
LEMMA PoliteAgreeFromInv == PagesInv /\ PoliteInv => PoliteAgree
<1> SUFFICES ASSUME PagesInv, PoliteInv, polite, guest.role = "guest", AtRest(host), AtRest(guest),
                    toHub = <<>>, toGuest = <<>>, toHost = <<>>
             PROVE  /\ host.editor = host.last /\ guest.editor = host.last
                    /\ guest.last = host.last /\ guest.rev = host.rev
  BY DEF PoliteAgree, Settled
<1>1. host.editor = host.last
  BY DEF PoliteInv, HostPolite, AtRest
<1>2. Stream = <<>>
  <2>1. Len(Stream) = Len(toGuest) + Len(toHub) /\ Stream \in Seq(Frame)
    BY StreamType
  <2>2. Len(toGuest) = 0 /\ Len(toHub) = 0
    OBVIOUS
  <2>3. Len(Stream) = 0
    BY <2>1, <2>2
  <2> QED BY <2>1, <2>3, EmptySeq
<1>3. /\ guest.rev = host.rev /\ guest.last = host.last
      /\ Reads \/ Writes \/ Operating
  BY <1>2, NothingUnderWay
<1>4. guest.last = guest.editor
  BY <1>3 DEF Reads, Writes, Operating, AtRest
<1> QED BY <1>1, <1>3, <1>4

\* At first the guest is not there and the host has nothing to do.
LEMMA InitPolite == Init => PoliteInv
<1> SUFFICES ASSUME Init PROVE PoliteInv
  OBVIOUS
<1>1. PICK text : host = Page("host", text)
  BY DEF Init
<1>2. /\ host.pending = <<>> /\ host.deferred = <<>> /\ host.chunks.parts = <<>>
      /\ host.editor = host.last
  BY <1>1 DEF Page, NoChunks
<1>3. HostPolite
  BY <1>2 DEF HostPolite, NothingWaits, LastMissing
<1>4. guest.role = "offline" /\ ~guest.timer
  BY DEF Init, Page
<1>5. Left
  <2>1. Len(toHost) = 0 /\ 1..0 = {}
    BY DEF Init
  <2> QED BY <2>1 DEF Left, Changes
<1> QED BY <1>3, <1>4, <1>5 DEF PoliteInv

\* So every step whose text comes back as it was leaves the users polite.
LEMMA NextKeepsPolite ==
    ASSUME PagesInv, StreamInv, HeldInv, PoliteInv, [Next]_vars, AsGiven'
    PROVE  PoliteInv'
<1>1. CASE Next
  BY <1>1, NextCases, PoliteHostEdits, PoliteHostHandles, PoliteHub, PoliteGuestEdits,
     PoliteGuestHandles, PoliteGuestJoins, PoliteGuestLoses DEF AsGiven
<1>2. CASE UNCHANGED vars
  <2>1. /\ UNCHANGED <<host, guest, toHub, toGuest, toHost, history, polite>>
        /\ Stream' = Stream
    BY <1>2 DEF vars, channels, Stream
  <2>2. HostPolite' = HostPolite /\ (AtRest(guest))' = AtRest(guest) /\ (AtRest(host))' = AtRest(host)
    BY <2>1 DEF HostPolite, NothingWaits, LastMissing, AtRest
  <2>3. Left' = Left
    <3>1. \A n : Changed(n)' = Changed(n)
      BY <2>1 DEF Changed, EditsLead, SnapshotComes
    <3> QED BY <3>1, <2>1, <2>2 DEF Left, Changes, Changing
  <2>4. Reads => Reads'
    <3>1. \A j : Follows(guest, history, Stream, host.rev, j)
                    => Follows(guest', history', Stream', host'.rev, j)
      BY <2>1
    <3>2. Composes => Composes'
      BY <2>1, <2>2 DEF Composes
    <3> QED BY <3>1, <3>2, <2>1, <2>2 DEF Reads, Changes
  <2>5. Writes => Writes'
    BY <2>1, <2>2 DEF Writes, NothingWaits
  <2>6. Operating => Operating'
    BY <2>1, <2>2 DEF Operating, Echoes, NothingWaits, EditsLead
  <2>7. Sends => Sends'
    BY <2>1, <2>2 DEF Sends, NothingWaits, SnapshotComes
  <2> QED BY <2>1, <2>2, <2>3, <2>4, <2>5, <2>6, <2>7 DEF PoliteInv, Waits, Joins
<1> QED BY <1>1, <1>2

\* Two users who wait for each other - while connected neither begins a change as long as
\* something of the other's is under way, and the guest joins with nothing unfinished - and
\* whose changes the relay accepts see the same text of the same revision, in their editors
\* and as what they take for shared, as soon as both pages are at rest and nothing is on its
\* way: also after changes that went as operations or as a whole document in chunks,
\* compositions over which documents arrive, saves in between and connections lost with a
\* part of a change. Both editors must have given every text shown so far back as it was.
THEOREM PoliteUsersAgree == Spec => []PoliteAgree
<1> DEFINE Inv == PagesInv /\ StreamInv /\ HeldInv /\ (AsGiven => PoliteInv)
<1>1. Init => Inv
  <2>1. Init => HeldInv
    <3>1. \A text : Page("offline", text).role = "offline"
      BY DEF Page
    <3> QED BY <3>1 DEF Init, HeldInv
  <2> QED BY <2>1, InitStream, InitPolite
<1>2. Inv /\ [Next]_vars => Inv'
  <2> SUFFICES ASSUME Inv, [Next]_vars PROVE Inv'
    OBVIOUS
  <2>1. ASSUME AsGiven' PROVE PoliteInv'
    <3>1. AsGiven
      BY <2>1, GivenLasts
    <3> QED BY <2>1, <3>1, NextKeepsPolite
  <2> QED BY <2>1, NextKeepsStream, NextKeepsHeld
<1>3. Inv => PoliteAgree
  <2>1. ~AsGiven => PoliteAgree
    BY DEF PoliteAgree
  <2> QED BY <2>1, PoliteAgreeFromInv
<1> HIDE DEF Inv
<1> QED BY <1>1, <1>2, <1>3, PTL DEF Spec
=============================================================================
