--------------------------- MODULE RelayHubProofs ----------------------------
(***************************************************************************)
(* The safety properties of RelayHub hold for any number of connections,   *)
(* codes and requests, and any capacity of the channels.                   *)
(***************************************************************************)
EXTENDS RelayHub, FiniteSetTheorems, TLAPS

\* A peer is in a room only while its handler may still remove it, and has no channel
\* to write to before its connection was accepted.
HandlersOK ==
    \A p \in Peer :
        /\ peerRoom[p] # NoPeer => handler[p] \in {"reading", "removing"}
        /\ handler[p] \in {"reading", "removing"} => writer[p] # "none"
        /\ handler[p] \in {"absent", "accepting"} => writer[p] = "none"

\* The room r was created: its creator is still in it or will never be in a room again.
Created(r) == peerRoom[r] = r \/ handler[r] \in {"closing", "gone"}

\* Every room there is, or was, is created, and one that expired has left the table.
RoomsOK ==
    /\ \A p, r \in Peer : peerRoom[p] = r => Created(r)
    /\ \A r \in Peer : expired[r] => Created(r) /\ \A c \in Code : rooms[c] # r

\* What the channels and the history of what is owed look like.
SendTyped ==
    /\ send \in [Peer -> Seq(Message)] /\ \A p \in Peer : Len(send[p]) <= SendBuffer
    /\ closer \in [Peer -> {"none", "pending", "done"}]
    /\ owed \in [Peer -> Seq(Message)]

\* Without a channel there is nothing in it.
NoChannelNoMessage ==
    \A p \in Peer : writer[p] = "none" => send[p] = <<>> /\ owed[p] = <<>>

IInv ==
    /\ TypeOK /\ HandlersOK /\ RoomsOK /\ NoChannelNoMessage
    /\ PeersKnowTheirRoom /\ NoEmptyRoomInTable /\ LiveRoomReachable
    /\ ConnectionsCounted /\ NothingOwedIsLost

-----------------------------------------------------------------------------
(* What is sent. *)

\* Posting keeps the channels within their capacity.
LEMMA PostTypes ==
    ASSUME TypeOK, NEW outbox, NEW dismissed, Post(outbox, dismissed),
           \A p \in DOMAIN outbox : outbox[p] \in Message
    PROVE  /\ send' \in [Peer -> Seq(Message)] /\ \A p \in Peer : Len(send'[p]) <= SendBuffer
           /\ closer' \in [Peer -> {"none", "pending", "done"}]
<1> DEFINE live == {p \in DOMAIN outbox : ~ closed[p]}
<1>1. /\ send' = [p \in Peer |-> IF p \in live /\ ~ Full(p) THEN Append(send[p], outbox[p])
                                 ELSE send[p]]
      /\ closer' = [p \in Peer |->
            IF closer[p] = "none" /\ p \in dismissed \cup {q \in live : Full(q)}
            THEN "pending" ELSE closer[p]]
  BY DEF Post
<1>2. ASSUME NEW p \in Peer
      PROVE  /\ send'[p] \in Seq(Message) /\ Len(send'[p]) <= SendBuffer
             /\ closer'[p] \in {"none", "pending", "done"}
  <2>1. send[p] \in Seq(Message) /\ Len(send[p]) <= SendBuffer
        /\ closer[p] \in {"none", "pending", "done"}
    BY DEF TypeOK
  <2>2. closer'[p] \in {"none", "pending", "done"}
    BY <1>1, <2>1
  <2>3. CASE p \in live /\ ~ Full(p)
    <3>1. send'[p] = Append(send[p], outbox[p]) /\ outbox[p] \in Message
      BY <1>1, <2>3
    <3>2. ~ (Len(send[p]) >= SendBuffer)
      BY <2>3 DEF Full
    <3> HIDE DEF live
    <3> QED BY <2>1, <2>2, <3>1, <3>2, RelayAssumption
  <2>4. CASE ~ (p \in live /\ ~ Full(p))
    BY <1>1, <2>1, <2>2, <2>4
  <2> QED BY <2>3, <2>4
<1>3. send' = [p \in Peer |-> send'[p]] /\ closer' = [p \in Peer |-> closer'[p]]
  BY <1>1
<1> QED BY <1>2, <1>3

LEMMA OwesTypes ==
    ASSUME TypeOK, NEW due, Owes(due), \A p \in DOMAIN due : due[p] \in Message
    PROVE  owed' \in [Peer -> Seq(Message)]
<1>1. owed' = [p \in Peer |-> IF closer'[p] # "none" THEN <<>>
                              ELSE IF p \in DOMAIN due /\ Attends(p) THEN Append(owed[p], due[p])
                              ELSE owed[p]]
  BY DEF Owes
<1>2. ASSUME NEW p \in Peer PROVE owed'[p] \in Seq(Message)
  <2>1. owed[p] \in Seq(Message)
    BY DEF TypeOK
  <2>2. CASE p \in DOMAIN due /\ Attends(p)
    <3>1. Append(owed[p], due[p]) \in Seq(Message)
      BY <2>1, <2>2
    <3> QED BY <1>1, <3>1
  <2>3. CASE ~ (p \in DOMAIN due /\ Attends(p))
    BY <1>1, <2>1, <2>3
  <2> QED BY <2>2, <2>3
<1> QED BY <1>1, <1>2

\* What is posted to those that attend, and owed to them, stays the same.
LEMMA PostOwes ==
    ASSUME TypeOK, NothingOwedIsLost, NEW outbox, NEW due, NEW dismissed,
           Post(outbox, dismissed), Owes(due), UNCHANGED <<closed, writer>>,
           \A p \in Peer \ dismissed : p \in DOMAIN outbox <=> p \in DOMAIN due,
           \A p \in DOMAIN due : p \in DOMAIN outbox => outbox[p] = due[p]
    PROVE  NothingOwedIsLost'
<1> SUFFICES ASSUME NEW p \in Peer, Attends(p)' PROVE send'[p] = owed'[p]
  BY DEF NothingOwedIsLost
<1> DEFINE live == {q \in DOMAIN outbox : ~ closed[q]}
<1>1. /\ send' = [q \in Peer |-> IF q \in live /\ ~ Full(q) THEN Append(send[q], outbox[q])
                                 ELSE send[q]]
      /\ closer' = [q \in Peer |->
            IF closer[q] = "none" /\ q \in dismissed \cup {x \in live : Full(x)}
            THEN "pending" ELSE closer[q]]
  BY DEF Post
<1>2. closer'[p] = "none" /\ ~ closed[p] /\ writer[p] = "running"
  BY DEF Attends
<1>3. closer[p] = "none" /\ p \notin dismissed /\ ~ (p \in live /\ Full(p))
  BY <1>1, <1>2
<1>4. Attends(p)
  BY <1>2, <1>3 DEF Attends
<1>5. send[p] = owed[p]
  BY <1>4 DEF NothingOwedIsLost
<1>6. owed'[p] = IF p \in DOMAIN due THEN Append(owed[p], due[p]) ELSE owed[p]
  BY <1>2, <1>4 DEF Owes
<1>7. send'[p] = IF p \in DOMAIN outbox THEN Append(send[p], outbox[p]) ELSE send[p]
  BY <1>1, <1>2, <1>3
<1>8. p \in DOMAIN outbox <=> p \in DOMAIN due
  BY <1>3
<1> QED BY <1>5, <1>6, <1>7, <1>8

\* Nothing is posted to, or owed to, a peer that has no channel.
LEMMA PostSpares ==
    ASSUME TypeOK, NEW outbox, NEW due, NEW dismissed, NEW p \in Peer,
           Post(outbox, dismissed), Owes(due), p \notin DOMAIN outbox, p \notin DOMAIN due,
           send[p] = <<>>, owed[p] = <<>>
    PROVE  send'[p] = <<>> /\ owed'[p] = <<>>
BY DEF Post, Owes

\* Everything the other parts of the invariant need of a step that sends.
LEMMA Sends ==
    ASSUME TypeOK, NothingOwedIsLost, NoChannelNoMessage,
           NEW outbox, NEW due, NEW dismissed,
           Post(outbox, dismissed), Owes(due), UNCHANGED <<closed, writer>>,
           \A p \in Peer \ dismissed : p \in DOMAIN outbox <=> p \in DOMAIN due,
           \A p \in DOMAIN due : p \in DOMAIN outbox /\ outbox[p] = due[p],
           \A p \in DOMAIN outbox :
               p \in Peer /\ writer[p] # "none" /\ outbox[p] \in Message
    PROVE  SendTyped' /\ NothingOwedIsLost' /\ NoChannelNoMessage'
<1>1. /\ send' \in [Peer -> Seq(Message)] /\ \A p \in Peer : Len(send'[p]) <= SendBuffer
      /\ closer' \in [Peer -> {"none", "pending", "done"}]
  BY PostTypes
<1>2. owed' \in [Peer -> Seq(Message)]
  BY OwesTypes
<1>3. NothingOwedIsLost'
  BY PostOwes
<1>4. ASSUME NEW p \in Peer, writer[p] = "none"
      PROVE  send'[p] = <<>> /\ owed'[p] = <<>>
  <2>1. p \notin DOMAIN outbox /\ p \notin DOMAIN due
    BY <1>4
  <2>2. send[p] = <<>> /\ owed[p] = <<>>
    BY <1>4 DEF NoChannelNoMessage
  <2> QED BY <2>1, <2>2, PostSpares
<1>5. NoChannelNoMessage'
  BY <1>4 DEF NoChannelNoMessage
<1> QED BY <1>1, <1>2, <1>3, <1>5 DEF SendTyped

-----------------------------------------------------------------------------
(* Who is in a room. *)

LEMMA Members ==
    ASSUME TypeOK, PeersKnowTheirRoom, NEW r \in Peer
    PROVE  MembersOf(r) = {q \in Peer : peerRoom[q] = r}
<1>1. ASSUME NEW q \in MembersOf(r) PROVE q \in Peer /\ peerRoom[q] = r
  <2>1. PICK i \in Id : members[r][i] = q
    BY DEF MembersOf
  <2>2. q \in Peer
    BY <2>1 DEF MembersOf, TypeOK
  <2> QED BY <2>1, <2>2 DEF PeersKnowTheirRoom
<1>2. ASSUME NEW q \in Peer, peerRoom[q] = r PROVE q \in MembersOf(r)
  <2>1. members[r][peerId[q]] = q /\ peerId[q] \in Id
    BY <1>2 DEF PeersKnowTheirRoom, TypeOK
  <2>2. q # NoPeer
    BY RelayAssumption
  <2> QED BY <2>1, <2>2 DEF MembersOf
<1> QED BY <1>1, <1>2

LEMMA Others ==
    ASSUME TypeOK, PeersKnowTheirRoom, NEW r \in Peer, NEW p \in Peer
    PROVE  MembersOf(r) \ {p} = Roommates(p, r)
BY Members DEF Roommates

\* Who is in a room has a channel.
LEMMA MembersHaveChannels ==
    ASSUME TypeOK, HandlersOK, PeersKnowTheirRoom, NEW r \in Peer, NEW q \in MembersOf(r)
    PROVE  q \in Peer /\ writer[q] # "none"
<1>1. q \in Peer /\ peerRoom[q] = r /\ r # NoPeer
  BY Members, RelayAssumption
<1> QED BY <1>1 DEF HandlersOK

\* A peer that is in no room and still reads has not created one.
LEMMA Unborn ==
    ASSUME IInv, NEW p \in Peer, handler[p] = "reading", peerRoom[p] = NoPeer
    PROVE  /\ \A q \in Peer : peerRoom[q] # p
           /\ ~ expired[p]
           /\ \A i \in Id : members[p][i] = NoPeer
           /\ \A c \in Code : rooms[c] # p
<1>1. ~ Created(p)
  BY RelayAssumption DEF Created
<1>2. (\A q \in Peer : peerRoom[q] # p) /\ ~ expired[p]
  BY <1>1 DEF IInv, RoomsOK
<1>3. MembersOf(p) = {}
  BY <1>2, Members DEF IInv
<1>4. \A i \in Id : members[p][i] = NoPeer
  BY <1>3 DEF MembersOf
<1>5. \A c \in Code : rooms[c] # p
  BY <1>3, RelayAssumption DEF IInv, NoEmptyRoomInTable
<1> QED BY <1>2, <1>4, <1>5

\* A room in the table was created.
LEMMA TabledCreated ==
    ASSUME IInv, NEW c \in Code, rooms[c] # NoPeer
    PROVE  rooms[c] \in Peer /\ Created(rooms[c]) /\ code[rooms[c]] = c
<1>1. rooms[c] \in Peer
  BY DEF IInv, TypeOK
<1>2. code[rooms[c]] = c /\ MembersOf(rooms[c]) # {}
  BY DEF IInv, NoEmptyRoomInTable
<1>3. PICK q \in Peer : peerRoom[q] = rooms[c]
  BY <1>1, <1>2, Members DEF IInv
<1> QED BY <1>1, <1>2, <1>3 DEF IInv, RoomsOK

\* A reply reaches its peer, and a note the others in the room.
LEMMA ReplySends ==
    ASSUME IInv, NEW p \in Peer, handler[p] = "reading",
           NEW type \in {"REPLY", "ROOM_CREATED"}, Reply(p, type), UNCHANGED <<closed, writer>>
    PROVE  SendTyped' /\ NothingOwedIsLost' /\ NoChannelNoMessage'
<1> DEFINE out == [q \in {p} |-> Note(type, p)]
<1>1. Post(out, {}) /\ Owes(out)
  BY DEF Reply
<1>2. DOMAIN out = {p} /\ out[p] = Note(type, p)
  OBVIOUS
<1>3. Note(type, p) \in Message
  BY DEF Note, Message
<1>4. writer[p] # "none"
  BY DEF IInv, HandlersOK
<1>5. \A q \in DOMAIN out : q \in Peer /\ writer[q] # "none" /\ out[q] \in Message
  BY <1>2, <1>3, <1>4
<1> HIDE DEF out
<1> QED BY <1>1, <1>5, Sends DEF IInv

LEMMA NotifySends ==
    ASSUME IInv, NEW p \in Peer, NEW r \in Peer, NEW note \in Message, Notify(p, r, note),
           UNCHANGED <<closed, writer>>
    PROVE  SendTyped' /\ NothingOwedIsLost' /\ NoChannelNoMessage'
<1> DEFINE out == [q \in Roommates(p, r) |-> note]
<1>1. Post(out, {}) /\ Owes(out)
  BY Others DEF Notify, IInv
<1>2. \A q \in DOMAIN out : out[q] = note /\ q \in MembersOf(r)
  BY Others DEF IInv
<1>3. \A q \in DOMAIN out : q \in Peer /\ writer[q] # "none" /\ out[q] \in Message
  BY <1>2, MembersHaveChannels DEF IInv
<1> HIDE DEF out
<1> QED BY <1>1, <1>3, Sends DEF IInv

-----------------------------------------------------------------------------
(* The connections. *)

There == {p \in Peer : handler[p] \notin {"absent", "gone"}}

LEMMA OneMore ==
    ASSUME IInv, NEW p \in Peer, p \notin There, There' = There \cup {p},
           connections' = connections + 1
    PROVE  ConnectionsCounted'
<1>1. IsFiniteSet(There)
  BY RelayAssumption, FS_Subset DEF There
<1>2. Cardinality(There \cup {p}) = Cardinality(There) + 1
  BY <1>1, FS_AddElement
<1>3. connections = Cardinality(There)
  BY DEF IInv, ConnectionsCounted, There
<1> QED BY <1>2, <1>3 DEF ConnectionsCounted, There

LEMMA OneLess ==
    ASSUME IInv, NEW p \in There, There' = There \ {p}, connections' = Uncounted
    PROVE  ConnectionsCounted' /\ connections' \in 0..MaxConnections
<1>1. IsFiniteSet(There)
  BY RelayAssumption, FS_Subset DEF There
<1>2. Cardinality(There \ {p}) = Cardinality(There) - 1
  BY <1>1, FS_RemoveElement
<1>3. connections = Cardinality(There) /\ connections \in 0..MaxConnections
  BY DEF IInv, ConnectionsCounted, There, TypeOK
<1>4. Cardinality(There) # 0
  BY <1>1, FS_EmptySet
<1>5. connections' = connections - 1 /\ connections' \in 0..MaxConnections
  BY <1>3, <1>4, RelayAssumption DEF Uncounted
<1>6. connections' = Cardinality(There')
  BY <1>2, <1>3, <1>5
<1> QED BY <1>5, <1>6 DEF ConnectionsCounted, There

\* A step that moves no handler keeps the count.
LEMMA NoneMoves ==
    ASSUME ConnectionsCounted, UNCHANGED <<connections, handler>>
    PROVE  ConnectionsCounted'
BY DEF ConnectionsCounted

LEMMA ConnectsSafe ==
    ASSUME IInv, NEW p \in Peer, Connects(p)
    PROVE  IInv'
<1> USE DEF Connects, roomVars, peerVars, sendVars, socketVars
<1>1. TypeOK'
  <2>1. connections' \in 0..MaxConnections
    BY RelayAssumption DEF IInv, TypeOK
  <2> QED BY <2>1 DEF IInv, TypeOK
<1>2. HandlersOK'
  BY DEF IInv, HandlersOK, TypeOK
<1>3. RoomsOK'
  BY DEF IInv, RoomsOK, Created, TypeOK
<1>4. PeersKnowTheirRoom' /\ NoEmptyRoomInTable' /\ LiveRoomReachable'
  BY DEF IInv, PeersKnowTheirRoom, NoEmptyRoomInTable, LiveRoomReachable, MembersOf
<1>5. NothingOwedIsLost' /\ NoChannelNoMessage'
  BY DEF IInv, NothingOwedIsLost, NoChannelNoMessage, Attends
<1>6. ConnectionsCounted'
  <2>1. p \notin There /\ There' = There \cup {p}
    BY DEF There, IInv, TypeOK
  <2> QED BY <2>1, OneMore
<1> QED BY <1>1, <1>2, <1>3, <1>4, <1>5, <1>6 DEF IInv

LEMMA AcceptsSafe ==
    ASSUME IInv, NEW p \in Peer, Accepts(p)
    PROVE  IInv'
<1> USE DEF Accepts, roomVars, peerVars, sendVars
<1>1. TypeOK'
  BY DEF IInv, TypeOK
<1>2. HandlersOK'
  BY DEF IInv, HandlersOK, TypeOK
<1>3. RoomsOK'
  BY DEF IInv, RoomsOK, Created, TypeOK
<1>4. PeersKnowTheirRoom' /\ NoEmptyRoomInTable' /\ LiveRoomReachable'
  BY DEF IInv, PeersKnowTheirRoom, NoEmptyRoomInTable, LiveRoomReachable, MembersOf
<1>5. send[p] = <<>> /\ owed[p] = <<>>
  BY DEF IInv, HandlersOK, NoChannelNoMessage
<1>6. NothingOwedIsLost' /\ NoChannelNoMessage'
  BY <1>5 DEF IInv, NothingOwedIsLost, NoChannelNoMessage, Attends, TypeOK
<1>7. There' = There
  BY DEF There, IInv, TypeOK
<1>8. ConnectionsCounted'
  BY <1>7 DEF IInv, ConnectionsCounted, There
<1> QED BY <1>1, <1>2, <1>3, <1>4, <1>6, <1>8 DEF IInv

LEMMA AcceptFailsSafe ==
    ASSUME IInv, NEW p \in Peer, AcceptFails(p)
    PROVE  IInv'
<1> USE DEF AcceptFails, roomVars, peerVars, sendVars, socketVars
<1>1. There' = There \ {p} /\ p \in There
  BY DEF There, IInv, TypeOK
<1>2. ConnectionsCounted' /\ connections' \in 0..MaxConnections
  BY <1>1, OneLess
<1>3. TypeOK'
  BY <1>2 DEF IInv, TypeOK
<1>4. HandlersOK'
  BY DEF IInv, HandlersOK, TypeOK
<1>5. RoomsOK'
  BY DEF IInv, RoomsOK, Created, TypeOK
<1>6. PeersKnowTheirRoom' /\ NoEmptyRoomInTable' /\ LiveRoomReachable'
  BY DEF IInv, PeersKnowTheirRoom, NoEmptyRoomInTable, LiveRoomReachable, MembersOf
<1>7. NothingOwedIsLost' /\ NoChannelNoMessage'
  BY DEF IInv, NothingOwedIsLost, NoChannelNoMessage, Attends
<1> QED BY <1>2, <1>3, <1>4, <1>5, <1>6, <1>7 DEF IInv

LEMMA HandlerEndsSafe ==
    ASSUME IInv, NEW p \in Peer, HandlerEnds(p)
    PROVE  IInv'
<1> USE DEF HandlerEnds, roomVars, peerVars, sendVars, socketVars
<1>1. There' = There \ {p} /\ p \in There
  BY DEF There, IInv, TypeOK
<1>2. ConnectionsCounted' /\ connections' \in 0..MaxConnections
  BY <1>1, OneLess
<1>3. TypeOK'
  BY <1>2 DEF IInv, TypeOK
<1>4. HandlersOK'
  BY DEF IInv, HandlersOK, TypeOK
<1>5. RoomsOK'
  BY DEF IInv, RoomsOK, Created, TypeOK
<1>6. PeersKnowTheirRoom' /\ NoEmptyRoomInTable' /\ LiveRoomReachable'
  BY DEF IInv, PeersKnowTheirRoom, NoEmptyRoomInTable, LiveRoomReachable, MembersOf
<1>7. NothingOwedIsLost' /\ NoChannelNoMessage'
  BY DEF IInv, NothingOwedIsLost, NoChannelNoMessage, Attends, TypeOK
<1> QED BY <1>2, <1>3, <1>4, <1>5, <1>6, <1>7 DEF IInv

\* A step of one handler that touches neither rooms nor channels.
LEMMA MovesSafe ==
    ASSUME IInv, NEW p \in Peer, ReadReturns(p) \/ RemovesNothing(p)
    PROVE  IInv'
<1> USE DEF ReadReturns, RemovesNothing, roomVars, peerVars, sendVars, socketVars
<1>1. TypeOK'
  BY DEF IInv, TypeOK
<1>2. HandlersOK'
  BY DEF IInv, HandlersOK, TypeOK
<1>3. RoomsOK'
  <2>1. \A r \in Peer : Created(r) => Created(r)'
    BY DEF Created, IInv, TypeOK
  <2> QED BY <2>1 DEF IInv, RoomsOK
<1>4. PeersKnowTheirRoom' /\ NoEmptyRoomInTable' /\ LiveRoomReachable'
  BY DEF IInv, PeersKnowTheirRoom, NoEmptyRoomInTable, LiveRoomReachable, MembersOf
<1>5. NothingOwedIsLost' /\ NoChannelNoMessage'
  BY DEF IInv, NothingOwedIsLost, NoChannelNoMessage, Attends
<1>6. There' = There
  BY DEF There, IInv, TypeOK
<1>7. ConnectionsCounted'
  BY <1>6 DEF IInv, ConnectionsCounted, There
<1> QED BY <1>1, <1>2, <1>3, <1>4, <1>5, <1>7 DEF IInv

-----------------------------------------------------------------------------
(* Writing, closing and the clock. *)

LEMMA WriterSafe ==
    ASSUME IInv, NEW p \in Peer, Writer(p)
    PROVE  IInv'
<1>1. /\ UNCHANGED writeRest
      /\ writer' \in [Peer -> {"none", "running", "done"}]
      /\ \A q \in Peer : writer'[q] = "none" <=> writer[q] = "none"
      /\ faults' \in Nat
  BY DEF Writer, WriteSucceeds, WriteFails, WriteEnds, IInv, TypeOK
<1>2. SendTyped' /\ NothingOwedIsLost' /\ NoChannelNoMessage'
  <2>1. /\ send \in [Peer -> Seq(Message)] /\ \A q \in Peer : Len(send[q]) <= SendBuffer
        /\ owed \in [Peer -> Seq(Message)] /\ closer' \in [Peer -> {"none", "pending", "done"}]
        /\ send[p] \in Seq(Message) /\ owed[p] \in Seq(Message)
    BY <1>1 DEF IInv, TypeOK, writeRest
  <2>2. CASE WriteSucceeds(p)
    <3>1. /\ send' = [send EXCEPT ![p] = Tail(@)] /\ send[p] # <<>>
          /\ owed' = [owed EXCEPT ![p] = IF @ = <<>> THEN @ ELSE Tail(@)]
          /\ UNCHANGED writer /\ writer[p] = "running"
      BY <2>2 DEF WriteSucceeds
    <3>2. Tail(send[p]) \in Seq(Message) /\ Len(Tail(send[p])) <= SendBuffer
      <4>1. Len(send[p]) <= SendBuffer /\ send[p] # <<>>
        BY <2>1, <3>1
      <4> QED BY <2>1, <4>1, RelayAssumption
    <3>3. SendTyped'
      <4>1. owed' \in [Peer -> Seq(Message)]
        BY <2>1, <3>1
      <4>2. send' \in [Peer -> Seq(Message)] /\ \A q \in Peer : Len(send'[q]) <= SendBuffer
        BY <2>1, <3>1, <3>2
      <4> QED BY <2>1, <4>1, <4>2 DEF SendTyped
    <3>4. NothingOwedIsLost'
      BY <1>1, <2>1, <3>1 DEF IInv, NothingOwedIsLost, Attends, writeRest
    <3>5. NoChannelNoMessage'
      BY <2>1, <3>1 DEF IInv, NoChannelNoMessage
    <3> QED BY <3>3, <3>4, <3>5
  <2>3. CASE WriteFails(p)
    <3>1. /\ send' = [send EXCEPT ![p] = Tail(@)] /\ send[p] # <<>>
          /\ owed' = [owed EXCEPT ![p] = <<>>]
          /\ writer' = [writer EXCEPT ![p] = "done"] /\ writer[p] = "running"
      BY <2>3 DEF WriteFails
    <3>2. Tail(send[p]) \in Seq(Message) /\ Len(Tail(send[p])) <= SendBuffer
      <4>1. Len(send[p]) <= SendBuffer /\ send[p] # <<>>
        BY <2>1, <3>1
      <4> QED BY <2>1, <4>1, RelayAssumption
    <3>3. SendTyped'
      <4>1. owed' \in [Peer -> Seq(Message)]
        BY <2>1, <3>1
      <4>2. send' \in [Peer -> Seq(Message)] /\ \A q \in Peer : Len(send'[q]) <= SendBuffer
        BY <2>1, <3>1, <3>2
      <4> QED BY <2>1, <4>1, <4>2 DEF SendTyped
    <3>4. NothingOwedIsLost'
      BY <1>1, <2>1, <3>1 DEF IInv, NothingOwedIsLost, Attends, writeRest, TypeOK
    <3>5. NoChannelNoMessage'
      BY <2>1, <3>1 DEF IInv, NoChannelNoMessage, TypeOK
    <3> QED BY <3>3, <3>4, <3>5
  <2>4. CASE WriteEnds(p)
    BY <1>1, <2>1, <2>4 DEF WriteEnds, SendTyped, IInv, NothingOwedIsLost, NoChannelNoMessage,
                            Attends, writeRest, TypeOK
  <2> QED BY <2>2, <2>3, <2>4 DEF Writer
<1> USE DEF writeRest, roomVars, peerVars
<1>3. TypeOK'
  BY <1>1, <1>2 DEF IInv, TypeOK, SendTyped
<1>4. HandlersOK'
  BY <1>1 DEF IInv, HandlersOK
<1>5. RoomsOK'
  BY <1>1 DEF IInv, RoomsOK, Created
<1>6. PeersKnowTheirRoom' /\ NoEmptyRoomInTable' /\ LiveRoomReachable'
  BY <1>1 DEF IInv, PeersKnowTheirRoom, NoEmptyRoomInTable, LiveRoomReachable, MembersOf
<1>7. ConnectionsCounted'
  BY <1>1, NoneMoves DEF IInv
<1> QED BY <1>2, <1>3, <1>4, <1>5, <1>6, <1>7 DEF IInv

LEMMA ClosesSafe ==
    ASSUME IInv, NEW p \in Peer, Closes(p)
    PROVE  IInv'
<1> USE DEF Closes, closeRest, roomVars, peerVars
<1>1. TypeOK'
  BY DEF IInv, TypeOK
<1>2. HandlersOK'
  BY DEF IInv, HandlersOK
<1>3. RoomsOK'
  BY DEF IInv, RoomsOK, Created
<1>4. PeersKnowTheirRoom' /\ NoEmptyRoomInTable' /\ LiveRoomReachable'
  BY DEF IInv, PeersKnowTheirRoom, NoEmptyRoomInTable, LiveRoomReachable, MembersOf
<1>5. NothingOwedIsLost' /\ NoChannelNoMessage'
  BY DEF IInv, NothingOwedIsLost, NoChannelNoMessage, Attends, TypeOK
<1>6. ConnectionsCounted'
  BY NoneMoves DEF IInv
<1> QED BY <1>1, <1>2, <1>3, <1>4, <1>5, <1>6 DEF IInv

LEMMA GrowsStaleSafe ==
    ASSUME IInv, NEW r \in Peer, GrowsStale(r)
    PROVE  IInv'
<1> USE DEF GrowsStale, peerVars, sendVars, socketVars
<1>1. TypeOK'
  BY DEF IInv, TypeOK
<1>2. HandlersOK'
  BY DEF IInv, HandlersOK
<1>3. RoomsOK'
  BY DEF IInv, RoomsOK, Created
<1>4. PeersKnowTheirRoom' /\ NoEmptyRoomInTable' /\ LiveRoomReachable'
  BY DEF IInv, PeersKnowTheirRoom, NoEmptyRoomInTable, LiveRoomReachable, MembersOf
<1>5. NothingOwedIsLost' /\ NoChannelNoMessage'
  BY DEF IInv, NothingOwedIsLost, NoChannelNoMessage, Attends
<1>6. ConnectionsCounted'
  BY NoneMoves DEF IInv
<1> QED BY <1>1, <1>2, <1>3, <1>4, <1>5, <1>6 DEF IInv

-----------------------------------------------------------------------------
(* The table of rooms. *)

LEMMA ReadRepliesSafe ==
    ASSUME IInv, NEW p \in Peer, ReadReplies(p)
    PROVE  IInv'
<1>1. SendTyped' /\ NothingOwedIsLost' /\ NoChannelNoMessage'
  BY ReplySends DEF ReadReplies, Reads, readRest, socketVars
<1>2. /\ UNCHANGED <<readRest, roomVars, peerVars>> /\ requests' = requests + 1
  BY DEF ReadReplies, Reads
<1> USE DEF readRest, roomVars, peerVars, socketVars
<1>3. TypeOK'
  BY <1>1, <1>2 DEF IInv, TypeOK, SendTyped
<1>4. HandlersOK'
  BY <1>2 DEF IInv, HandlersOK
<1>5. RoomsOK'
  BY <1>2 DEF IInv, RoomsOK, Created
<1>6. PeersKnowTheirRoom' /\ NoEmptyRoomInTable' /\ LiveRoomReachable'
  BY <1>2 DEF IInv, PeersKnowTheirRoom, NoEmptyRoomInTable, LiveRoomReachable, MembersOf
<1>7. ConnectionsCounted'
  BY <1>2, NoneMoves DEF IInv
<1> QED BY <1>1, <1>3, <1>4, <1>5, <1>6, <1>7 DEF IInv

LEMMA RelaysSafe ==
    ASSUME IInv, NEW p \in Peer, Relays(p)
    PROVE  IInv'
<1> DEFINE r == peerRoom[p]
<1>1. r \in Peer
  BY DEF Relays, IInv, TypeOK
<1>2. SendTyped' /\ NothingOwedIsLost' /\ NoChannelNoMessage'
  <2>1. Note("RELAY", p) \in Message
    BY DEF Note, Message
  <2> QED BY <1>1, <2>1, NotifySends DEF Relays, readRest, socketVars
<1>3. /\ UNCHANGED <<readRest, rooms, code, members, expired, peerVars>>
      /\ requests' = requests + 1 /\ stale' = [stale EXCEPT ![r] = FALSE]
  BY DEF Relays, Reads
<1> HIDE DEF r
<1> USE DEF readRest, peerVars, socketVars
<1>4. TypeOK'
  BY <1>1, <1>2, <1>3 DEF IInv, TypeOK, SendTyped
<1>5. HandlersOK'
  BY <1>3 DEF IInv, HandlersOK
<1>6. RoomsOK'
  BY <1>3 DEF IInv, RoomsOK, Created
<1>7. PeersKnowTheirRoom' /\ NoEmptyRoomInTable' /\ LiveRoomReachable'
  BY <1>3 DEF IInv, PeersKnowTheirRoom, NoEmptyRoomInTable, LiveRoomReachable, MembersOf
<1>8. ConnectionsCounted'
  BY <1>3, NoneMoves DEF IInv
<1> QED BY <1>2, <1>4, <1>5, <1>6, <1>7, <1>8 DEF IInv

LEMMA CreatesSafe ==
    ASSUME IInv, NEW p \in Peer, Creates(p)
    PROVE  IInv'
<1>1. SendTyped' /\ NothingOwedIsLost' /\ NoChannelNoMessage'
  BY ReplySends DEF Creates, Reads, readRest, socketVars
<1>2. PICK c \in Code : rooms[c] = NoPeer /\ rooms' = [rooms EXCEPT ![c] = p]
                        /\ code' = [code EXCEPT ![p] = c]
  BY DEF Creates
<1>3. /\ UNCHANGED <<readRest, expired>> /\ requests' = requests + 1
      /\ members' = [members EXCEPT ![p]["A"] = p] /\ stale' = [stale EXCEPT ![p] = FALSE]
      /\ peerId' = [peerId EXCEPT ![p] = "A"] /\ peerRoom' = [peerRoom EXCEPT ![p] = p]
  BY DEF Creates, Reads
<1>4. handler[p] = "reading" /\ peerRoom[p] = NoPeer /\ p # NoPeer
  BY RelayAssumption DEF Creates, Reads
<1>5. /\ \A q \in Peer : peerRoom[q] # p
      /\ ~ expired[p]
      /\ \A i \in Id : members[p][i] = NoPeer
      /\ \A d \in Code : rooms[d] # p
  BY <1>4, Unborn
<1>t. TypeOK
  BY DEF IInv
<1>b. "A" \in Id
  BY DEF Id
<1> USE DEF readRest, socketVars
<1>6. TypeOK'
  <2>1. members' \in [Peer -> [Id -> Peer \cup {NoPeer}]]
    BY <1>3, <1>t, <1>b DEF TypeOK
  <2>2. rooms' \in [Code -> Peer \cup {NoPeer}] /\ code' \in [Peer -> Code]
    BY <1>2, <1>t DEF TypeOK
  <2>3. stale' \in [Peer -> BOOLEAN] /\ peerId' \in [Peer -> Id]
        /\ peerRoom' \in [Peer -> Peer \cup {NoPeer}] /\ requests' \in Nat
    BY <1>3, <1>t, <1>b DEF TypeOK
  <2> QED BY <1>1, <1>3, <1>t, <2>1, <2>2, <2>3 DEF TypeOK, SendTyped
<1>7. HandlersOK'
  BY <1>3, <1>4, <1>t DEF IInv, HandlersOK, TypeOK
<1>8. RoomsOK'
  <2>1. \A r \in Peer : Created(r) => Created(r)'
    BY <1>3, <1>5, <1>t DEF Created, TypeOK
  <2>2. Created(p)'
    BY <1>3, <1>t DEF Created, TypeOK
  <2>3. \A q, r \in Peer : peerRoom'[q] = r => Created(r)'
    BY <1>3, <1>t, <2>1, <2>2 DEF IInv, RoomsOK, TypeOK
  <2>4. \A r \in Peer : expired'[r] => Created(r)' /\ \A d \in Code : rooms'[d] # r
    BY <1>2, <1>3, <1>5, <1>t, <2>1 DEF IInv, RoomsOK, TypeOK
  <2> QED BY <2>3, <2>4 DEF RoomsOK
<1>9. PeersKnowTheirRoom'
  <2>1. \A r \in Peer, i \in Id : members'[r][i] =
                    IF r = p /\ i = "A" THEN p ELSE members[r][i]
    BY <1>3, <1>t DEF TypeOK
  <2>2. \A q \in Peer : /\ peerRoom'[q] = IF q = p THEN p ELSE peerRoom[q]
                        /\ peerId'[q] = IF q = p THEN "A" ELSE peerId[q]
    BY <1>3, <1>t DEF TypeOK
  <2>3. ASSUME NEW q \in Peer, NEW r \in Peer, peerRoom'[q] = r
        PROVE  members'[r][peerId'[q]] = q
    <3>1. peerId[q] \in Id
      BY <1>t DEF TypeOK
    <3> QED BY <1>5, <1>b, <2>1, <2>2, <2>3, <3>1 DEF IInv, PeersKnowTheirRoom
  <2>4. ASSUME NEW q \in Peer, NEW r \in Peer, NEW i \in Id, members'[r][i] = q
        PROVE  peerRoom'[q] = r /\ peerId'[q] = i
    <3>1. CASE r = p /\ i = "A"
      BY <2>1, <2>2, <2>4, <3>1
    <3>2. CASE ~ (r = p /\ i = "A")
      <4>1. members[r][i] = q
        BY <2>1, <2>4, <3>2
      <4>2. peerRoom[q] = r /\ peerId[q] = i
        BY <4>1 DEF IInv, PeersKnowTheirRoom
      <4>3. q # p
        BY <1>4, <4>2, RelayAssumption
      <4> QED BY <2>2, <4>2, <4>3
    <3> QED BY <3>1, <3>2
  <2> QED BY <2>3, <2>4 DEF PeersKnowTheirRoom
<1>10. NoEmptyRoomInTable'
  <2> SUFFICES ASSUME NEW d \in Code, rooms'[d] # NoPeer
               PROVE  MembersOf(rooms[d])' # {} /\ code'[rooms'[d]] = d
    BY DEF NoEmptyRoomInTable
  <2>1. CASE d = c
    <3>1. rooms'[d] = p /\ code'[p] = d /\ members'[p]["A"] = p
      BY <1>2, <1>3, <1>b, <1>t, <2>1 DEF TypeOK
    <3> QED BY <1>4, <1>b, <3>1 DEF MembersOf
  <2>2. CASE d # c
    <3>1. rooms'[d] = rooms[d] /\ rooms[d] # NoPeer /\ rooms[d] # p /\ rooms[d] \in Peer
      BY <1>2, <1>5, <1>t, <2>2 DEF TypeOK
    <3>2. code'[rooms[d]] = code[rooms[d]] /\ members'[rooms[d]] = members[rooms[d]]
      BY <1>2, <1>3, <1>t, <3>1 DEF TypeOK
    <3>3. MembersOf(rooms[d]) # {} /\ code[rooms[d]] = d
      BY <3>1 DEF IInv, NoEmptyRoomInTable
    <3> QED BY <3>1, <3>2, <3>3 DEF MembersOf
  <2> QED BY <2>1, <2>2
<1>11. LiveRoomReachable'
  <2> SUFFICES ASSUME NEW q \in Peer, NEW r, r = peerRoom'[q], r # NoPeer
               PROVE  \/ rooms'[code'[r]] = r \/ expired'[r]
                      \/ \E old \in Peer \ {r} : code'[old] = code'[r] /\ expired'[old]
    BY DEF LiveRoomReachable
  <2>1. CASE r = p
    BY <1>2, <1>t, <2>1 DEF TypeOK
  <2>2. CASE r # p
    <3>1. r = peerRoom[q] /\ r \in Peer /\ code'[r] = code[r] /\ code[r] \in Code
      BY <1>2, <1>3, <1>t, <2>2 DEF TypeOK
    <3>2. \/ rooms[code[r]] = r \/ expired[r]
          \/ \E old \in Peer \ {r} : code[old] = code[r] /\ expired[old]
      BY <3>1 DEF IInv, LiveRoomReachable
    <3>3. rooms[code[r]] = r => rooms'[code[r]] = r
      BY <1>2, <1>t, <3>1 DEF TypeOK
    <3>4. \A old \in Peer : expired[old] => code'[old] = code[old] /\ expired'[old]
      BY <1>2, <1>3, <1>5, <1>t DEF TypeOK
    <3> QED BY <1>3, <3>1, <3>2, <3>3, <3>4
  <2> QED BY <2>1, <2>2
<1>12. ConnectionsCounted'
  BY <1>3, NoneMoves DEF IInv
<1> QED BY <1>1, <1>6, <1>7, <1>8, <1>9, <1>10, <1>11, <1>12 DEF IInv

LEMMA JoinsStaleSafe ==
    ASSUME IInv, NEW p \in Peer, NEW c \in Code, JoinsStale(p, c)
    PROVE  IInv'
<1> DEFINE r == rooms[c]
<1>1. SendTyped' /\ NothingOwedIsLost' /\ NoChannelNoMessage'
  BY ReplySends DEF JoinsStale, Reads, readRest, socketVars
<1>2. /\ UNCHANGED <<readRest, code, members, stale, peerVars>> /\ requests' = requests + 1
      /\ rooms' = [rooms EXCEPT ![c] = NoPeer] /\ expired' = [expired EXCEPT ![r] = TRUE]
      /\ r # NoPeer
  BY DEF JoinsStale, Reads
<1>3. r \in Peer /\ Created(r) /\ code[r] = c
  BY <1>2, TabledCreated
<1>t. TypeOK
  BY DEF IInv
<1>a. r = rooms[c]
  OBVIOUS
<1> HIDE DEF r
<1> USE DEF readRest, peerVars, socketVars
<1>4. TypeOK'
  BY <1>1, <1>2, <1>3, <1>t DEF TypeOK, SendTyped
<1>5. HandlersOK'
  BY <1>2 DEF IInv, HandlersOK
<1>6. RoomsOK'
  <2>1. \A s \in Peer : Created(s)' <=> Created(s)
    BY <1>2 DEF Created
  <2>2. ASSUME NEW s \in Peer, expired'[s]
        PROVE  Created(s) /\ \A d \in Code : rooms'[d] # s
    <3>1. CASE s = r
      <4>1. \A d \in Code : rooms[d] = r => d = c
        BY <1>2, <1>3 DEF IInv, NoEmptyRoomInTable
      <4> QED BY <1>2, <1>3, <1>t, <3>1, <4>1 DEF TypeOK
    <3>2. CASE s # r
      BY <1>2, <1>t, <2>2, <3>2, RelayAssumption DEF IInv, RoomsOK, TypeOK
    <3> QED BY <3>1, <3>2
  <2> QED BY <1>2, <2>1, <2>2 DEF IInv, RoomsOK
<1>7. PeersKnowTheirRoom'
  BY <1>2 DEF IInv, PeersKnowTheirRoom
<1>8. NoEmptyRoomInTable'
  <2>1. \A d \in Code : rooms'[d] # NoPeer => rooms'[d] = rooms[d]
    BY <1>2, <1>t DEF TypeOK
  <2> SUFFICES ASSUME NEW d \in Code, rooms'[d] # NoPeer
               PROVE  MembersOf(rooms[d])' # {} /\ code'[rooms'[d]] = d
    BY DEF NoEmptyRoomInTable
  <2>2. rooms'[d] = rooms[d] /\ MembersOf(rooms[d]) # {} /\ code[rooms[d]] = d
    BY <2>1 DEF IInv, NoEmptyRoomInTable
  <2> QED BY <1>2, <2>2 DEF MembersOf
<1>9. LiveRoomReachable'
  <2> SUFFICES ASSUME NEW q \in Peer, NEW s, s = peerRoom[q], s # NoPeer
               PROVE  \/ rooms'[code[s]] = s \/ expired'[s]
                      \/ \E old \in Peer \ {s} : code[old] = code[s] /\ expired'[old]
    BY <1>2 DEF LiveRoomReachable
  <2>1. s \in Peer /\ code[s] \in Code
    BY <1>t DEF TypeOK
  <2>2. \A old \in Peer : expired[old] => expired'[old]
    BY <1>2, <1>t DEF TypeOK
  <2>3. CASE s = r
    BY <1>2, <1>3, <1>t, <2>3 DEF TypeOK
  <2>4. CASE s # r
    <3>1. rooms[code[s]] = s => rooms'[code[s]] = s
      BY <1>2, <1>3, <1>a, <1>t, <2>1, <2>4 DEF TypeOK
    <3>2. \/ rooms[code[s]] = s \/ expired[s]
          \/ \E old \in Peer \ {s} : code[old] = code[s] /\ expired[old]
      BY DEF IInv, LiveRoomReachable
    <3> QED BY <2>1, <2>2, <3>1, <3>2
  <2> QED BY <2>3, <2>4
<1>10. ConnectionsCounted'
  BY <1>2, NoneMoves DEF IInv
<1> QED BY <1>1, <1>4, <1>5, <1>6, <1>7, <1>8, <1>9, <1>10 DEF IInv

\* The id a second peer gets is free.
LEMMA FreeId ==
    ASSUME IInv, NEW r \in Peer, Cardinality(MembersOf(r)) < 2
    PROVE  NextPeerId(r) \in Id /\ members[r][NextPeerId(r)] = NoPeer
<1> DEFINE a == members[r]["A"]
           b == members[r]["B"]
<1>1. CASE a = NoPeer
  BY <1>1 DEF NextPeerId, Id
<1>2. CASE a # NoPeer
  <2>1. NextPeerId(r) = "B"
    BY <1>2 DEF NextPeerId
  <2>2. SUFFICES ASSUME b # NoPeer PROVE FALSE
    BY <2>1 DEF Id
  <2>3. a \in Peer /\ b \in Peer
    BY <1>2, <2>2 DEF IInv, TypeOK, Id
  <2>4. a # b
    <3>1. peerId[a] = "A" /\ peerId[b] = "B"
      BY <2>3 DEF IInv, PeersKnowTheirRoom, Id
    <3> QED BY <3>1
  <2>5. MembersOf(r) = {a} \cup {b}
    BY <1>2, <2>2 DEF MembersOf, Id
  <2> HIDE DEF a, b
  <2>6. IsFiniteSet({a}) /\ Cardinality({a}) = 1
    BY FS_Singleton
  <2>7. Cardinality({a} \cup {b}) = 2
    BY <2>4, <2>6, FS_AddElement
  <2> QED BY <2>5, <2>7
<1> QED BY <1>1, <1>2

LEMMA JoinsSafe ==
    ASSUME IInv, NEW p \in Peer, NEW c \in Code, Joins(p, c)
    PROVE  IInv'
<1> DEFINE r == rooms[c]
           n == NextPeerId(r)
           out == [q \in Roommates(p, r) \cup {p} |->
                      IF q = p THEN Note("JOIN_OK", p) ELSE Note("PEER_JOINED", p)]
<1>1. handler[p] = "reading" /\ peerRoom[p] = NoPeer /\ r # NoPeer
      /\ Cardinality(MembersOf(r)) < 2
  BY DEF Joins, Reads
<1>2. /\ UNCHANGED <<readRest, rooms, code, stale, expired>> /\ requests' = requests + 1
      /\ peerId' = [peerId EXCEPT ![p] = n] /\ peerRoom' = [peerRoom EXCEPT ![p] = r]
      /\ members' = [members EXCEPT ![r][n] = p]
  BY DEF Joins, Reads
<1>3. r \in Peer /\ Created(r) /\ code[r] = c
  BY <1>1, TabledCreated
<1>4. n \in Id /\ members[r][n] = NoPeer
  BY <1>1, <1>3, FreeId
<1>p. p # NoPeer
  BY RelayAssumption
<1>t. TypeOK
  BY DEF IInv
<1>5. SendTyped' /\ NothingOwedIsLost' /\ NoChannelNoMessage'
  <2>1. MembersOf(r) = {q \in Peer : peerRoom[q] = r}
    BY <1>3, Members DEF IInv
  <2>2. MembersOf(r) \cup {p} = Roommates(p, r) \cup {p}
    BY <2>1 DEF Roommates
  <2>3. Post(out, {}) /\ Owes(out)
    BY <2>2 DEF Joins
  <2>4. \A q \in DOMAIN out : /\ q \in Peer /\ (q = p \/ q \in MembersOf(r))
                             /\ out[q] \in {Note("JOIN_OK", p), Note("PEER_JOINED", p)}
    BY <2>1 DEF Roommates
  <2>5. Note("JOIN_OK", p) \in Message /\ Note("PEER_JOINED", p) \in Message
    BY DEF Note, Message
  <2>6. writer[p] # "none"
    BY <1>1 DEF IInv, HandlersOK
  <2>7. \A q \in MembersOf(r) : writer[q] # "none"
    BY <1>3, MembersHaveChannels DEF IInv
  <2>8. \A q \in DOMAIN out : q \in Peer /\ writer[q] # "none" /\ out[q] \in Message
    BY <2>4, <2>5, <2>6, <2>7
  <2>9. UNCHANGED <<closed, writer>>
    BY <1>2 DEF readRest, socketVars
  <2> HIDE DEF out
  <2> QED BY <2>3, <2>8, <2>9, Sends DEF IInv
<1> HIDE DEF r, n, out
<1> USE DEF readRest, socketVars
<1>m. \A s \in Peer, i \in Id : members'[s][i] = IF s = r /\ i = n THEN p ELSE members[s][i]
  BY <1>2, <1>t DEF TypeOK
<1>k. \A q \in Peer : /\ peerRoom'[q] = IF q = p THEN r ELSE peerRoom[q]
                      /\ peerId'[q] = IF q = p THEN n ELSE peerId[q]
  BY <1>2, <1>t DEF TypeOK
<1>6. TypeOK'
  <2>1. members' \in [Peer -> [Id -> Peer \cup {NoPeer}]]
    BY <1>2, <1>3, <1>4, <1>t DEF TypeOK
  <2>2. peerId' \in [Peer -> Id] /\ peerRoom' \in [Peer -> Peer \cup {NoPeer}]
        /\ requests' \in Nat
    BY <1>2, <1>3, <1>4, <1>t DEF TypeOK
  <2> QED BY <1>2, <1>5, <1>t, <2>1, <2>2 DEF TypeOK, SendTyped
<1>7. HandlersOK'
  BY <1>1, <1>2, <1>k DEF IInv, HandlersOK
<1>8. RoomsOK'
  <2>1. \A s \in Peer : Created(s) => Created(s)'
    BY <1>1, <1>2, <1>k, <1>p DEF Created
  <2> QED BY <1>2, <1>3, <1>k, <2>1 DEF IInv, RoomsOK
<1>9. PeersKnowTheirRoom'
  <2>1. ASSUME NEW q \in Peer, NEW s \in Peer, peerRoom'[q] = s
        PROVE  members'[s][peerId'[q]] = q
    <3>1. peerId[q] \in Id
      BY <1>t DEF TypeOK
    <3>2. CASE q = p
      BY <1>4, <1>k, <1>m, <2>1, <3>2
    <3>3. CASE q # p
      <4>1. members[s][peerId[q]] = q /\ q # NoPeer
        BY <1>k, <2>1, <3>3, RelayAssumption DEF IInv, PeersKnowTheirRoom
      <4> QED BY <1>4, <1>k, <1>m, <3>1, <3>3, <4>1
    <3> QED BY <3>2, <3>3
  <2>2. ASSUME NEW q \in Peer, NEW s \in Peer, NEW i \in Id, members'[s][i] = q
        PROVE  peerRoom'[q] = s /\ peerId'[q] = i
    <3>1. CASE s = r /\ i = n
      BY <1>k, <1>m, <2>2, <3>1
    <3>2. CASE ~ (s = r /\ i = n)
      <4>1. peerRoom[q] = s /\ peerId[q] = i
        BY <1>m, <2>2, <3>2 DEF IInv, PeersKnowTheirRoom
      <4>2. q # p
        BY <1>1, <4>1, RelayAssumption
      <4> QED BY <1>k, <4>1, <4>2
    <3> QED BY <3>1, <3>2
  <2> QED BY <2>1, <2>2 DEF PeersKnowTheirRoom
<1>10. NoEmptyRoomInTable'
  <2> SUFFICES ASSUME NEW d \in Code, rooms[d] # NoPeer
               PROVE  MembersOf(rooms[d])' # {} /\ code[rooms[d]] = d
    BY <1>2 DEF NoEmptyRoomInTable, MembersOf
  <2>1. rooms[d] \in Peer /\ code[rooms[d]] = d
    BY TabledCreated
  <2>2. PICK i \in Id : members[rooms[d]][i] # NoPeer
    BY DEF IInv, NoEmptyRoomInTable, MembersOf
  <2>3. members'[rooms[d]][i] # NoPeer
    BY <1>m, <1>p, <2>1, <2>2
  <2> QED BY <1>2, <2>1, <2>3 DEF MembersOf
<1>11. LiveRoomReachable'
  <2> SUFFICES ASSUME NEW q \in Peer, NEW s, s = peerRoom'[q], s # NoPeer
               PROVE  \/ rooms[code[s]] = s \/ expired[s]
                      \/ \E old \in Peer \ {s} : code[old] = code[s] /\ expired[old]
    BY <1>2 DEF LiveRoomReachable
  <2>1. CASE s = r
    BY <1>3, <2>1 DEF r
  <2>2. CASE s # r
    BY <1>k, <2>2 DEF IInv, LiveRoomReachable
  <2> QED BY <2>1, <2>2
<1>12. ConnectionsCounted'
  BY <1>2, NoneMoves DEF IInv
<1> QED BY <1>5, <1>6, <1>7, <1>8, <1>9, <1>10, <1>11, <1>12 DEF IInv

LEMMA RemovesPeerSafe ==
    ASSUME IInv, NEW p \in Peer, RemovesPeer(p)
    PROVE  IInv'
<1> DEFINE r == peerRoom[p]
           last == MembersOf(r) = {p}
<1>1. handler[p] = "removing" /\ r # NoPeer
  BY DEF RemovesPeer
<1>2. /\ UNCHANGED <<connections, code, expired, peerId, closed, socketVars, requests, faults>>
      /\ members' = [members EXCEPT ![r][peerId[p]] = NoPeer]
      /\ peerRoom' = [peerRoom EXCEPT ![p] = NoPeer]
      /\ handler' = [handler EXCEPT ![p] = "closing"]
  BY DEF RemovesPeer
<1>3. \/ /\ last /\ rooms' = [rooms EXCEPT ![code[r]] = NoPeer]
         /\ UNCHANGED <<stale, sendVars>>
      \/ /\ ~ last /\ stale' = [stale EXCEPT ![r] = FALSE]
         /\ Notify(p, r, Note("PEER_LEFT", p)) /\ UNCHANGED rooms
  BY DEF RemovesPeer
<1>t. TypeOK
  BY DEF IInv
<1>4. r \in Peer /\ peerId[p] \in Id /\ code[r] \in Code
  BY <1>1, <1>t DEF TypeOK
<1>5. MembersOf(r) = {q \in Peer : peerRoom[q] = r}
  BY <1>4, Members DEF IInv
<1>p. p # NoPeer
  BY RelayAssumption
<1>6. SendTyped' /\ NothingOwedIsLost' /\ NoChannelNoMessage'
  <2>0. UNCHANGED <<closed, writer>>
    BY <1>2 DEF socketVars
  <2>1. CASE UNCHANGED <<stale, sendVars>>
    BY <1>t, <2>0, <2>1 DEF IInv, TypeOK, SendTyped, NothingOwedIsLost, NoChannelNoMessage,
                            Attends, sendVars
  <2>2. CASE Notify(p, r, Note("PEER_LEFT", p))
    <3>1. Note("PEER_LEFT", p) \in Message
      BY DEF Note, Message
    <3> HIDE DEF r
    <3> QED BY <1>4, <2>0, <2>2, <3>1, NotifySends
  <2> QED BY <1>3, <2>1, <2>2
<1>r. \A q \in Peer : peerRoom'[q] = IF q = p THEN NoPeer ELSE peerRoom[q]
  BY <1>2, <1>t DEF TypeOK
<1>a. r = peerRoom[p]
  OBVIOUS
<1>l. last => \A q \in Peer : peerRoom[q] = r => q = p
  BY <1>5
<1>n. ~ last => \E q \in Peer \ {p} : peerRoom[q] = r
  BY <1>5
<1> HIDE DEF r, last
<1> USE DEF socketVars
<1>m. \A s \in Peer, i \in Id : members'[s][i] =
                   IF s = r /\ i = peerId[p] THEN NoPeer ELSE members[s][i]
  BY <1>2, <1>t DEF TypeOK
<1>7. TypeOK'
  <2>1. members' \in [Peer -> [Id -> Peer \cup {NoPeer}]]
    BY <1>2, <1>4, <1>t DEF TypeOK
  <2>2. rooms' \in [Code -> Peer \cup {NoPeer}] /\ stale' \in [Peer -> BOOLEAN]
    BY <1>3, <1>t DEF TypeOK
  <2>3. peerRoom' \in [Peer -> Peer \cup {NoPeer}]
        /\ handler' \in [Peer -> {"absent", "accepting", "reading", "removing", "closing", "gone"}]
    BY <1>2, <1>t DEF TypeOK
  <2> QED BY <1>2, <1>6, <1>t, <2>1, <2>2, <2>3 DEF TypeOK, SendTyped
<1>8. HandlersOK'
  BY <1>1, <1>2, <1>r, <1>t DEF IInv, HandlersOK, TypeOK
<1>9. RoomsOK'
  <2>1. \A s \in Peer : Created(s) => Created(s)'
    BY <1>1, <1>2, <1>r, <1>t DEF Created, TypeOK
  <2>2. \A q, s \in Peer : peerRoom'[q] = s => peerRoom[q] = s
    BY <1>r, RelayAssumption
  <2>3. \A s \in Peer, d \in Code : rooms'[d] = s => rooms[d] = s
    BY <1>3, <1>t, RelayAssumption DEF TypeOK
  <2> QED BY <1>2, <2>1, <2>2, <2>3 DEF IInv, RoomsOK
<1>10. PeersKnowTheirRoom'
  <2>1. ASSUME NEW q \in Peer, NEW s \in Peer, peerRoom'[q] = s
        PROVE  members'[s][peerId'[q]] = q
    <3>1. q # p /\ peerRoom[q] = s /\ peerId[q] \in Id
      BY <1>r, <1>t, <2>1, RelayAssumption DEF TypeOK
    <3>2. members[s][peerId[q]] = q
      BY <3>1 DEF IInv, PeersKnowTheirRoom
    <3>3. members[r][peerId[p]] = p
      BY <1>4, <1>a DEF IInv, PeersKnowTheirRoom
    <3> QED BY <1>2, <1>m, <3>1, <3>2, <3>3
  <2>2. ASSUME NEW q \in Peer, NEW s \in Peer, NEW i \in Id, members'[s][i] = q
        PROVE  peerRoom'[q] = s /\ peerId'[q] = i
    <3>1. ~ (s = r /\ i = peerId[p]) /\ members[s][i] = q
      BY <1>m, <2>2, RelayAssumption
    <3>2. peerRoom[q] = s /\ peerId[q] = i
      BY <3>1 DEF IInv, PeersKnowTheirRoom
    <3>3. q # p
      BY <1>a, <3>1, <3>2
    <3> QED BY <1>2, <1>r, <3>2, <3>3
  <2> QED BY <2>1, <2>2 DEF PeersKnowTheirRoom
<1>11. NoEmptyRoomInTable'
  <2> SUFFICES ASSUME NEW d \in Code, rooms'[d] # NoPeer
               PROVE  MembersOf(rooms[d])' # {} /\ code'[rooms'[d]] = d
    BY DEF NoEmptyRoomInTable
  <2>1. rooms'[d] = rooms[d] /\ rooms[d] # NoPeer /\ (last => d # code[r])
    BY <1>3, <1>t DEF TypeOK
  <2>2. rooms[d] \in Peer /\ code[rooms[d]] = d /\ MembersOf(rooms[d]) # {}
    BY <2>1, TabledCreated DEF IInv, NoEmptyRoomInTable
  <2>3. PICK q \in Peer : peerRoom[q] = rooms[d] /\ q # p
    <3>1. PICK q \in Peer : peerRoom[q] = rooms[d]
      BY <2>2, Members DEF IInv
    <3>2. CASE rooms[d] = r
      BY <1>n, <2>1, <2>2, <3>2
    <3>3. CASE rooms[d] # r
      BY <1>a, <3>1, <3>3
    <3> QED BY <3>2, <3>3
  <2>4. peerRoom'[q] = rooms[d]
    BY <1>r, <2>3
  <2>5. members'[rooms[d]][peerId'[q]] = q /\ peerId'[q] \in Id
    BY <1>7, <1>10, <2>2, <2>4 DEF PeersKnowTheirRoom, TypeOK
  <2>6. q # NoPeer
    BY RelayAssumption
  <2> QED BY <1>2, <2>1, <2>2, <2>5, <2>6 DEF MembersOf
<1>12. LiveRoomReachable'
  <2> SUFFICES ASSUME NEW q \in Peer, NEW s, s = peerRoom'[q], s # NoPeer
               PROVE  \/ rooms'[code[s]] = s \/ expired[s]
                      \/ \E old \in Peer \ {s} : code[old] = code[s] /\ expired[old]
    BY <1>2 DEF LiveRoomReachable
  <2>1. q # p /\ s = peerRoom[q] /\ s \in Peer /\ code[s] \in Code
    BY <1>r, <1>t DEF TypeOK
  <2>2. \/ rooms[code[s]] = s \/ expired[s]
        \/ \E old \in Peer \ {s} : code[old] = code[s] /\ expired[old]
    BY <2>1 DEF IInv, LiveRoomReachable
  <2>3. CASE rooms[code[s]] = s /\ last /\ code[s] = code[r]
    <3>1. s # r
      BY <1>l, <2>1, <2>3
    <3>2. \/ rooms[code[r]] = r \/ expired[r]
          \/ \E old \in Peer \ {r} : code[old] = code[r] /\ expired[old]
      BY <1>1, <1>a DEF IInv, LiveRoomReachable
    <3>3. \A old \in Peer : expired[old] => old # s
      BY <2>1, <2>3 DEF IInv, RoomsOK
    <3> QED BY <1>4, <2>3, <3>1, <3>2, <3>3
  <2>4. CASE rooms[code[s]] = s /\ ~ (last /\ code[s] = code[r])
    BY <1>3, <1>t, <2>1, <2>4 DEF TypeOK
  <2> QED BY <2>2, <2>3, <2>4
<1>13. ConnectionsCounted'
  <2>1. There' = There
    BY <1>1, <1>2, <1>t DEF There, TypeOK
  <2> QED BY <1>2, <2>1 DEF IInv, ConnectionsCounted, There
<1> QED BY <1>6, <1>7, <1>8, <1>9, <1>10, <1>11, <1>12, <1>13 DEF IInv

LEMMA CleansUpSafe ==
    ASSUME IInv, CleansUp
    PROVE  IInv'
<1> DEFINE old   == {c \in Code : rooms[c] # NoPeer /\ stale[rooms[c]]}
           peers == UNION {MembersOf(rooms[c]) : c \in old}
           out   == [p \in peers |-> Note("ROOM_EXPIRED", p)]
           due   == [p \in {} |-> Note("ROOM_EXPIRED", p)]
<1>1. /\ rooms' = [c \in Code |-> IF c \in old THEN NoPeer ELSE rooms[c]]
      /\ expired' = [r \in Peer |-> expired[r] \/ \E c \in old : rooms[c] = r]
      /\ Post(out, peers) /\ Owes(due)
      /\ UNCHANGED <<connections, code, members, stale, handler, peerVars, closed, socketVars,
                     requests, faults>>
  BY DEF CleansUp
<1>2. \A c \in old : c \in Code /\ rooms[c] # NoPeer
  OBVIOUS
<1>t. TypeOK
  BY DEF IInv
<1>3. SendTyped' /\ NothingOwedIsLost' /\ NoChannelNoMessage'
  <2>1. \A p \in peers : p \in Peer /\ writer[p] # "none"
    <3> SUFFICES ASSUME NEW c \in old, NEW p \in MembersOf(rooms[c])
                 PROVE  p \in Peer /\ writer[p] # "none"
      OBVIOUS
    <3>1. rooms[c] \in Peer
      BY TabledCreated
    <3> QED BY <3>1, MembersHaveChannels DEF IInv
  <2>2. \A p \in peers : Note("ROOM_EXPIRED", p) \in Message
    BY <2>1 DEF Note, Message
  <2>3. DOMAIN out = peers /\ \A p \in peers : out[p] = Note("ROOM_EXPIRED", p)
    OBVIOUS
  <2>4. DOMAIN due = {}
    OBVIOUS
  <2>5. UNCHANGED <<closed, writer>>
    BY <1>1 DEF socketVars
  <2>6. Post(out, peers) /\ Owes(due)
    BY <1>1
  <2> HIDE DEF old, peers, out, due
  <2>7. /\ \A p \in Peer \ peers : p \in DOMAIN out <=> p \in DOMAIN due
        /\ \A p \in DOMAIN due : p \in DOMAIN out /\ out[p] = due[p]
        /\ \A p \in DOMAIN out : p \in Peer /\ writer[p] # "none" /\ out[p] \in Message
    BY <2>1, <2>2, <2>3, <2>4
  <2> QED BY <2>5, <2>6, <2>7, Sends DEF IInv
<1> HIDE DEF old, peers, out, due
<1> USE DEF peerVars, socketVars
<1>4. TypeOK'
  <2>1. rooms' \in [Code -> Peer \cup {NoPeer}] /\ expired' \in [Peer -> BOOLEAN]
    BY <1>1, <1>t DEF TypeOK
  <2> QED BY <1>1, <1>3, <1>t, <2>1 DEF TypeOK, SendTyped
<1>5. HandlersOK'
  BY <1>1 DEF IInv, HandlersOK
<1>r. \A d \in Code : rooms'[d] = IF d \in old THEN NoPeer ELSE rooms[d]
  BY <1>1
<1>e. \A s \in Peer : expired'[s] <=> expired[s] \/ \E c \in old : rooms[c] = s
  BY <1>1, <1>t DEF TypeOK
<1>6. RoomsOK'
  <2>1. \A s \in Peer : Created(s)' <=> Created(s)
    BY <1>1 DEF Created
  <2>2. ASSUME NEW s \in Peer, expired'[s]
        PROVE  Created(s) /\ \A d \in Code : rooms'[d] # s
    <3>1. CASE expired[s]
      BY <1>r, <3>1, RelayAssumption DEF IInv, RoomsOK
    <3>2. CASE \E c \in old : rooms[c] = s
      <4>1. PICK c \in old : rooms[c] = s
        BY <3>2
      <4>2. Created(s) /\ code[s] = c
        BY <1>2, <4>1, TabledCreated
      <4>3. \A d \in Code : rooms[d] = s => d = c
        BY <4>2, TabledCreated, RelayAssumption
      <4> QED BY <1>r, <4>1, <4>2, <4>3, RelayAssumption
    <3> QED BY <1>e, <2>2, <3>1, <3>2
  <2> QED BY <1>1, <2>1, <2>2 DEF IInv, RoomsOK
<1>7. PeersKnowTheirRoom'
  BY <1>1 DEF IInv, PeersKnowTheirRoom
<1>8. NoEmptyRoomInTable'
  <2> SUFFICES ASSUME NEW d \in Code, rooms'[d] # NoPeer
               PROVE  MembersOf(rooms[d])' # {} /\ code'[rooms'[d]] = d
    BY DEF NoEmptyRoomInTable
  <2>1. rooms'[d] = rooms[d] /\ rooms[d] # NoPeer
    BY <1>r
  <2>2. MembersOf(rooms[d]) # {} /\ code[rooms[d]] = d
    BY <2>1 DEF IInv, NoEmptyRoomInTable
  <2> QED BY <1>1, <2>1, <2>2 DEF MembersOf
<1>9. LiveRoomReachable'
  <2> SUFFICES ASSUME NEW q \in Peer, NEW s, s = peerRoom[q], s # NoPeer
               PROVE  \/ rooms'[code[s]] = s \/ expired'[s]
                      \/ \E past \in Peer \ {s} : code[past] = code[s] /\ expired'[past]
    BY <1>1 DEF LiveRoomReachable
  <2>1. s \in Peer /\ code[s] \in Code
    BY <1>t DEF TypeOK
  <2>2. \/ rooms[code[s]] = s \/ expired[s]
        \/ \E past \in Peer \ {s} : code[past] = code[s] /\ expired[past]
    BY DEF IInv, LiveRoomReachable
  <2>3. rooms[code[s]] = s => rooms'[code[s]] = s \/ expired'[s]
    BY <1>r, <1>e, <2>1
  <2> QED BY <1>e, <2>1, <2>2, <2>3
<1>10. ConnectionsCounted'
  BY <1>1, NoneMoves DEF IInv
<1> QED BY <1>3, <1>4, <1>5, <1>6, <1>7, <1>8, <1>9, <1>10 DEF IInv

-----------------------------------------------------------------------------
(* The theorems. *)

LEMMA InitSafe ==
    ASSUME Init
    PROVE  IInv
<1>1. TypeOK
  <2>1. (CHOOSE c \in Code : TRUE) \in Code
    BY RelayAssumption
  <2>2. "A" \in Id
    BY DEF Id
  <2>3. code \in [Peer -> Code]
    BY <2>1 DEF Init
  <2>4. send \in [Peer -> Seq(Message)] /\ owed \in [Peer -> Seq(Message)]
        /\ \A p \in Peer : Len(send[p]) <= SendBuffer
    BY RelayAssumption DEF Init
  <2>5. connections \in 0..MaxConnections
    BY RelayAssumption DEF Init
  <2> QED BY <2>2, <2>3, <2>4, <2>5 DEF Init, TypeOK
<1>2. HandlersOK /\ NoChannelNoMessage
  BY DEF Init, HandlersOK, NoChannelNoMessage
<1>3. RoomsOK
  BY RelayAssumption DEF Init, RoomsOK
<1>4. PeersKnowTheirRoom
  BY RelayAssumption DEF Init, PeersKnowTheirRoom
<1>5. NoEmptyRoomInTable /\ LiveRoomReachable
  BY DEF Init, NoEmptyRoomInTable, LiveRoomReachable
<1>6. ConnectionsCounted
  <2>1. {p \in Peer : handler[p] \notin {"absent", "gone"}} = {}
    BY DEF Init
  <2> QED BY <2>1, FS_EmptySet DEF Init, ConnectionsCounted
<1>7. NothingOwedIsLost
  BY DEF Init, NothingOwedIsLost
<1> QED BY <1>1, <1>2, <1>3, <1>4, <1>5, <1>6, <1>7 DEF IInv

LEMMA StutterSafe ==
    ASSUME IInv, UNCHANGED vars
    PROVE  IInv'
<1> USE DEF vars, roomVars, peerVars, sendVars, socketVars
<1>1. TypeOK'
  BY DEF IInv, TypeOK
<1>2. HandlersOK'
  BY DEF IInv, HandlersOK
<1>3. RoomsOK'
  BY DEF IInv, RoomsOK, Created
<1>4. PeersKnowTheirRoom' /\ NoEmptyRoomInTable' /\ LiveRoomReachable'
  BY DEF IInv, PeersKnowTheirRoom, NoEmptyRoomInTable, LiveRoomReachable, MembersOf
<1>5. NothingOwedIsLost' /\ NoChannelNoMessage'
  BY DEF IInv, NothingOwedIsLost, NoChannelNoMessage, Attends
<1>6. ConnectionsCounted'
  BY NoneMoves DEF IInv
<1> QED BY <1>1, <1>2, <1>3, <1>4, <1>5, <1>6 DEF IInv

\* The invariant of the relay server holds in every state, for any number of connections,
\* codes, requests and failing writes.
THEOREM Invariance == Spec => []IInv
<1>1. Init => IInv
  BY InitSafe
<1>2. IInv /\ [Next]_vars => IInv'
  <2> SUFFICES ASSUME IInv, [Next]_vars PROVE IInv'
    OBVIOUS
  <2>1. ASSUME NEW p \in Peer, Handler(p)
        PROVE  IInv'
    BY <2>1, AcceptsSafe, MovesSafe, RemovesPeerSafe, HandlerEndsSafe DEF Handler
  <2>2. ASSUME NEW p \in Peer, Request(p)
        PROVE  IInv'
    BY <2>2, ReadRepliesSafe, CreatesSafe, RelaysSafe, JoinsSafe, JoinsStaleSafe DEF Request
  <2>3. ASSUME NEW p \in Peer,
               \/ Connects(p) \/ AcceptFails(p) \/ ReadReturns(p) \/ Writer(p)
               \/ Closes(p) \/ GrowsStale(p)
        PROVE  IInv'
    BY <2>3, ConnectsSafe, AcceptFailsSafe, MovesSafe, WriterSafe, ClosesSafe, GrowsStaleSafe
  <2>4. CASE CleansUp
    BY <2>4, CleansUpSafe
  <2>5. CASE UNCHANGED vars
    BY <2>5, StutterSafe
  <2> QED BY <2>1, <2>2, <2>3, <2>4, <2>5 DEF Next
<1> QED BY <1>1, <1>2, PTL DEF Spec

\* Type correctness: no channel ever holds more than its capacity, whoever sends.
THEOREM TypeCorrect == Spec => []TypeOK
<1>1. IInv => TypeOK
  BY DEF IInv
<1> QED BY <1>1, Invariance, PTL

\* Peers and rooms agree on who is where, through creating, joining, leaving and expiry.
THEOREM RoomsAgree == Spec => []PeersKnowTheirRoom
<1>1. IInv => PeersKnowTheirRoom
  BY DEF IInv
<1> QED BY <1>1, Invariance, PTL

\* A room that all peers have left is not in the table.
THEOREM NoEmptyRooms == Spec => []NoEmptyRoomInTable
<1>1. IInv => NoEmptyRoomInTable
  BY DEF IInv
<1> QED BY <1>1, Invariance, PTL

\* Every way a connection ends gives back its place among the connections.
THEOREM Counted == Spec => []ConnectionsCounted
<1>1. IInv => ConnectionsCounted
  BY DEF IInv
<1> QED BY <1>1, Invariance, PTL

\* A room with peers in it is lost from the table only after an expiry under its code.
THEOREM RoomsReachable == Spec => []LiveRoomReachable
<1>1. IInv => LiveRoomReachable
  BY DEF IInv
<1> QED BY <1>1, Invariance, PTL

\* A peer that is not being closed is sent all it is owed, in order and once.
THEOREM NothingIsLost == Spec => []NothingOwedIsLost
<1>1. IInv => NothingOwedIsLost
  BY DEF IInv
<1> QED BY <1>1, Invariance, PTL
=============================================================================
