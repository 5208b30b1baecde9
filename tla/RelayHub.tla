------------------------------- MODULE RelayHub ------------------------------
(***************************************************************************)
(* The relay server: the hub with its table of rooms, and for every        *)
(* WebSocket connection the goroutine of handleWebSocket (which runs       *)
(* readLoop), the goroutine of writeLoop with its channel, and the         *)
(* goroutines that sendRaw and cleanupExpiredRooms start to close it.      *)
(*                                                                         *)
(* Each critical section under hub.mu or peer.mu is one action.  A peer is *)
(* a connection; it is in at most one room during its life, so a room is   *)
(* named by the peer that created it.  The clock is abstracted: a room is  *)
(* stale when its updated time is older than the TTL; the rate limit, the  *)
(* checks of a payload and every other refusal are one reply that changes  *)
(* nothing else (ReadReplies).                                             *)
(***************************************************************************)
EXTENDS Naturals, FiniteSets, Sequences

CONSTANTS
    Peer,               \* connections
    NoPeer,             \* nil
    Code,               \* room codes
    MaxRooms,           \* maxRooms
    MaxConnections,     \* maxConnections
    SendBuffer,         \* capacity of the channel peer.send
    MaxRequests,        \* bound on the messages read from all peers
    MaxFaults           \* bound on the writes that time out

ASSUME RelayAssumption ==
    /\ NoPeer \notin Peer
    /\ IsFiniteSet(Peer) /\ Code # {}
    /\ MaxRooms \in Nat /\ MaxConnections \in Nat /\ SendBuffer \in Nat \ {0}
    /\ MaxRequests \in Nat /\ MaxFaults \in Nat

Id == {"A", "B"}

VARIABLES
    connections,    \* hub.connections
    rooms,          \* hub.rooms: the room of each code, or NoPeer
    code,           \* room.code
    members,        \* room.peers
    stale,          \* room.updated is older than the TTL
    handler,        \* where handleWebSocket of each peer is
    peerId,         \* peer.id
    peerRoom,       \* peer.room
    send,           \* the channel peer.send
    closed,         \* peer.closed, and with it the channel
    open,           \* the connection has not been closed by the server
    writer,         \* writeLoop of each peer
    closer,         \* the goroutine started by "go p.close()"
    requests, faults,
    owed,           \* history: what the client was to be sent and was not written yet
    expired         \* history: the room was taken from the table as expired

roomVars   == <<rooms, code, members, stale, expired>>
peerVars   == <<peerId, peerRoom>>
socketVars == <<open, writer>>
sendVars   == <<send, owed, closer>>
vars == <<connections, roomVars, handler, peerVars, sendVars, closed, socketVars, requests,
          faults>>

Message == [type : {"REPLY", "ROOM_CREATED", "JOIN_OK", "PEER_JOINED", "PEER_LEFT", "RELAY",
                    "ROOM_EXPIRED"},
            by : Peer]

Init ==
    /\ connections = 0
    /\ rooms = [c \in Code |-> NoPeer]
    /\ code = [r \in Peer |-> CHOOSE c \in Code : TRUE]
    /\ members = [r \in Peer |-> [i \in Id |-> NoPeer]]
    /\ stale = [r \in Peer |-> FALSE] /\ expired = [r \in Peer |-> FALSE]
    /\ handler = [p \in Peer |-> "absent"]
    /\ peerId = [p \in Peer |-> "A"] /\ peerRoom = [p \in Peer |-> NoPeer]
    /\ send = [p \in Peer |-> <<>>] /\ closed = [p \in Peer |-> FALSE]
    /\ open = [p \in Peer |-> FALSE] /\ writer = [p \in Peer |-> "none"]
    /\ owed = [p \in Peer |-> <<>>] /\ closer = [p \in Peer |-> "none"]
    /\ requests = 0 /\ faults = 0

-----------------------------------------------------------------------------
(* Sending. *)

Full(p) == Len(send[p]) >= SendBuffer

\* A slip: a channel that is full takes one more message.
PostWithoutLimit(outbox, dismissed) ==
    LET live == {p \in DOMAIN outbox : ~ closed[p]}
    IN  /\ send' = [p \in Peer |-> IF p \in live THEN Append(send[p], outbox[p]) ELSE send[p]]
        /\ closer' = [p \in Peer |->
              IF closer[p] = "none" /\ p \in dismissed \cup {q \in live : Full(q)}
              THEN "pending" ELSE closer[p]]

\* sendRaw to every peer that outbox has a message for, and "go p.close()" for those of
\* dismissed: a closed peer gets nothing, one whose channel is full is closed.
Post(outbox, dismissed) ==
    LET live == {p \in DOMAIN outbox : ~ closed[p]}
    IN  /\ send' = [p \in Peer |-> IF p \in live /\ ~ Full(p)
                                   THEN Append(send[p], outbox[p]) ELSE send[p]]
        /\ closer' = [p \in Peer |->
              IF closer[p] = "none" /\ p \in dismissed \cup {q \in live : Full(q)}
              THEN "pending" ELSE closer[p]]

\* p can still be told everything.
Attends(p) == closer[p] = "none" /\ ~ closed[p] /\ writer[p] = "running"

\* The messages due are owed to the peers that attend, and nothing to one that is about
\* to be closed.
Owes(due) ==
    owed' = [p \in Peer |-> IF closer'[p] # "none" THEN <<>>
                           ELSE IF p \in DOMAIN due /\ Attends(p) THEN Append(owed[p], due[p])
                           ELSE owed[p]]

Note(type, p) == [type |-> type, by |-> p]

\* A message to p alone.
Reply(p, type) ==
    /\ Post([q \in {p} |-> Note(type, p)], {})
    /\ Owes([q \in {p} |-> Note(type, p)])

MembersOf(r) == {members[r][i] : i \in Id} \ {NoPeer}

Roommates(p, r) == {q \in Peer \ {p} : peerRoom[q] = r}

\* A slip: the sender gets its own note too.
NotifyAll(p, r, note) ==
    /\ Post([q \in MembersOf(r) |-> note], {})
    /\ Owes([q \in Roommates(p, r) |-> note])

\* notifyRoomLocked: everyone in the room but p gets the note.
Notify(p, r, note) ==
    /\ Post([q \in MembersOf(r) \ {p} |-> note], {})
    /\ Owes([q \in Roommates(p, r) |-> note])

-----------------------------------------------------------------------------
(* handleWebSocket. *)

\* unregisterConnection.
Uncounted == IF connections > 0 THEN connections - 1 ELSE 0

\* registerConnection, unless the server is full.
Connects(p) ==
    /\ handler[p] = "absent" /\ connections < MaxConnections
    /\ connections' = connections + 1
    /\ handler' = [handler EXCEPT ![p] = "accepting"]
    /\ UNCHANGED <<roomVars, peerVars, sendVars, closed, socketVars, requests, faults>>

\* acceptWebSocket succeeds; writeLoop is started.
Accepts(p) ==
    /\ handler[p] = "accepting"
    /\ handler' = [handler EXCEPT ![p] = "reading"]
    /\ open' = [open EXCEPT ![p] = TRUE]
    /\ writer' = [writer EXCEPT ![p] = "running"]
    /\ UNCHANGED <<connections, roomVars, peerVars, sendVars, closed, requests, faults>>

\* A slip: the connection stays counted.
AcceptFailsCounted(p) ==
    /\ handler[p] = "accepting"
    /\ handler' = [handler EXCEPT ![p] = "gone"]
    /\ UNCHANGED <<connections, roomVars, peerVars, sendVars, closed, socketVars, requests,
                   faults>>

\* It fails: the connection is not counted any more.
AcceptFails(p) ==
    /\ handler[p] = "accepting"
    /\ handler' = [handler EXCEPT ![p] = "gone"]
    /\ connections' = Uncounted
    /\ UNCHANGED <<roomVars, peerVars, sendVars, closed, socketVars, requests, faults>>

\* readLoop returns: LEAVE, an error, an idle client or a connection closed by the server.
ReadReturns(p) ==
    /\ handler[p] = "reading"
    /\ handler' = [handler EXCEPT ![p] = "removing"]
    /\ open' = [open EXCEPT ![p] = FALSE]
    /\ UNCHANGED <<connections, roomVars, peerVars, sendVars, closed, writer, requests,
                   faults>>

\* removePeer of a peer that is in no room.
RemovesNothing(p) ==
    /\ handler[p] = "removing" /\ peerRoom[p] = NoPeer
    /\ handler' = [handler EXCEPT ![p] = "closing"]
    /\ UNCHANGED <<connections, roomVars, peerVars, sendVars, closed, socketVars, requests,
                   faults>>

\* A slip: any peer that leaves takes the room from the table.
RemovesPeerAndRoom(p) ==
    LET r == peerRoom[p]
    IN  /\ handler[p] = "removing" /\ r # NoPeer
        /\ members' = [members EXCEPT ![r][peerId[p]] = NoPeer]
        /\ peerRoom' = [peerRoom EXCEPT ![p] = NoPeer]
        /\ rooms' = [rooms EXCEPT ![code[r]] = NoPeer]
        /\ stale' = [stale EXCEPT ![r] = FALSE]
        /\ Notify(p, r, Note("PEER_LEFT", p))
        /\ handler' = [handler EXCEPT ![p] = "closing"]
        /\ UNCHANGED <<connections, code, expired, peerId, closed, socketVars, requests, faults>>

\* removePeer: the last one deletes whatever room has this code, otherwise the other peer
\* is told.
RemovesPeer(p) ==
    LET r == peerRoom[p]
    IN  /\ handler[p] = "removing" /\ r # NoPeer
        /\ members' = [members EXCEPT ![r][peerId[p]] = NoPeer]
        /\ peerRoom' = [peerRoom EXCEPT ![p] = NoPeer]
        /\ IF MembersOf(r) = {p}
           THEN /\ rooms' = [rooms EXCEPT ![code[r]] = NoPeer]
                /\ UNCHANGED <<stale, sendVars>>
           ELSE /\ stale' = [stale EXCEPT ![r] = FALSE]
                /\ Notify(p, r, Note("PEER_LEFT", p))
                /\ UNCHANGED rooms
        /\ handler' = [handler EXCEPT ![p] = "closing"]
        /\ UNCHANGED <<connections, code, expired, peerId, closed, socketVars, requests, faults>>

\* p.close(), of a connection that is closed already, and the deferred
\* unregisterConnection; no thread looks at both.
HandlerEnds(p) ==
    /\ handler[p] = "closing"
    /\ closed' = [closed EXCEPT ![p] = TRUE]
    /\ handler' = [handler EXCEPT ![p] = "gone"]
    /\ connections' = Uncounted
    /\ UNCHANGED <<roomVars, peerVars, sendVars, socketVars, requests, faults>>

-----------------------------------------------------------------------------
(* readLoop: what it does with a message. *)

readRest == <<connections, handler, closed, socketVars, faults>>

\* What was read, or buffered, before the connection was closed is still handled.
Reads(p) ==
    /\ handler[p] = "reading"
    /\ requests < MaxRequests
    /\ requests' = requests + 1

\* PING, a message of an unknown type, and every request that is refused.
ReadReplies(p) ==
    /\ Reads(p)
    /\ Reply(p, "REPLY")
    /\ UNCHANGED <<readRest, roomVars, peerVars>>

\* createRoom: generateRoomCodeLocked finds a code that is not in the table.
Creates(p) ==
    /\ Reads(p)
    /\ peerRoom[p] = NoPeer
    /\ Cardinality({c \in Code : rooms[c] # NoPeer}) < MaxRooms
    /\ \E c \in Code :
         /\ rooms[c] = NoPeer
         /\ rooms' = [rooms EXCEPT ![c] = p] /\ code' = [code EXCEPT ![p] = c]
    /\ members' = [members EXCEPT ![p]["A"] = p]
    /\ stale' = [stale EXCEPT ![p] = FALSE]
    /\ peerId' = [peerId EXCEPT ![p] = "A"] /\ peerRoom' = [peerRoom EXCEPT ![p] = p]
    /\ Reply(p, "ROOM_CREATED")
    /\ UNCHANGED <<readRest, expired>>

\* A slip: a second peer is always "B".
NextPeerIdAlwaysB(r) == "B"

\* nextPeerID.
NextPeerId(r) == IF members[r]["A"] = NoPeer THEN "A" ELSE "B"

\* joinRoom, of a room that is in the table, not stale and not full.
Joins(p, c) ==
    LET r == rooms[c]
    IN  /\ Reads(p)
        /\ peerRoom[p] = NoPeer
        /\ r # NoPeer /\ ~ stale[r] /\ Cardinality(MembersOf(r)) < 2
        /\ peerId' = [peerId EXCEPT ![p] = NextPeerId(r)]
        /\ peerRoom' = [peerRoom EXCEPT ![p] = r]
        /\ members' = [members EXCEPT ![r][NextPeerId(r)] = p]
        /\ Post([q \in MembersOf(r) \cup {p} |-> IF q = p THEN Note("JOIN_OK", p)
                                                ELSE Note("PEER_JOINED", p)], {})
        /\ Owes([q \in Roommates(p, r) \cup {p} |-> IF q = p THEN Note("JOIN_OK", p)
                                                   ELSE Note("PEER_JOINED", p)])
        /\ UNCHANGED <<readRest, rooms, code, stale, expired>>

\* joinRoom of a stale room: it is taken from the table, its peers stay in it.
JoinsStale(p, c) ==
    LET r == rooms[c]
    IN  /\ Reads(p)
        /\ peerRoom[p] = NoPeer
        /\ r # NoPeer /\ stale[r]
        /\ rooms' = [rooms EXCEPT ![c] = NoPeer]
        /\ expired' = [expired EXCEPT ![r] = TRUE]
        /\ Reply(p, "REPLY")
        /\ UNCHANGED <<readRest, code, members, stale, peerVars>>

\* relayPayload of a valid payload: it goes to the other peer of the sender's room.
Relays(p) ==
    LET r == peerRoom[p]
    IN  /\ Reads(p)
        /\ r # NoPeer
        /\ stale' = [stale EXCEPT ![r] = FALSE]
        /\ Notify(p, r, Note("RELAY", p))
        /\ UNCHANGED <<readRest, rooms, code, members, expired, peerVars>>

-----------------------------------------------------------------------------
(* writeLoop, p.close() in a goroutine of its own, and the clock. *)

writeRest == <<connections, roomVars, handler, peerVars, closed, open, closer, requests>>

WriteSucceeds(p) ==
    /\ writer[p] = "running" /\ send[p] # <<>> /\ open[p]
    /\ send' = [send EXCEPT ![p] = Tail(@)]
    /\ owed' = [owed EXCEPT ![p] = IF @ = <<>> THEN @ ELSE Tail(@)]
    /\ UNCHANGED <<writeRest, writer, faults>>

\* A write fails on a connection that is closed, and when it times out (five seconds).
WriteFails(p) ==
    /\ writer[p] = "running" /\ send[p] # <<>>
    /\ \/ ~ open[p] /\ UNCHANGED faults
       \/ open[p] /\ faults < MaxFaults /\ faults' = faults + 1
    /\ send' = [send EXCEPT ![p] = Tail(@)]
    /\ writer' = [writer EXCEPT ![p] = "done"]
    /\ owed' = [owed EXCEPT ![p] = <<>>]
    /\ UNCHANGED writeRest

\* The channel is closed and drained.
WriteEnds(p) ==
    /\ writer[p] = "running" /\ send[p] = <<>> /\ closed[p]
    /\ writer' = [writer EXCEPT ![p] = "done"]
    /\ UNCHANGED <<writeRest, owed, send, faults>>

closeRest == <<connections, roomVars, handler, peerVars, send, owed, writer, requests, faults>>

\* A slip: only the channel is closed.
CloserLeavesConn(p) ==
    /\ closer[p] = "pending"
    /\ closed' = [closed EXCEPT ![p] = TRUE]
    /\ closer' = [closer EXCEPT ![p] = "done"]
    /\ UNCHANGED <<closeRest, open>>

\* p.close() of that goroutine.  It closes the connection after it has released p.mu; what
\* writeLoop may write in between it may as well write before.
Closes(p) ==
    /\ closer[p] = "pending"
    /\ closed' = [closed EXCEPT ![p] = TRUE]
    /\ open' = [open EXCEPT ![p] = FALSE]
    /\ closer' = [closer EXCEPT ![p] = "done"]
    /\ UNCHANGED closeRest

\* The TTL passes since the room was used.
GrowsStale(r) ==
    /\ ~ stale[r] /\ \E c \in Code : rooms[c] = r
    /\ stale' = [stale EXCEPT ![r] = TRUE]
    /\ UNCHANGED <<connections, rooms, code, members, expired, handler, peerVars, sendVars,
                   closed, socketVars, requests, faults>>

\* cleanupExpiredRooms: the peers of every stale room in the table are told and closed.
CleansUp ==
    LET old   == {c \in Code : rooms[c] # NoPeer /\ stale[rooms[c]]}
        peers == UNION {MembersOf(rooms[c]) : c \in old}
    IN  /\ old # {}
        /\ rooms' = [c \in Code |-> IF c \in old THEN NoPeer ELSE rooms[c]]
        /\ expired' = [r \in Peer |-> expired[r] \/ \E c \in old : rooms[c] = r]
        /\ Post([p \in peers |-> Note("ROOM_EXPIRED", p)], peers)
        /\ Owes([p \in {} |-> Note("ROOM_EXPIRED", p)])
        /\ UNCHANGED <<connections, code, members, stale, handler, peerVars, closed,
                       socketVars, requests, faults>>

-----------------------------------------------------------------------------
Handler(p) == \/ Accepts(p) \/ RemovesNothing(p) \/ RemovesPeer(p) \/ HandlerEnds(p)
Request(p) == \/ ReadReplies(p) \/ Creates(p) \/ Relays(p)
              \/ \E c \in Code : Joins(p, c) \/ JoinsStale(p, c)
Writer(p)  == WriteSucceeds(p) \/ WriteFails(p) \/ WriteEnds(p)

Next ==
    \/ \E p \in Peer : \/ Connects(p) \/ AcceptFails(p) \/ Handler(p) \/ ReadReturns(p)
                       \/ Request(p) \/ Writer(p) \/ Closes(p) \/ GrowsStale(p)
    \/ CleansUp

Spec == Init /\ [][Next]_vars

\* Goroutines keep running, and a read on a connection that was closed returns; nothing
\* makes a client send or leave.
Fairness == \A p \in Peer : /\ WF_vars(Handler(p)) /\ WF_vars(Closes(p)) /\ WF_vars(Writer(p))
                            /\ WF_vars(~ open[p] /\ ReadReturns(p))

FairSpec == Spec /\ Fairness

-----------------------------------------------------------------------------
\* Everything keeps its type; the channels never hold more than their capacity.
TypeOK ==
    /\ connections \in 0..MaxConnections
    /\ rooms \in [Code -> Peer \cup {NoPeer}] /\ code \in [Peer -> Code]
    /\ members \in [Peer -> [Id -> Peer \cup {NoPeer}]]
    /\ stale \in [Peer -> BOOLEAN] /\ expired \in [Peer -> BOOLEAN]
    /\ handler \in [Peer -> {"absent", "accepting", "reading", "removing", "closing",
                             "gone"}]
    /\ peerId \in [Peer -> Id] /\ peerRoom \in [Peer -> Peer \cup {NoPeer}]
    /\ send \in [Peer -> Seq(Message)] /\ \A p \in Peer : Len(send[p]) <= SendBuffer
    /\ closed \in [Peer -> BOOLEAN] /\ open \in [Peer -> BOOLEAN]
    /\ writer \in [Peer -> {"none", "running", "done"}]
    /\ closer \in [Peer -> {"none", "pending", "done"}]
    /\ requests \in Nat /\ faults \in Nat
    /\ owed \in [Peer -> Seq(Message)]

\* peer.room, peer.id and room.peers agree, also for rooms that left the table: a peer is
\* in its room under its own id, and a room holds only peers that know it.
PeersKnowTheirRoom ==
    \A p, r \in Peer :
        /\ peerRoom[p] = r => members[r][peerId[p]] = p
        /\ \A i \in Id : members[r][i] = p => peerRoom[p] = r /\ peerId[p] = i

\* No code leads to a room that all its peers have left (README: rooms are deleted when
\* empty), and no two codes lead to one room.
NoEmptyRoomInTable ==
    \A c \in Code : rooms[c] # NoPeer => MembersOf(rooms[c]) # {} /\ code[rooms[c]] = c

\* hub.connections counts the connections that are there, whichever way they ended.
ConnectionsCounted ==
    connections = Cardinality({p \in Peer : handler[p] \notin {"absent", "gone"}})

\* A room its peers are in can be found under its code, unless it expired, or its code had
\* belonged to a room that expired: the peers of such a room delete by code.
LiveRoomReachable ==
    \A p \in Peer :
        LET r == peerRoom[p]
        IN  r # NoPeer =>
                \/ rooms[code[r]] = r
                \/ expired[r]
                \/ \E old \in Peer \ {r} : code[old] = code[r] /\ expired[old]

\* What waits in the channel of a peer that is not being closed is exactly what it is
\* owed: all that the others in its room announced and all replies, in order, once, and
\* nothing from any other room; nothing was dropped.
NothingOwedIsLost == \A p \in Peer : Attends(p) => send[p] = owed[p]

\* A peer that is closed, because its channel was full or its room expired, comes to be
\* removed, with its goroutines ended.
ClosingEnds ==
    \A p \in Peer : closer[p] = "pending" ~> (handler[p] = "gone" /\ writer[p] = "done")
=============================================================================
