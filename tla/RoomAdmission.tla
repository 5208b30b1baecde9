---------------------------- MODULE RoomAdmission -----------------------------
(*****************************************************************************)
(* Making, finding, joining and closing a room on the LAN: the host's window *)
(* (HandleCreateRoom, HandleLeaveRoom), the SyncServer with its accepting    *)
(* thread and one thread per connection, the announcements of its port, and  *)
(* the guests that look for it. What is said in a session is the subject of  *)
(* SyncSession, the guest's threads that of ClientWorkers.                   *)
(*                                                                           *)
(* The threads of the server share the slot of the one peer and the count of *)
(* failed joins under mutex_; their steps between two lock operations are    *)
(* actions here. The handle of a connection is the connection itself. The    *)
(* far end of one may close, or vanish: then nothing arrives any more, which *)
(* recv reports once a second as a timeout, until the system gives up.       *)
(*                                                                           *)
(* Rooms are numbered, and the number stands for the code of the room; no    *)
(* two codes are alike. 0 is a code that no room has. MaxRooms bounds the    *)
(* rooms, Conn the connections at a time, MaxSilent the timeouts that are    *)
(* counted; failed_join_count_ is counted to the limit it is compared with.  *)
(*****************************************************************************)
EXTENDS Integers

CONSTANTS Conn, None,
          Ports,       \* the ports tried in order, from the preferred one
          MaxFailed,   \* kMaxFailedJoinAttempts
          MaxRooms, MaxSilent

ASSUME AdmissionAssumption ==
    /\ None \notin Conn
    /\ Ports \subseteq Nat \ {0}
    /\ MaxFailed \in Nat \ {0} /\ MaxRooms \in Nat /\ MaxSilent \in Nat

VARIABLES
    window,      \* where the host's window is in making or closing a room
    room,        \* session_code_
    port,        \* port_
    stopping,    \* stopping_
    listening,   \* listen_socket_ is open
    accepting,   \* accept_thread_ runs
    joined,      \* peer_joined_
    peer,        \* peer_socket_
    failed,      \* failed_join_count_
    announced,   \* what the announcer sends, or None
    air,         \* announcements that may still arrive
    pc,          \* each connection: the guest that looks for a room, then its thread
    code, to,    \* the code its user entered, and the port to connect to
    far,         \* its far end: "there", "closed", "vanished"
    closed,      \* how often the server closed its handle
    silent       \* timeouts of its session since its far end vanished

hostVars == <<window, room, port, stopping, listening, accepting, announced>>
slotVars == <<joined, peer, failed>>
endVars == <<code, to, far, closed, silent>>
vars == <<hostVars, slotVars, endVars, air, pc>>

Before == {"unused", "found", "backlog"}                        \* no thread yet
Running == {"hello", "join", "check", "compare", "claim", "reply", "session", "leave"}

Init ==
    /\ window = "idle" /\ room = 0 /\ port = 0
    /\ stopping = FALSE /\ listening = FALSE /\ accepting = FALSE
    /\ joined = FALSE /\ peer = None /\ failed = 0
    /\ announced = None /\ air = {}
    /\ pc = [c \in Conn |-> "unused"]
    /\ code = [c \in Conn |-> 0] /\ to = [c \in Conn |-> 0]
    /\ far = [c \in Conn |-> "there"]
    /\ closed = [c \in Conn |-> 0] /\ silent = [c \in Conn |-> 0]

Goes(c, where) == pc' = [pc EXCEPT ![c] = where]
Closes(c) == closed' = [closed EXCEPT ![c] = @ + 1]

-----------------------------------------------------------------------------
(* The host's window.                                                        *)

\* The first port is taken that is not busy.
BindListenSocket(busy) == port' \in Ports \ busy /\ \A p \in Ports \ busy : port' <= p

\* HandleCreateRoom and Start, with other programs on the ports in busy: if that is all
\* of them there is no room.
CreateRoom(busy) ==
    /\ window = "idle" /\ room < MaxRooms
    /\ room' = room + 1
    /\ stopping' = FALSE /\ joined' = FALSE /\ failed' = 0
    /\ IF busy = Ports
         THEN UNCHANGED <<window, port, listening, accepting>>
         ELSE /\ BindListenSocket(busy)
              /\ listening' = TRUE /\ accepting' = TRUE
              /\ window' = "announce"
    /\ UNCHANGED <<peer, announced, air, pc, endVars>>

\* A slip: the preferred port is announced.
AnnouncePreferred ==
    /\ window = "announce"
    /\ announced' \in {None} \cup {[code |-> room, port |-> p] : p \in {p \in Ports : \A q \in Ports : p <= q}}
    /\ window' = "hosting"
    /\ UNCHANGED <<room, port, stopping, listening, accepting, slotVars, air, pc, endVars>>

\* DiscoveryAnnouncer::Start; if it fails, the room goes on without announcements.
StartAnnouncer ==
    /\ window = "announce"
    /\ announced' \in {None, [code |-> room, port |-> port]}
    /\ window' = "hosting"
    /\ UNCHANGED <<room, port, stopping, listening, accepting, slotVars, air, pc, endVars>>

\* AnnounceLoop
Announce == /\ announced # None /\ air' = air \cup {announced}
            /\ UNCHANGED <<hostVars, slotVars, endVars, pc>>

\* HandleLeaveRoom: the announcer is stopped, then the server.
LeaveRoom ==
    /\ window = "hosting"
    /\ announced' = None /\ window' = "stop"
    /\ UNCHANGED <<room, port, stopping, listening, accepting, slotVars, air, pc, endVars>>

\* Stop: the flags, then the sockets under mutex_, then the threads.
StopSetsFlags ==
    /\ window = "stop"
    /\ stopping' = TRUE /\ window' = "close"
    /\ UNCHANGED <<room, port, listening, accepting, announced, slotVars, endVars, air, pc>>

\* A slip: the listening socket stays open.
StopKeepsListener ==
    /\ window = "close"
    /\ peer' = None /\ joined' = FALSE
    /\ closed' = [c \in Conn |-> IF c = peer THEN closed[c] + 1 ELSE closed[c]]
    /\ window' = "join accept"
    /\ UNCHANGED <<room, port, stopping, listening, accepting, announced, failed, code, to, far, silent, air, pc>>

\* Connections that wait to be accepted are reset.
StopCloses ==
    /\ window = "close"
    /\ listening' = FALSE
    /\ peer' = None /\ joined' = FALSE
    /\ closed' = [c \in Conn |-> IF c = peer THEN closed[c] + 1 ELSE closed[c]]
    /\ pc' = [c \in Conn |-> IF pc[c] = "backlog" THEN "refused" ELSE pc[c]]
    /\ window' = "join accept"
    /\ UNCHANGED <<room, port, stopping, accepting, announced, failed, code, to, far, silent, air>>

StopJoinsAccept ==
    /\ window = "join accept" /\ ~accepting
    /\ window' = "join clients"
    /\ UNCHANGED <<room, port, stopping, listening, accepting, announced, slotVars, endVars, air, pc>>

\* A slip: the threads of the connections are left to themselves.
StopJoinsNobody ==
    /\ window = "join clients"
    /\ window' = "idle"
    /\ UNCHANGED <<room, port, stopping, listening, accepting, announced, slotVars, endVars, air, pc>>

StopJoinsClients ==
    /\ window = "join clients" /\ \A c \in Conn : pc[c] \notin Running
    /\ window' = "idle"
    /\ UNCHANGED <<room, port, stopping, listening, accepting, announced, slotVars, endVars, air, pc>>

Stop == StopSetsFlags \/ StopCloses \/ StopJoinsAccept \/ StopJoinsClients

-----------------------------------------------------------------------------
(* The accepting thread.                                                     *)

\* AcceptLoop tests stopping_ again after each connection.
Accept(c) == /\ accepting /\ listening /\ pc[c] = "backlog"
             /\ Goes(c, "hello") /\ accepting' = ~stopping
             /\ UNCHANGED <<window, room, port, stopping, listening, announced, slotVars, endVars, air>>

\* A connection that is gone before it was accepted makes accept fail, and the loop ends:
\* the room stays open and announced, and nobody is admitted any more.
AcceptFails(c) == /\ accepting /\ listening /\ pc[c] = "backlog" /\ far[c] = "closed"
                  /\ Goes(c, "refused") /\ accepting' = FALSE
                  /\ UNCHANGED <<window, room, port, stopping, listening, announced, slotVars, endVars, air>>

AcceptEnds == /\ accepting /\ ~listening
              /\ accepting' = FALSE
              /\ UNCHANGED <<window, room, port, stopping, listening, announced, slotVars, endVars, air, pc>>

-----------------------------------------------------------------------------
(* HandleClient, the thread of a connection.                                 *)

\* ReceiveProtocolMessageWithin: what is expected arrives, or within five seconds there
\* is something else, the end of the stream, or nothing.
Arrives(c) ==
    /\ far[c] = "there"
    /\ \/ pc[c] = "hello" /\ Goes(c, "join")
       \/ pc[c] = "join" /\ Goes(c, "check")
    /\ UNCHANGED <<hostVars, slotVars, endVars, air>>

\* RegisterJoinFailure, SendJoinFail and the end of the connection.
Fails(c) == failed' = (IF failed < MaxFailed THEN failed + 1 ELSE failed) /\ Goes(c, "done") /\ Closes(c)
Refuses(c) == UNCHANGED failed /\ Goes(c, "done") /\ Closes(c)

HandshakeFails(c) ==
    /\ pc[c] \in {"hello", "join"} /\ Fails(c)
    /\ UNCHANGED <<hostVars, joined, peer, code, to, far, silent, air>>

\* IsJoinBlocked
ChecksBlock(c) ==
    /\ pc[c] = "check"
    /\ IF failed >= MaxFailed THEN Refuses(c) ELSE Goes(c, "compare") /\ UNCHANGED <<failed, closed>>
    /\ UNCHANGED <<hostVars, joined, peer, code, to, far, silent, air>>

ComparesCode(c) ==
    /\ pc[c] = "compare"
    /\ IF code[c] # room THEN Fails(c) ELSE Goes(c, "claim") /\ UNCHANGED <<failed, closed>>
    /\ UNCHANGED <<hostVars, joined, peer, code, to, far, silent, air>>

\* A slip: the slot is given to everyone.
ClaimsTakenSlot(c) ==
    /\ pc[c] = "claim"
    /\ joined' = TRUE /\ peer' = c /\ Goes(c, "reply")
    /\ UNCHANGED <<hostVars, failed, endVars, air>>

ClaimsSlot(c) ==
    /\ pc[c] = "claim"
    /\ IF joined THEN Refuses(c) /\ UNCHANGED <<joined, peer>>
                 ELSE joined' = TRUE /\ peer' = c /\ Goes(c, "reply") /\ UNCHANGED <<failed, closed>>
    /\ UNCHANGED <<hostVars, code, to, far, silent, air>>

SendsJoinOk(c) ==
    /\ pc[c] = "reply" /\ Goes(c, "session")
    /\ UNCHANGED <<hostVars, slotVars, endVars, air>>

\* JOIN_OK cannot be sent: whatever peer_socket_ is now is closed, and the slot is free.
JoinOkFails(c) ==
    /\ pc[c] = "reply" /\ Goes(c, "done")
    /\ closed' = [d \in Conn |-> IF d = peer THEN closed[d] + 1 ELSE closed[d]]
    /\ peer' = None /\ joined' = FALSE
    /\ UNCHANGED <<hostVars, failed, code, to, far, silent, air>>

\* The loop ends: the far end is gone, a reply cannot be sent, Stop closed the socket or
\* set stopping_. While the far end has merely vanished, there is nothing to reply to.
SessionEnds(c) ==
    /\ pc[c] = "session"
    /\ far[c] # "vanished" \/ stopping
    /\ Goes(c, "leave")
    /\ UNCHANGED <<hostVars, slotVars, endVars, air>>

SessionTimesOut(c) ==
    /\ pc[c] = "session" /\ far[c] = "vanished" /\ ~stopping
    /\ silent[c] < MaxSilent /\ silent' = [silent EXCEPT ![c] = @ + 1]
    /\ UNCHANGED <<hostVars, slotVars, code, to, far, closed, air, pc>>

\* A slip: the slot is freed and the handle closed without looking whose they are.
LeavesBlindly(c) ==
    /\ pc[c] = "leave" /\ Goes(c, "done")
    /\ peer' = None /\ joined' = FALSE /\ Closes(c)
    /\ UNCHANGED <<hostVars, failed, code, to, far, silent, air>>

\* After the loop: who is no longer in the slot was closed by Stop.
SessionLeaves(c) ==
    /\ pc[c] = "leave" /\ Goes(c, "done")
    /\ IF peer = c THEN peer' = None /\ joined' = FALSE /\ Closes(c)
                   ELSE UNCHANGED <<peer, joined, closed>>
    /\ UNCHANGED <<hostVars, failed, code, to, far, silent, air>>

Thread(c) == \/ Arrives(c) \/ HandshakeFails(c) \/ ChecksBlock(c) \/ ComparesCode(c) \/ ClaimsSlot(c)
             \/ SendsJoinOk(c) \/ JoinOkFails(c)
             \/ SessionEnds(c) \/ SessionTimesOut(c) \/ SessionLeaves(c)

-----------------------------------------------------------------------------
(* The guests and the network.                                               *)

\* HandleJoinRoom: the user enters a code and, unless it is found, a port.
LooksFor(c, k, p) ==
    /\ pc[c] = "unused" /\ Goes(c, "found")
    /\ code' = [code EXCEPT ![c] = k] /\ to' = [to EXCEPT ![c] = p]
    /\ UNCHANGED <<hostVars, slotVars, far, closed, silent, air>>

\* DiscoveryClient::Find takes the first announcement of the code, which may be an old one.
Finds(c) == \E d \in air : LooksFor(c, d.code, d.port)

\* A slip: the number typed is not checked.
TypesAnyPort(c) == \E k \in 0..room, p \in Ports \cup {65536} : LooksFor(c, k, p)

TypesPort(c) == \E k \in 0..room, p \in Ports : LooksFor(c, k, p)

Connects(c) ==
    /\ pc[c] = "found"
    /\ Goes(c, IF listening /\ to[c] = port THEN "backlog" ELSE "refused")
    /\ to' = [to EXCEPT ![c] = 0]
    /\ UNCHANGED <<hostVars, slotVars, code, far, closed, silent, air>>

FarEnds(c) ==
    /\ pc[c] \in {"backlog"} \cup Running
    /\ \/ far[c] = "there" /\ far' = [far EXCEPT ![c] = "vanished"]
       \/ far[c] # "closed" /\ far' = [far EXCEPT ![c] = "closed"]
    /\ UNCHANGED <<hostVars, slotVars, code, to, closed, silent, air, pc>>

\* Another guest, or the same one again.
Again(c) ==
    /\ pc[c] \in {"refused", "done"} /\ Goes(c, "unused")
    /\ code' = [code EXCEPT ![c] = 0]
    /\ far' = [far EXCEPT ![c] = "there"]
    /\ closed' = [closed EXCEPT ![c] = 0] /\ silent' = [silent EXCEPT ![c] = 0]
    /\ UNCHANGED <<hostVars, slotVars, to, air>>

Next ==
    \/ \E busy \in SUBSET Ports : CreateRoom(busy)
    \/ StartAnnouncer \/ Announce \/ LeaveRoom \/ Stop
    \/ AcceptEnds
    \/ \E c \in Conn : Accept(c) \/ AcceptFails(c) \/ Thread(c)
    \/ \E c \in Conn : Finds(c) \/ TypesPort(c) \/ Connects(c) \/ FarEnds(c) \/ Again(c)

Spec == Init /\ [][Next]_vars

\* Threads run on, a call of recv or send returns within a second and a handshake is
\* given up after five.
FairSpec == Spec /\ WF_vars(Stop) /\ WF_vars(AcceptEnds) /\ \A c \in Conn : WF_vars(Thread(c))

-----------------------------------------------------------------------------
(* Properties.                                                               *)

Announcement == [code : 1..MaxRooms, port : Ports]

TypeOK ==
    /\ window \in {"idle", "announce", "hosting", "stop", "close", "join accept", "join clients"}
    /\ room \in 0..MaxRooms /\ port \in {0} \cup Ports
    /\ {stopping, listening, accepting, joined} \subseteq BOOLEAN
    /\ peer \in Conn \cup {None} /\ failed \in 0..MaxFailed
    /\ announced \in {None} \cup Announcement /\ air \subseteq Announcement
    /\ pc \in [Conn -> Before \cup Running \cup {"refused", "done"}]
    /\ code \in [Conn -> 0..MaxRooms] /\ to \in [Conn -> {0} \cup Ports]
    /\ far \in [Conn -> {"there", "closed", "vanished"}]
    /\ closed \in [Conn -> Nat] /\ silent \in [Conn -> 0..MaxSilent]

\* The slot is taken exactly as long as a thread serves the peer in it: never two guests
\* at once, and no slot that stays taken after its guest left, whatever order sessions
\* end, joins and Stop come in (every later join would be answered room_full).
SlotFollowsSession ==
    /\ joined <=> peer # None
    /\ peer # None => pc[peer] \in {"reply", "session", "leave"}
    /\ \A c \in Conn : pc[c] \in {"reply", "session", "leave"} /\ c # peer => stopping

\* The handle of a connection is closed once, by its thread or by Stop: closed a second
\* time it could be another connection's by then; and none is left open.
HandlesClosedOnce ==
    \A c \in Conn : closed[c] <= 1 /\ (pc[c] = "done" => closed[c] = 1)

\* Who is in a session entered the code of the room that is open, also when the guest
\* found the port of an earlier room and threads outlast the room they began in.
AdmittedKnowsCode ==
    \A c \in Conn : pc[c] \in {"claim", "reply", "session"} => code[c] = room

\* An announcement of the open room leads to its server.
AnnouncedIsOpen ==
    \A d \in air : d.code = room /\ window = "hosting" => d.port = port /\ listening

\* Closing the room ends: no thread waits for one that waits for it.
StopEnds == window = "stop" ~> window = "idle"

\* docs/07-networking.md:143: a peer is taken for lost after fifteen seconds of silence.
SilentPeerIsDropped == \A c \in Conn : pc[c] = "session" => silent[c] < MaxSilent
=============================================================================
