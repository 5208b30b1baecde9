--------------------------- MODULE ConnectionProofs ---------------------------
(***************************************************************************)
(* The connections of a host, for any number of peers, ports, rooms and    *)
(* messages. RoomAdmission: the slot of the one peer, the handles of the   *)
(* connections, the code of the room and what is announced stay in step.   *)
(* FrameStream: DeserializeMessage reads what SerializeMessage writes, and *)
(* a frame that was cut is never taken for a message.                      *)
(***************************************************************************)
EXTENDS RoomAdmission, FrameStream, EditorDiffProofs

Early == {"unused", "found", "backlog", "refused", "hello", "join", "check", "compare", "claim"}
Peering == {"reply", "session", "leave"}

\* TypeOK by its parts.
HostTypes ==
    /\ window \in {"idle", "announce", "hosting", "stop", "close", "join accept", "join clients"}
    /\ room \in 0..MaxRooms /\ port \in {0} \cup Ports
    /\ announced \in {None} \cup Announcement /\ air \subseteq Announcement

FlagTypes == stopping \in BOOLEAN /\ listening \in BOOLEAN /\ accepting \in BOOLEAN /\ joined \in BOOLEAN

ConnTypes ==
    /\ peer \in Conn \cup {None} /\ failed \in 0..MaxFailed
    /\ pc \in [Conn -> Early \cup Peering \cup {"done"}]
    /\ code \in [Conn -> 0..MaxRooms] /\ to \in [Conn -> {0} \cup Ports]
    /\ far \in [Conn -> {"there", "closed", "vanished"}]
    /\ closed \in [Conn -> Nat] /\ silent \in [Conn -> 0..MaxSilent]

\* What each stage of making and closing a room has behind it.
StageOK ==
    /\ listening => window \in {"announce", "hosting", "stop", "close"}
    /\ window \in {"announce", "hosting", "stop", "close"} => listening
    /\ accepting => window \notin {"idle", "join clients"}
    /\ window \in {"close", "join accept", "join clients"} => stopping
    /\ window # "idle" => room \in 1..MaxRooms /\ port \in Ports
    /\ window = "idle" => \A c \in Conn : pc[c] \notin Running

\* The handle of a connection is open up to the end of its session, unless Stop or the
\* thread of another one closed it with the slot.
HandlesOK ==
    \A c \in Conn :
        /\ pc[c] \in Early => closed[c] = 0
        /\ pc[c] \in Peering => closed[c] = IF peer = c THEN 0 ELSE 1
        /\ pc[c] = "done" => closed[c] = 1

\* An announcement tells the port of the latest room, or an earlier room.
AirOK ==
    /\ \A d \in air : d.code <= room /\ (d.code = room => d.port = port)
    /\ announced # None => window = "hosting" /\ announced = [code |-> room, port |-> port]

\* The inductive invariant.
IInv == HostTypes /\ FlagTypes /\ ConnTypes /\ StageOK /\ SlotFollowsSession /\ HandlesOK
        /\ AdmittedKnowsCode /\ AirOK

LEMMA InitEstablishes == Init => IInv
<1> SUFFICES ASSUME Init PROVE IInv
  OBVIOUS
<1>1. HostTypes
  BY AdmissionAssumption DEF Init, HostTypes
<1>2. FlagTypes
  BY DEF Init, FlagTypes
<1>3. ConnTypes
  BY AdmissionAssumption DEF Init, ConnTypes, Early
<1>4. StageOK
  BY DEF Init, StageOK, Running
<1>5. SlotFollowsSession
  BY AdmissionAssumption DEF Init, SlotFollowsSession
<1>6. HandlesOK
  BY DEF Init, HandlesOK, Peering
<1>7. AdmittedKnowsCode
  BY DEF Init, AdmittedKnowsCode
<1>8. AirOK
  BY DEF Init, AirOK
<1> QED BY <1>1, <1>2, <1>3, <1>4, <1>5, <1>6, <1>7, <1>8 DEF IInv

-----------------------------------------------------------------------------
(* One lemma per action.                                                     *)

LEMMA CreateRoomPreserves == \A busy \in SUBSET Ports : IInv /\ CreateRoom(busy) => IInv'
<1> SUFFICES ASSUME IInv, NEW busy \in SUBSET Ports, CreateRoom(busy) PROVE IInv'
  OBVIOUS
<1> USE DEF hostVars, slotVars, endVars
<1>1. /\ window = "idle" /\ room' = room + 1 /\ room < MaxRooms /\ room \in Nat /\ failed' = 0
      /\ joined' = FALSE /\ stopping' = FALSE
      /\ UNCHANGED <<peer, announced, air, pc, endVars>>
  BY DEF CreateRoom, IInv, HostTypes
<1>2. \/ UNCHANGED <<window, port, listening, accepting>>
      \/ port' \in Ports /\ listening' = TRUE /\ accepting' = TRUE /\ window' = "announce"
  BY DEF CreateRoom, BindListenSocket
<1>3. \A c \in Conn : pc[c] \notin Running
  BY <1>1 DEF IInv, StageOK
<1>4. peer = None /\ announced = None
  BY <1>1, <1>3 DEF IInv, AirOK, SlotFollowsSession, ConnTypes, Running
<1>5. room' \in 1..MaxRooms
  BY <1>1, AdmissionAssumption
<1>6. HostTypes'
  <2>1. room' \in 0..MaxRooms
    BY <1>5
  <2> HIDE DEF Announcement
  <2> QED BY <1>1, <1>2, <2>1 DEF IInv, HostTypes
<1>7. FlagTypes'
  BY <1>1, <1>2, <1>3, <1>4, <1>5 DEF IInv, FlagTypes
<1>8. ConnTypes'
  BY <1>1, <1>2, <1>3, <1>4, <1>5, AdmissionAssumption DEF IInv, ConnTypes
<1>9. StageOK'
  <2>1. CASE UNCHANGED <<window, port, listening, accepting>>
    BY <1>1, <2>1 DEF IInv, StageOK
  <2>2. CASE ~ UNCHANGED <<window, port, listening, accepting>>
    BY <1>1, <1>2, <1>5, <2>2 DEF IInv, StageOK
  <2> QED BY <2>1, <2>2
<1>10. SlotFollowsSession'
  BY <1>1, <1>2, <1>3, <1>4, <1>5 DEF IInv, SlotFollowsSession, Running
<1>11. HandlesOK'
  BY <1>1, <1>2, <1>3, <1>4, <1>5 DEF IInv, HandlesOK
<1>12. AdmittedKnowsCode'
  BY <1>1, <1>2, <1>3, <1>4, <1>5 DEF IInv, AdmittedKnowsCode, Running
<1>13. AirOK'
  BY <1>1, <1>2, <1>3, <1>4, <1>5 DEF IInv, AirOK, HostTypes, Announcement
<1> QED BY <1>6, <1>7, <1>8, <1>9, <1>10, <1>11, <1>12, <1>13 DEF IInv

LEMMA StartAnnouncerPreserves == IInv /\ StartAnnouncer => IInv'
<1> SUFFICES ASSUME IInv, StartAnnouncer PROVE IInv'
  OBVIOUS
<1> USE DEF hostVars, slotVars, endVars
<1>1. window = "announce" /\ window' = "hosting" /\ announced' \in {None, [code |-> room, port |-> port]}
      /\ UNCHANGED <<room, port, stopping, listening, accepting, slotVars, air, pc, endVars>>
  BY DEF StartAnnouncer
<1>2. room \in 1..MaxRooms /\ port \in Ports
  BY <1>1 DEF IInv, StageOK
<1>3. HostTypes'
  BY <1>1, <1>2 DEF IInv, HostTypes, Announcement
<1>4. FlagTypes'
  BY <1>1, <1>2 DEF IInv, FlagTypes
<1>5. ConnTypes'
  BY <1>1, <1>2 DEF IInv, ConnTypes
<1>6. StageOK'
  BY <1>1, <1>2 DEF IInv, StageOK, Running
<1>7. SlotFollowsSession'
  BY <1>1, <1>2 DEF IInv, SlotFollowsSession
<1>8. HandlesOK'
  BY <1>1, <1>2 DEF IInv, HandlesOK
<1>9. AdmittedKnowsCode'
  BY <1>1, <1>2 DEF IInv, AdmittedKnowsCode
<1>10. AirOK'
  BY <1>1, <1>2 DEF IInv, AirOK
<1> QED BY <1>3, <1>4, <1>5, <1>6, <1>7, <1>8, <1>9, <1>10 DEF IInv

LEMMA AnnouncePreserves == IInv /\ Announce => IInv'
<1> SUFFICES ASSUME IInv, Announce PROVE IInv'
  OBVIOUS
<1> USE DEF hostVars, slotVars, endVars
<1>1. air' = air \cup {announced} /\ announced # None /\ UNCHANGED <<hostVars, slotVars, endVars, pc>>
  BY DEF Announce
<1>2. announced = [code |-> room, port |-> port] /\ room \in Int
  BY <1>1 DEF IInv, AirOK, HostTypes
<1>3. announced.code = room /\ announced.port = port
  BY <1>2
<1>4. HostTypes'
  BY <1>1, <1>2, <1>3 DEF IInv, HostTypes
<1>5. FlagTypes'
  BY <1>1, <1>2, <1>3 DEF IInv, FlagTypes
<1>6. ConnTypes'
  BY <1>1, <1>2, <1>3 DEF IInv, ConnTypes
<1>7. StageOK'
  BY <1>1, <1>2, <1>3 DEF IInv, StageOK, Running
<1>8. SlotFollowsSession'
  BY <1>1, <1>2, <1>3 DEF IInv, SlotFollowsSession
<1>9. HandlesOK'
  BY <1>1, <1>2, <1>3 DEF IInv, HandlesOK
<1>10. AdmittedKnowsCode'
  BY <1>1, <1>2, <1>3 DEF IInv, AdmittedKnowsCode
<1>11. AirOK'
  BY <1>1, <1>2, <1>3 DEF IInv, AirOK
<1> QED BY <1>4, <1>5, <1>6, <1>7, <1>8, <1>9, <1>10, <1>11 DEF IInv

LEMMA LeaveRoomPreserves == IInv /\ LeaveRoom => IInv'
<1> SUFFICES ASSUME IInv, LeaveRoom PROVE IInv'
  OBVIOUS
<1> USE DEF hostVars, slotVars, endVars
<1>1. window = "hosting" /\ announced' = None /\ window' = "stop"
      /\ UNCHANGED <<room, port, stopping, listening, accepting, slotVars, air, pc, endVars>>
  BY DEF LeaveRoom
<1>2. HostTypes'
  BY <1>1 DEF IInv, HostTypes
<1>3. FlagTypes'
  BY <1>1 DEF IInv, FlagTypes
<1>4. ConnTypes'
  BY <1>1 DEF IInv, ConnTypes
<1>5. StageOK'
  BY <1>1 DEF IInv, StageOK, Running
<1>6. SlotFollowsSession'
  BY <1>1 DEF IInv, SlotFollowsSession
<1>7. HandlesOK'
  BY <1>1 DEF IInv, HandlesOK
<1>8. AdmittedKnowsCode'
  BY <1>1 DEF IInv, AdmittedKnowsCode
<1>9. AirOK'
  BY <1>1 DEF IInv, AirOK
<1> QED BY <1>2, <1>3, <1>4, <1>5, <1>6, <1>7, <1>8, <1>9 DEF IInv

LEMMA StopSetsFlagsPreserves == IInv /\ StopSetsFlags => IInv'
<1> SUFFICES ASSUME IInv, StopSetsFlags PROVE IInv'
  OBVIOUS
<1> USE DEF hostVars, slotVars, endVars
<1>1. window = "stop" /\ stopping' = TRUE /\ window' = "close"
      /\ UNCHANGED <<room, port, listening, accepting, announced, slotVars, endVars, air, pc>>
  BY DEF StopSetsFlags
<1>2. HostTypes'
  BY <1>1 DEF IInv, HostTypes
<1>3. FlagTypes'
  BY <1>1 DEF IInv, FlagTypes
<1>4. ConnTypes'
  BY <1>1 DEF IInv, ConnTypes
<1>5. StageOK'
  BY <1>1 DEF IInv, StageOK, Running
<1>6. SlotFollowsSession'
  BY <1>1 DEF IInv, SlotFollowsSession
<1>7. HandlesOK'
  BY <1>1 DEF IInv, HandlesOK
<1>8. AdmittedKnowsCode'
  BY <1>1 DEF IInv, AdmittedKnowsCode
<1>9. AirOK'
  BY <1>1 DEF IInv, AirOK
<1> QED BY <1>2, <1>3, <1>4, <1>5, <1>6, <1>7, <1>8, <1>9 DEF IInv

LEMMA StopClosesPreserves == IInv /\ StopCloses => IInv'
<1> SUFFICES ASSUME IInv, StopCloses PROVE IInv'
  OBVIOUS
<1> USE DEF hostVars, slotVars, endVars
<1>1. /\ window = "close" /\ listening' = FALSE /\ peer' = None /\ joined' = FALSE /\ window' = "join accept"
      /\ UNCHANGED <<room, port, stopping, accepting, announced, failed, code, to, far, silent, air>>
  BY DEF StopCloses
<1>2. stopping
  BY <1>1 DEF IInv, StageOK
<1>3. /\ closed' = [c \in Conn |-> IF c = peer THEN closed[c] + 1 ELSE closed[c]]
      /\ pc' = [c \in Conn |-> IF pc[c] = "backlog" THEN "refused" ELSE pc[c]]
  BY DEF StopCloses
<1>4. \A c \in Conn : pc[c] \in Early \cup Peering \cup {"done"} /\ closed[c] \in Nat
  BY DEF IInv, ConnTypes
<1>5. pc' \in [Conn -> Early \cup Peering \cup {"done"}]
  BY <1>3, <1>4 DEF Early
<1>6. closed' \in [Conn -> Nat]
  BY <1>3, <1>4
<1>7. \A c \in Conn : /\ pc'[c] \in Early => pc[c] \in Early
                      /\ pc'[c] \notin Early => pc'[c] = pc[c]
                      /\ closed'[c] = IF c = peer THEN closed[c] + 1 ELSE closed[c]
  BY <1>3 DEF Early
<1>8. peer # None => peer \in Conn /\ pc[peer] \in Peering
  BY DEF IInv, SlotFollowsSession, ConnTypes, Peering
<1>9. None \notin Conn /\ Early \cap Peering = {} /\ "done" \notin Early \cup Peering
  BY AdmissionAssumption DEF Early, Peering
<1>10. HostTypes'
  BY <1>1, <1>2, <1>3, <1>4, <1>5, <1>6, <1>7, <1>8, <1>9 DEF IInv, HostTypes
<1>11. FlagTypes'
  BY <1>1, <1>2, <1>3, <1>4, <1>5, <1>6, <1>7, <1>8, <1>9 DEF IInv, FlagTypes
<1>12. ConnTypes'
  BY <1>1, <1>2, <1>3, <1>4, <1>5, <1>6, <1>7, <1>8, <1>9, AdmissionAssumption DEF IInv, ConnTypes
<1>13. StageOK'
  BY <1>1, <1>2, <1>3, <1>4, <1>5, <1>6, <1>7, <1>8, <1>9 DEF IInv, StageOK, Running
<1>14. SlotFollowsSession'
  BY <1>1, <1>2, <1>3, <1>4, <1>5, <1>6, <1>7, <1>8, <1>9, AdmissionAssumption DEF IInv, SlotFollowsSession
<1>15. HandlesOK'
  <2> SUFFICES ASSUME NEW c \in Conn
               PROVE  /\ pc'[c] \in Early => closed'[c] = 0
                      /\ pc'[c] \in Peering => closed'[c] = 1
                      /\ pc'[c] = "done" => closed'[c] = 1
    BY <1>1, <1>9 DEF HandlesOK
  <2>1. /\ pc[c] \in Early => closed[c] = 0
        /\ pc[c] \in Peering => closed[c] = IF peer = c THEN 0 ELSE 1
        /\ pc[c] = "done" => closed[c] = 1
    BY DEF IInv, HandlesOK
  <2>2. /\ pc'[c] \in Early => pc[c] \in Early
        /\ pc'[c] \notin Early => pc'[c] = pc[c]
        /\ closed'[c] = IF c = peer THEN closed[c] + 1 ELSE closed[c]
    BY <1>7
  <2>3. CASE c = peer
    <3>1. pc[c] \in Peering /\ closed[c] = 0 /\ closed'[c] = 1
      BY <1>8, <1>9, <2>1, <2>2, <2>3
    <3> QED BY <1>9, <2>2, <3>1
  <2>4. CASE c # peer
    BY <1>9, <2>1, <2>2, <2>4
  <2> QED BY <2>3, <2>4
<1>16. AdmittedKnowsCode'
  BY <1>1, <1>2, <1>3, <1>4, <1>5, <1>6, <1>7, <1>8, <1>9 DEF IInv, AdmittedKnowsCode
<1>17. AirOK'
  BY <1>1, <1>2, <1>3, <1>4, <1>5, <1>6, <1>7, <1>8, <1>9 DEF IInv, AirOK
<1> QED BY <1>10, <1>11, <1>12, <1>13, <1>14, <1>15, <1>16, <1>17 DEF IInv

LEMMA StopJoinsAcceptPreserves == IInv /\ StopJoinsAccept => IInv'
<1> SUFFICES ASSUME IInv, StopJoinsAccept PROVE IInv'
  OBVIOUS
<1> USE DEF hostVars, slotVars, endVars
<1>1. window = "join accept" /\ ~ accepting /\ window' = "join clients"
      /\ UNCHANGED <<room, port, stopping, listening, accepting, announced, slotVars, endVars, air, pc>>
  BY DEF StopJoinsAccept
<1>2. HostTypes'
  BY <1>1 DEF IInv, HostTypes
<1>3. FlagTypes'
  BY <1>1 DEF IInv, FlagTypes
<1>4. ConnTypes'
  BY <1>1 DEF IInv, ConnTypes
<1>5. StageOK'
  BY <1>1 DEF IInv, StageOK, Running
<1>6. SlotFollowsSession'
  BY <1>1 DEF IInv, SlotFollowsSession
<1>7. HandlesOK'
  BY <1>1 DEF IInv, HandlesOK
<1>8. AdmittedKnowsCode'
  BY <1>1 DEF IInv, AdmittedKnowsCode
<1>9. AirOK'
  BY <1>1 DEF IInv, AirOK
<1> QED BY <1>2, <1>3, <1>4, <1>5, <1>6, <1>7, <1>8, <1>9 DEF IInv

LEMMA StopJoinsClientsPreserves == IInv /\ StopJoinsClients => IInv'
<1> SUFFICES ASSUME IInv, StopJoinsClients PROVE IInv'
  OBVIOUS
<1> USE DEF hostVars, slotVars, endVars
<1>1. window = "join clients" /\ window' = "idle" /\ (\A c \in Conn : pc[c] \notin Running)
      /\ UNCHANGED <<room, port, stopping, listening, accepting, announced, slotVars, endVars, air, pc>>
  BY DEF StopJoinsClients
<1>2. HostTypes'
  BY <1>1 DEF IInv, HostTypes
<1>3. FlagTypes'
  BY <1>1 DEF IInv, FlagTypes
<1>4. ConnTypes'
  BY <1>1 DEF IInv, ConnTypes
<1>5. StageOK'
  BY <1>1 DEF IInv, StageOK, Running
<1>6. SlotFollowsSession'
  BY <1>1 DEF IInv, SlotFollowsSession
<1>7. HandlesOK'
  BY <1>1 DEF IInv, HandlesOK
<1>8. AdmittedKnowsCode'
  BY <1>1 DEF IInv, AdmittedKnowsCode
<1>9. AirOK'
  BY <1>1 DEF IInv, AirOK
<1> QED BY <1>2, <1>3, <1>4, <1>5, <1>6, <1>7, <1>8, <1>9 DEF IInv

LEMMA AcceptEndsPreserves == IInv /\ AcceptEnds => IInv'
<1> SUFFICES ASSUME IInv, AcceptEnds PROVE IInv'
  OBVIOUS
<1> USE DEF hostVars, slotVars, endVars
<1>1. ~ listening /\ accepting' = FALSE
      /\ UNCHANGED <<window, room, port, stopping, listening, announced, slotVars, endVars, air, pc>>
  BY DEF AcceptEnds
<1>2. HostTypes'
  BY <1>1 DEF IInv, HostTypes
<1>3. FlagTypes'
  BY <1>1 DEF IInv, FlagTypes
<1>4. ConnTypes'
  BY <1>1 DEF IInv, ConnTypes
<1>5. StageOK'
  BY <1>1 DEF IInv, StageOK, Running
<1>6. SlotFollowsSession'
  BY <1>1 DEF IInv, SlotFollowsSession
<1>7. HandlesOK'
  BY <1>1 DEF IInv, HandlesOK
<1>8. AdmittedKnowsCode'
  BY <1>1 DEF IInv, AdmittedKnowsCode
<1>9. AirOK'
  BY <1>1 DEF IInv, AirOK
<1> QED BY <1>2, <1>3, <1>4, <1>5, <1>6, <1>7, <1>8, <1>9 DEF IInv

LEMMA AcceptPreserves == \A c \in Conn : IInv /\ Accept(c) => IInv'
<1> SUFFICES ASSUME IInv, NEW c \in Conn, Accept(c) PROVE IInv'
  OBVIOUS
<1> USE DEF hostVars, slotVars, endVars
<1>1. /\ accepting /\ pc[c] = "backlog" /\ pc' = [pc EXCEPT ![c] = "hello"] /\ accepting' \in BOOLEAN
      /\ UNCHANGED <<window, room, port, stopping, listening, announced, slotVars, endVars, air>>
  BY DEF Accept, Goes
<1>2. HostTypes'
  BY <1>1 DEF IInv, HostTypes
<1>3. FlagTypes'
  BY <1>1 DEF IInv, FlagTypes
<1>4. ConnTypes'
  BY <1>1, AdmissionAssumption DEF IInv, ConnTypes, Early, Peering
<1>5. StageOK'
  BY <1>1 DEF IInv, StageOK, Running, ConnTypes
<1>6. SlotFollowsSession'
  BY <1>1 DEF IInv, SlotFollowsSession, ConnTypes
<1>7. HandlesOK'
  BY <1>1 DEF IInv, HandlesOK, ConnTypes, Early, Peering
<1>8. AdmittedKnowsCode'
  BY <1>1 DEF IInv, AdmittedKnowsCode, ConnTypes
<1>9. AirOK'
  BY <1>1 DEF IInv, AirOK
<1> QED BY <1>2, <1>3, <1>4, <1>5, <1>6, <1>7, <1>8, <1>9 DEF IInv

LEMMA AcceptFailsPreserves == \A c \in Conn : IInv /\ AcceptFails(c) => IInv'
<1> SUFFICES ASSUME IInv, NEW c \in Conn, AcceptFails(c) PROVE IInv'
  OBVIOUS
<1> USE DEF hostVars, slotVars, endVars
<1>1. /\ pc[c] = "backlog" /\ pc' = [pc EXCEPT ![c] = "refused"] /\ accepting' = FALSE
      /\ UNCHANGED <<window, room, port, stopping, listening, announced, slotVars, endVars, air>>
  BY DEF AcceptFails, Goes
<1>2. HostTypes'
  BY <1>1 DEF IInv, HostTypes
<1>3. FlagTypes'
  BY <1>1 DEF IInv, FlagTypes
<1>4. ConnTypes'
  BY <1>1, AdmissionAssumption DEF IInv, ConnTypes, Early, Peering
<1>5. StageOK'
  BY <1>1 DEF IInv, StageOK, Running, ConnTypes
<1>6. SlotFollowsSession'
  BY <1>1 DEF IInv, SlotFollowsSession, ConnTypes
<1>7. HandlesOK'
  BY <1>1 DEF IInv, HandlesOK, ConnTypes, Early, Peering
<1>8. AdmittedKnowsCode'
  BY <1>1 DEF IInv, AdmittedKnowsCode, ConnTypes
<1>9. AirOK'
  BY <1>1 DEF IInv, AirOK
<1> QED BY <1>2, <1>3, <1>4, <1>5, <1>6, <1>7, <1>8, <1>9 DEF IInv

LEMMA ArrivesPreserves == \A c \in Conn : IInv /\ Arrives(c) => IInv'
<1> SUFFICES ASSUME IInv, NEW c \in Conn, Arrives(c) PROVE IInv'
  OBVIOUS
<1> USE DEF hostVars, slotVars, endVars
<1>1. /\ \/ pc[c] = "hello" /\ pc' = [pc EXCEPT ![c] = "join"]
         \/ pc[c] = "join" /\ pc' = [pc EXCEPT ![c] = "check"]
      /\ UNCHANGED <<hostVars, slotVars, endVars, air>>
  BY DEF Arrives, Goes
<1>2. window # "idle"
  BY <1>1 DEF IInv, StageOK, Running
<1>3. HostTypes'
  BY <1>1, <1>2 DEF IInv, HostTypes
<1>4. FlagTypes'
  BY <1>1, <1>2 DEF IInv, FlagTypes
<1>5. ConnTypes'
  BY <1>1, <1>2, AdmissionAssumption DEF IInv, ConnTypes, Early, Peering
<1>6. StageOK'
  BY <1>1, <1>2 DEF IInv, StageOK, Running, ConnTypes
<1>7. SlotFollowsSession'
  BY <1>1, <1>2 DEF IInv, SlotFollowsSession, ConnTypes
<1>8. HandlesOK'
  BY <1>1, <1>2 DEF IInv, HandlesOK, ConnTypes, Early, Peering
<1>9. AdmittedKnowsCode'
  BY <1>1, <1>2 DEF IInv, AdmittedKnowsCode, ConnTypes
<1>10. AirOK'
  BY <1>1, <1>2 DEF IInv, AirOK
<1> QED BY <1>3, <1>4, <1>5, <1>6, <1>7, <1>8, <1>9, <1>10 DEF IInv

LEMMA HandshakeFailsPreserves == \A c \in Conn : IInv /\ HandshakeFails(c) => IInv'
<1> SUFFICES ASSUME IInv, NEW c \in Conn, HandshakeFails(c) PROVE IInv'
  OBVIOUS
<1> USE DEF hostVars, slotVars, endVars
<1>1. /\ pc[c] \in {"hello", "join"} /\ pc' = [pc EXCEPT ![c] = "done"]
      /\ closed' = [closed EXCEPT ![c] = @ + 1] /\ UNCHANGED <<hostVars, joined, peer, code, to, far, silent, air>>
  BY DEF HandshakeFails, Fails, Goes, Closes
<1>2. window # "idle"
  BY <1>1 DEF IInv, StageOK, Running
<1>3. failed' \in 0..MaxFailed
  BY AdmissionAssumption DEF HandshakeFails, Fails, IInv, ConnTypes
<1>4. HostTypes'
  BY <1>1, <1>2, <1>3 DEF IInv, HostTypes
<1>5. FlagTypes'
  BY <1>1, <1>2, <1>3 DEF IInv, FlagTypes
<1>6. ConnTypes'
  BY <1>1, <1>2, <1>3, AdmissionAssumption DEF IInv, ConnTypes, Early, Peering
<1>7. StageOK'
  BY <1>1, <1>2, <1>3 DEF IInv, StageOK, Running, ConnTypes
<1>8. SlotFollowsSession'
  BY <1>1, <1>2, <1>3 DEF IInv, SlotFollowsSession, ConnTypes
<1>9. HandlesOK'
  BY <1>1, <1>2, <1>3 DEF IInv, HandlesOK, ConnTypes, Early, Peering
<1>10. AdmittedKnowsCode'
  BY <1>1, <1>2, <1>3 DEF IInv, AdmittedKnowsCode, ConnTypes
<1>11. AirOK'
  BY <1>1, <1>2, <1>3 DEF IInv, AirOK
<1> QED BY <1>4, <1>5, <1>6, <1>7, <1>8, <1>9, <1>10, <1>11 DEF IInv

LEMMA ChecksBlockPreserves == \A c \in Conn : IInv /\ ChecksBlock(c) => IInv'
<1> SUFFICES ASSUME IInv, NEW c \in Conn, ChecksBlock(c) PROVE IInv'
  OBVIOUS
<1> USE DEF hostVars, slotVars, endVars
<1>1. /\ pc[c] = "check" /\ failed' = failed
      /\ \/ pc' = [pc EXCEPT ![c] = "done"] /\ closed' = [closed EXCEPT ![c] = @ + 1]
         \/ pc' = [pc EXCEPT ![c] = "compare"] /\ closed' = closed
      /\ UNCHANGED <<hostVars, joined, peer, code, to, far, silent, air>>
  BY DEF ChecksBlock, Refuses, Goes, Closes
<1>2. window # "idle"
  BY <1>1 DEF IInv, StageOK, Running
<1>3. HostTypes'
  BY <1>1, <1>2 DEF IInv, HostTypes
<1>4. FlagTypes'
  BY <1>1, <1>2 DEF IInv, FlagTypes
<1>5. ConnTypes'
  BY <1>1, <1>2, AdmissionAssumption DEF IInv, ConnTypes, Early, Peering
<1>6. StageOK'
  BY <1>1, <1>2 DEF IInv, StageOK, Running, ConnTypes
<1>7. SlotFollowsSession'
  BY <1>1, <1>2 DEF IInv, SlotFollowsSession, ConnTypes
<1>8. HandlesOK'
  BY <1>1, <1>2 DEF IInv, HandlesOK, ConnTypes, Early, Peering
<1>9. AdmittedKnowsCode'
  BY <1>1, <1>2 DEF IInv, AdmittedKnowsCode, ConnTypes
<1>10. AirOK'
  BY <1>1, <1>2 DEF IInv, AirOK
<1> QED BY <1>3, <1>4, <1>5, <1>6, <1>7, <1>8, <1>9, <1>10 DEF IInv

LEMMA ComparesCodePreserves == \A c \in Conn : IInv /\ ComparesCode(c) => IInv'
<1> SUFFICES ASSUME IInv, NEW c \in Conn, ComparesCode(c) PROVE IInv'
  OBVIOUS
<1> USE DEF hostVars, slotVars, endVars
<1>1. /\ pc[c] = "compare"
      /\ \/ pc' = [pc EXCEPT ![c] = "done"] /\ closed' = [closed EXCEPT ![c] = @ + 1]
         \/ pc' = [pc EXCEPT ![c] = "claim"] /\ closed' = closed /\ code[c] = room
      /\ UNCHANGED <<hostVars, joined, peer, code, to, far, silent, air>>
  BY DEF ComparesCode, Fails, Goes, Closes
<1>2. window # "idle"
  BY <1>1 DEF IInv, StageOK, Running
<1>3. failed' \in 0..MaxFailed
  BY AdmissionAssumption DEF ComparesCode, Fails, IInv, ConnTypes
<1>4. HostTypes'
  BY <1>1, <1>2, <1>3 DEF IInv, HostTypes
<1>5. FlagTypes'
  BY <1>1, <1>2, <1>3 DEF IInv, FlagTypes
<1>6. ConnTypes'
  BY <1>1, <1>2, <1>3, AdmissionAssumption DEF IInv, ConnTypes, Early, Peering
<1>7. StageOK'
  BY <1>1, <1>2, <1>3 DEF IInv, StageOK, Running, ConnTypes
<1>8. SlotFollowsSession'
  BY <1>1, <1>2, <1>3 DEF IInv, SlotFollowsSession, ConnTypes
<1>9. HandlesOK'
  BY <1>1, <1>2, <1>3 DEF IInv, HandlesOK, ConnTypes, Early, Peering
<1>10. AdmittedKnowsCode'
  BY <1>1, <1>2, <1>3 DEF IInv, AdmittedKnowsCode, ConnTypes
<1>11. AirOK'
  BY <1>1, <1>2, <1>3 DEF IInv, AirOK
<1> QED BY <1>4, <1>5, <1>6, <1>7, <1>8, <1>9, <1>10, <1>11 DEF IInv

LEMMA ClaimsSlotPreserves == \A c \in Conn : IInv /\ ClaimsSlot(c) => IInv'
<1> SUFFICES ASSUME IInv, NEW c \in Conn, ClaimsSlot(c) PROVE IInv'
  OBVIOUS
<1> USE DEF hostVars, slotVars, endVars
<1>1. /\ pc[c] = "claim" /\ failed' = failed
      /\ \/ /\ joined /\ pc' = [pc EXCEPT ![c] = "done"] /\ closed' = [closed EXCEPT ![c] = @ + 1]
            /\ joined' = joined /\ peer' = peer
         \/ /\ ~ joined /\ pc' = [pc EXCEPT ![c] = "reply"] /\ closed' = closed
            /\ joined' = TRUE /\ peer' = c
      /\ UNCHANGED <<hostVars, code, to, far, silent, air>>
  BY DEF ClaimsSlot, Refuses, Goes, Closes
<1>2. window # "idle"
  BY <1>1 DEF IInv, StageOK, Running
<1>3. HostTypes'
  BY <1>1, <1>2 DEF IInv, HostTypes
<1>4. FlagTypes'
  BY <1>1, <1>2 DEF IInv, FlagTypes
<1>5. ConnTypes'
  BY <1>1, <1>2, AdmissionAssumption DEF IInv, ConnTypes, Early, Peering
<1>6. StageOK'
  BY <1>1, <1>2 DEF IInv, StageOK, Running, ConnTypes
<1>7. SlotFollowsSession'
  BY <1>1, <1>2, AdmissionAssumption DEF IInv, SlotFollowsSession, ConnTypes
<1>8. HandlesOK'
  BY <1>1, <1>2, AdmissionAssumption DEF IInv, HandlesOK, ConnTypes, Early, Peering, SlotFollowsSession
<1>9. AdmittedKnowsCode'
  BY <1>1, <1>2 DEF IInv, AdmittedKnowsCode, ConnTypes
<1>10. AirOK'
  BY <1>1, <1>2 DEF IInv, AirOK
<1> QED BY <1>3, <1>4, <1>5, <1>6, <1>7, <1>8, <1>9, <1>10 DEF IInv

LEMMA SendsJoinOkPreserves == \A c \in Conn : IInv /\ SendsJoinOk(c) => IInv'
<1> SUFFICES ASSUME IInv, NEW c \in Conn, SendsJoinOk(c) PROVE IInv'
  OBVIOUS
<1> USE DEF hostVars, slotVars, endVars
<1>1. pc[c] = "reply" /\ pc' = [pc EXCEPT ![c] = "session"] /\ UNCHANGED <<hostVars, slotVars, endVars, air>>
  BY DEF SendsJoinOk, Goes
<1>2. window # "idle"
  BY <1>1 DEF IInv, StageOK, Running
<1>3. HostTypes'
  BY <1>1, <1>2 DEF IInv, HostTypes
<1>4. FlagTypes'
  BY <1>1, <1>2 DEF IInv, FlagTypes
<1>5. ConnTypes'
  BY <1>1, <1>2, AdmissionAssumption DEF IInv, ConnTypes, Early, Peering
<1>6. StageOK'
  BY <1>1, <1>2 DEF IInv, StageOK, Running, ConnTypes
<1>7. SlotFollowsSession'
  BY <1>1, <1>2 DEF IInv, SlotFollowsSession, ConnTypes
<1>8. HandlesOK'
  BY <1>1, <1>2 DEF IInv, HandlesOK, ConnTypes, Early, Peering
<1>9. AdmittedKnowsCode'
  BY <1>1, <1>2 DEF IInv, AdmittedKnowsCode, ConnTypes
<1>10. AirOK'
  BY <1>1, <1>2 DEF IInv, AirOK
<1> QED BY <1>3, <1>4, <1>5, <1>6, <1>7, <1>8, <1>9, <1>10 DEF IInv

LEMMA JoinOkFailsPreserves == \A c \in Conn : IInv /\ JoinOkFails(c) => IInv'
<1> SUFFICES ASSUME IInv, NEW c \in Conn, JoinOkFails(c) PROVE IInv'
  OBVIOUS
<1> USE DEF hostVars, slotVars, endVars
<1>1. /\ pc[c] = "reply" /\ pc' = [pc EXCEPT ![c] = "done"] /\ peer' = None /\ joined' = FALSE
      /\ closed' = [d \in Conn |-> IF d = peer THEN closed[d] + 1 ELSE closed[d]]
      /\ UNCHANGED <<hostVars, failed, code, to, far, silent, air>>
  BY DEF JoinOkFails, Goes
<1>2. window # "idle"
  BY <1>1 DEF IInv, StageOK, Running
<1>3. HostTypes'
  BY <1>1, <1>2 DEF IInv, HostTypes
<1>4. FlagTypes'
  BY <1>1, <1>2 DEF IInv, FlagTypes
<1>5. ConnTypes'
  BY <1>1, <1>2, AdmissionAssumption DEF IInv, ConnTypes, Early, Peering
<1>6. StageOK'
  BY <1>1, <1>2 DEF IInv, StageOK, Running, ConnTypes
<1>7. SlotFollowsSession'
  BY <1>1, <1>2, AdmissionAssumption DEF IInv, SlotFollowsSession, ConnTypes
<1>8. HandlesOK'
  BY <1>1, <1>2, AdmissionAssumption DEF IInv, HandlesOK, ConnTypes, Early, Peering, SlotFollowsSession
<1>9. AdmittedKnowsCode'
  BY <1>1, <1>2 DEF IInv, AdmittedKnowsCode, ConnTypes
<1>10. AirOK'
  BY <1>1, <1>2 DEF IInv, AirOK
<1> QED BY <1>3, <1>4, <1>5, <1>6, <1>7, <1>8, <1>9, <1>10 DEF IInv

LEMMA SessionEndsPreserves == \A c \in Conn : IInv /\ SessionEnds(c) => IInv'
<1> SUFFICES ASSUME IInv, NEW c \in Conn, SessionEnds(c) PROVE IInv'
  OBVIOUS
<1> USE DEF hostVars, slotVars, endVars
<1>1. pc[c] = "session" /\ pc' = [pc EXCEPT ![c] = "leave"] /\ UNCHANGED <<hostVars, slotVars, endVars, air>>
  BY DEF SessionEnds, Goes
<1>2. window # "idle"
  BY <1>1 DEF IInv, StageOK, Running
<1>3. HostTypes'
  BY <1>1, <1>2 DEF IInv, HostTypes
<1>4. FlagTypes'
  BY <1>1, <1>2 DEF IInv, FlagTypes
<1>5. ConnTypes'
  BY <1>1, <1>2, AdmissionAssumption DEF IInv, ConnTypes, Early, Peering
<1>6. StageOK'
  BY <1>1, <1>2 DEF IInv, StageOK, Running, ConnTypes
<1>7. SlotFollowsSession'
  BY <1>1, <1>2 DEF IInv, SlotFollowsSession, ConnTypes
<1>8. HandlesOK'
  BY <1>1, <1>2 DEF IInv, HandlesOK, ConnTypes, Early, Peering
<1>9. AdmittedKnowsCode'
  BY <1>1, <1>2 DEF IInv, AdmittedKnowsCode, ConnTypes
<1>10. AirOK'
  BY <1>1, <1>2 DEF IInv, AirOK
<1> QED BY <1>3, <1>4, <1>5, <1>6, <1>7, <1>8, <1>9, <1>10 DEF IInv

LEMMA SessionTimesOutPreserves == \A c \in Conn : IInv /\ SessionTimesOut(c) => IInv'
<1> SUFFICES ASSUME IInv, NEW c \in Conn, SessionTimesOut(c) PROVE IInv'
  OBVIOUS
<1> USE DEF hostVars, slotVars, endVars
<1>1. /\ silent[c] < MaxSilent /\ silent' = [silent EXCEPT ![c] = @ + 1]
      /\ UNCHANGED <<hostVars, slotVars, code, to, far, closed, air, pc>>
  BY DEF SessionTimesOut
<1>2. HostTypes'
  BY <1>1 DEF IInv, HostTypes
<1>3. FlagTypes'
  BY <1>1 DEF IInv, FlagTypes
<1>4. ConnTypes'
  BY <1>1, AdmissionAssumption DEF IInv, ConnTypes, Early, Peering
<1>5. StageOK'
  BY <1>1 DEF IInv, StageOK, Running, ConnTypes
<1>6. SlotFollowsSession'
  BY <1>1 DEF IInv, SlotFollowsSession, ConnTypes
<1>7. HandlesOK'
  BY <1>1 DEF IInv, HandlesOK, ConnTypes, Early, Peering
<1>8. AdmittedKnowsCode'
  BY <1>1 DEF IInv, AdmittedKnowsCode, ConnTypes
<1>9. AirOK'
  BY <1>1 DEF IInv, AirOK
<1> QED BY <1>2, <1>3, <1>4, <1>5, <1>6, <1>7, <1>8, <1>9 DEF IInv

LEMMA SessionLeavesPreserves == \A c \in Conn : IInv /\ SessionLeaves(c) => IInv'
<1> SUFFICES ASSUME IInv, NEW c \in Conn, SessionLeaves(c) PROVE IInv'
  OBVIOUS
<1> USE DEF hostVars, slotVars, endVars
<1>1. /\ pc[c] = "leave" /\ pc' = [pc EXCEPT ![c] = "done"]
      /\ \/ peer = c /\ peer' = None /\ joined' = FALSE /\ closed' = [closed EXCEPT ![c] = @ + 1]
         \/ peer # c /\ UNCHANGED <<peer, joined, closed>>
      /\ UNCHANGED <<hostVars, failed, code, to, far, silent, air>>
  BY DEF SessionLeaves, Goes, Closes
<1>2. window # "idle"
  BY <1>1 DEF IInv, StageOK, Running
<1>3. HostTypes'
  BY <1>1, <1>2 DEF IInv, HostTypes
<1>4. FlagTypes'
  BY <1>1, <1>2 DEF IInv, FlagTypes
<1>5. ConnTypes'
  BY <1>1, <1>2, AdmissionAssumption DEF IInv, ConnTypes, Early, Peering
<1>6. StageOK'
  BY <1>1, <1>2 DEF IInv, StageOK, Running, ConnTypes
<1>7. SlotFollowsSession'
  BY <1>1, <1>2, AdmissionAssumption DEF IInv, SlotFollowsSession, ConnTypes
<1>8. HandlesOK'
  BY <1>1, <1>2, AdmissionAssumption DEF IInv, HandlesOK, ConnTypes, Early, Peering
<1>9. AdmittedKnowsCode'
  BY <1>1, <1>2 DEF IInv, AdmittedKnowsCode, ConnTypes
<1>10. AirOK'
  BY <1>1, <1>2 DEF IInv, AirOK
<1> QED BY <1>3, <1>4, <1>5, <1>6, <1>7, <1>8, <1>9, <1>10 DEF IInv

LEMMA FindsPreserves == \A c \in Conn : IInv /\ Finds(c) => IInv'
<1> SUFFICES ASSUME IInv, NEW c \in Conn, Finds(c) PROVE IInv'
  OBVIOUS
<1> USE DEF hostVars, slotVars, endVars
<1>1. PICK d \in air : LooksFor(c, d.code, d.port)
  BY DEF Finds
<1>2. d \in Announcement
  BY <1>1 DEF IInv, HostTypes
<1>3. d.code \in 1..MaxRooms /\ d.port \in Ports
  BY <1>2 DEF Announcement
<1>4. d.code \in 0..MaxRooms
  BY <1>3, AdmissionAssumption
<1>5. \E k \in 0..MaxRooms, p \in Ports : LooksFor(c, k, p)
  BY <1>1, <1>3, <1>4
<1>6. PICK k \in 0..MaxRooms, p \in Ports : LooksFor(c, k, p)
  BY <1>5
<1>7. /\ pc[c] = "unused" /\ pc' = [pc EXCEPT ![c] = "found"] /\ code' = [code EXCEPT ![c] = k] /\ to' = [to EXCEPT ![c] = p]
      /\ UNCHANGED <<hostVars, slotVars, far, closed, silent, air>>
  BY <1>6 DEF LooksFor, Goes
<1>8. HostTypes'
  BY <1>1, <1>2, <1>3, <1>4, <1>5, <1>6, <1>7 DEF IInv, HostTypes
<1>9. FlagTypes'
  BY <1>1, <1>2, <1>3, <1>4, <1>5, <1>6, <1>7 DEF IInv, FlagTypes
<1>10. ConnTypes'
  BY <1>1, <1>2, <1>3, <1>4, <1>5, <1>6, <1>7, AdmissionAssumption DEF IInv, ConnTypes, Early, Peering
<1>11. StageOK'
  BY <1>1, <1>2, <1>3, <1>4, <1>5, <1>6, <1>7 DEF IInv, StageOK, Running, ConnTypes
<1>12. SlotFollowsSession'
  BY <1>1, <1>2, <1>3, <1>4, <1>5, <1>6, <1>7 DEF IInv, SlotFollowsSession, ConnTypes
<1>13. HandlesOK'
  BY <1>1, <1>2, <1>3, <1>4, <1>5, <1>6, <1>7 DEF IInv, HandlesOK, ConnTypes, Early, Peering
<1>14. AdmittedKnowsCode'
  BY <1>1, <1>2, <1>3, <1>4, <1>5, <1>6, <1>7 DEF IInv, AdmittedKnowsCode, ConnTypes
<1>15. AirOK'
  BY <1>1, <1>2, <1>3, <1>4, <1>5, <1>6, <1>7 DEF IInv, AirOK
<1> QED BY <1>8, <1>9, <1>10, <1>11, <1>12, <1>13, <1>14, <1>15 DEF IInv

LEMMA TypesPortPreserves == \A c \in Conn : IInv /\ TypesPort(c) => IInv'
<1> SUFFICES ASSUME IInv, NEW c \in Conn, TypesPort(c) PROVE IInv'
  OBVIOUS
<1> USE DEF hostVars, slotVars, endVars
<1>1. PICK q \in 0..room, n \in Ports : LooksFor(c, q, n)
  BY DEF TypesPort
<1>2. q \in 0..room
  BY <1>1
<1>3. room \in 0..MaxRooms
  BY DEF IInv, HostTypes
<1>4. q \in 0..MaxRooms
  BY <1>2, <1>3, AdmissionAssumption
<1>5. \E k \in 0..MaxRooms, p \in Ports : LooksFor(c, k, p)
  BY <1>1, <1>4
<1>6. PICK k \in 0..MaxRooms, p \in Ports : LooksFor(c, k, p)
  BY <1>5
<1>7. /\ pc[c] = "unused" /\ pc' = [pc EXCEPT ![c] = "found"] /\ code' = [code EXCEPT ![c] = k] /\ to' = [to EXCEPT ![c] = p]
      /\ UNCHANGED <<hostVars, slotVars, far, closed, silent, air>>
  BY <1>6 DEF LooksFor, Goes
<1>8. HostTypes'
  BY <1>1, <1>2, <1>3, <1>4, <1>5, <1>6, <1>7 DEF IInv, HostTypes
<1>9. FlagTypes'
  BY <1>1, <1>2, <1>3, <1>4, <1>5, <1>6, <1>7 DEF IInv, FlagTypes
<1>10. ConnTypes'
  BY <1>1, <1>2, <1>3, <1>4, <1>5, <1>6, <1>7, AdmissionAssumption DEF IInv, ConnTypes, Early, Peering
<1>11. StageOK'
  BY <1>1, <1>2, <1>3, <1>4, <1>5, <1>6, <1>7 DEF IInv, StageOK, Running, ConnTypes
<1>12. SlotFollowsSession'
  BY <1>1, <1>2, <1>3, <1>4, <1>5, <1>6, <1>7 DEF IInv, SlotFollowsSession, ConnTypes
<1>13. HandlesOK'
  BY <1>1, <1>2, <1>3, <1>4, <1>5, <1>6, <1>7 DEF IInv, HandlesOK, ConnTypes, Early, Peering
<1>14. AdmittedKnowsCode'
  BY <1>1, <1>2, <1>3, <1>4, <1>5, <1>6, <1>7 DEF IInv, AdmittedKnowsCode, ConnTypes
<1>15. AirOK'
  BY <1>1, <1>2, <1>3, <1>4, <1>5, <1>6, <1>7 DEF IInv, AirOK
<1> QED BY <1>8, <1>9, <1>10, <1>11, <1>12, <1>13, <1>14, <1>15 DEF IInv

LEMMA ConnectsPreserves == \A c \in Conn : IInv /\ Connects(c) => IInv'
<1> SUFFICES ASSUME IInv, NEW c \in Conn, Connects(c) PROVE IInv'
  OBVIOUS
<1> USE DEF hostVars, slotVars, endVars
<1>1. /\ pc[c] = "found" /\ \E w \in {"backlog", "refused"} : pc' = [pc EXCEPT ![c] = w]
      /\ to' = [to EXCEPT ![c] = 0] /\ UNCHANGED <<hostVars, slotVars, code, far, closed, silent, air>>
  BY DEF Connects, Goes
<1>2. HostTypes'
  BY <1>1 DEF IInv, HostTypes
<1>3. FlagTypes'
  BY <1>1 DEF IInv, FlagTypes
<1>4. ConnTypes'
  BY <1>1, AdmissionAssumption DEF IInv, ConnTypes, Early, Peering
<1>5. StageOK'
  BY <1>1 DEF IInv, StageOK, Running, ConnTypes
<1>6. SlotFollowsSession'
  BY <1>1 DEF IInv, SlotFollowsSession, ConnTypes
<1>7. HandlesOK'
  BY <1>1 DEF IInv, HandlesOK, ConnTypes, Early, Peering
<1>8. AdmittedKnowsCode'
  BY <1>1 DEF IInv, AdmittedKnowsCode, ConnTypes
<1>9. AirOK'
  BY <1>1 DEF IInv, AirOK
<1> QED BY <1>2, <1>3, <1>4, <1>5, <1>6, <1>7, <1>8, <1>9 DEF IInv

LEMMA FarEndsPreserves == \A c \in Conn : IInv /\ FarEnds(c) => IInv'
<1> SUFFICES ASSUME IInv, NEW c \in Conn, FarEnds(c) PROVE IInv'
  OBVIOUS
<1> USE DEF hostVars, slotVars, endVars
<1>1. /\ \E w \in {"vanished", "closed"} : far' = [far EXCEPT ![c] = w]
      /\ UNCHANGED <<hostVars, slotVars, code, to, closed, silent, air, pc>>
  BY DEF FarEnds
<1>2. HostTypes'
  BY <1>1 DEF IInv, HostTypes
<1>3. FlagTypes'
  BY <1>1 DEF IInv, FlagTypes
<1>4. ConnTypes'
  BY <1>1, AdmissionAssumption DEF IInv, ConnTypes, Early, Peering
<1>5. StageOK'
  BY <1>1 DEF IInv, StageOK, Running, ConnTypes
<1>6. SlotFollowsSession'
  BY <1>1 DEF IInv, SlotFollowsSession, ConnTypes
<1>7. HandlesOK'
  BY <1>1 DEF IInv, HandlesOK, ConnTypes, Early, Peering
<1>8. AdmittedKnowsCode'
  BY <1>1 DEF IInv, AdmittedKnowsCode, ConnTypes
<1>9. AirOK'
  BY <1>1 DEF IInv, AirOK
<1> QED BY <1>2, <1>3, <1>4, <1>5, <1>6, <1>7, <1>8, <1>9 DEF IInv

LEMMA AgainPreserves == \A c \in Conn : IInv /\ Again(c) => IInv'
<1> SUFFICES ASSUME IInv, NEW c \in Conn, Again(c) PROVE IInv'
  OBVIOUS
<1> USE DEF hostVars, slotVars, endVars
<1>1. /\ pc[c] \in {"refused", "done"} /\ pc' = [pc EXCEPT ![c] = "unused"]
      /\ code' = [code EXCEPT ![c] = 0] /\ far' = [far EXCEPT ![c] = "there"]
      /\ closed' = [closed EXCEPT ![c] = 0] /\ silent' = [silent EXCEPT ![c] = 0]
      /\ UNCHANGED <<hostVars, slotVars, to, air>>
  BY DEF Again, Goes
<1>2. HostTypes'
  BY <1>1 DEF IInv, HostTypes
<1>3. FlagTypes'
  BY <1>1 DEF IInv, FlagTypes
<1>4. ConnTypes'
  BY <1>1, AdmissionAssumption DEF IInv, ConnTypes, Early, Peering
<1>5. StageOK'
  BY <1>1 DEF IInv, StageOK, Running, ConnTypes
<1>6. SlotFollowsSession'
  BY <1>1 DEF IInv, SlotFollowsSession, ConnTypes
<1>7. HandlesOK'
  BY <1>1 DEF IInv, HandlesOK, ConnTypes, Early, Peering
<1>8. AdmittedKnowsCode'
  BY <1>1 DEF IInv, AdmittedKnowsCode, ConnTypes
<1>9. AirOK'
  BY <1>1 DEF IInv, AirOK
<1> QED BY <1>2, <1>3, <1>4, <1>5, <1>6, <1>7, <1>8, <1>9 DEF IInv

LEMMA NextPreserves == IInv /\ [Next]_vars => IInv'
<1> SUFFICES ASSUME IInv, [Next]_vars PROVE IInv'
  OBVIOUS
<1>1. CASE \E busy \in SUBSET Ports : CreateRoom(busy)
  BY <1>1, CreateRoomPreserves
<1>2. CASE StartAnnouncer \/ Announce \/ LeaveRoom
  BY <1>2, StartAnnouncerPreserves, AnnouncePreserves, LeaveRoomPreserves
<1>3. CASE Stop
  BY <1>3, StopSetsFlagsPreserves, StopClosesPreserves, StopJoinsAcceptPreserves, StopJoinsClientsPreserves DEF Stop
<1>4. CASE AcceptEnds
  BY <1>4, AcceptEndsPreserves
<1>5. ASSUME NEW c \in Conn, Accept(c) \/ AcceptFails(c) PROVE IInv'
  BY <1>5, AcceptPreserves, AcceptFailsPreserves
<1>6. ASSUME NEW c \in Conn, Thread(c) PROVE IInv'
  BY <1>6, ArrivesPreserves, HandshakeFailsPreserves, ChecksBlockPreserves, ComparesCodePreserves,
     ClaimsSlotPreserves, SendsJoinOkPreserves, JoinOkFailsPreserves, SessionEndsPreserves,
     SessionTimesOutPreserves, SessionLeavesPreserves DEF Thread
<1>7. ASSUME NEW c \in Conn, Finds(c) \/ TypesPort(c) PROVE IInv'
  BY <1>7, FindsPreserves, TypesPortPreserves
<1>8. ASSUME NEW c \in Conn, Connects(c) \/ FarEnds(c) \/ Again(c) PROVE IInv'
  BY <1>8, ConnectsPreserves, FarEndsPreserves, AgainPreserves
<1>9. CASE UNCHANGED vars
  BY <1>9 DEF vars, hostVars, slotVars, endVars, IInv, HostTypes, FlagTypes, ConnTypes, StageOK,
              SlotFollowsSession, HandlesOK, AdmittedKnowsCode, AirOK
<1> QED BY <1>1, <1>2, <1>3, <1>4, <1>5, <1>6, <1>7, <1>8, <1>9 DEF Next

-----------------------------------------------------------------------------
(* Theorems.                                                                 *)

\* The inductive invariant holds in every behaviour.
THEOREM Invariance == Spec => []IInv
BY InitEstablishes, NextPreserves, PTL DEF Spec

\* The variables keep their types, the count of failed joins and the ports included.
THEOREM TypeCorrect == Spec => []TypeOK
<1>1. IInv => TypeOK
  <2> SUFFICES ASSUME IInv PROVE TypeOK
    OBVIOUS
  <2>1. {stopping, listening, accepting, joined} \subseteq BOOLEAN
    BY DEF IInv, FlagTypes
  <2>2. Early \cup Peering \cup {"done"} = Before \cup Running \cup {"refused", "done"}
    BY DEF Early, Peering, Before, Running
  <2> QED BY <2>1, <2>2 DEF IInv, HostTypes, ConnTypes, TypeOK
<1> QED BY <1>1, Invariance, PTL

\* The slot is taken as long as a thread serves its peer and no longer, for any number of
\* guests that join, leave and are cut off by Stop.
THEOREM SlotIsRight == Spec => []SlotFollowsSession
<1>1. IInv => SlotFollowsSession
  BY DEF IInv
<1> QED BY <1>1, Invariance, PTL

\* The handle of every connection is closed once, by its thread, by Stop or by the thread
\* of another one that could not answer.
THEOREM HandlesAreClosedOnce == Spec => []HandlesClosedOnce
<1>1. IInv => HandlesClosedOnce
  <2> SUFFICES ASSUME IInv, NEW c \in Conn PROVE closed[c] <= 1 /\ (pc[c] = "done" => closed[c] = 1)
    BY DEF HandlesClosedOnce
  <2>1. pc[c] \in Early \cup Peering \cup {"done"}
    BY DEF IInv, ConnTypes
  <2> QED BY <2>1 DEF IInv, HandlesOK
<1> QED BY <1>1, Invariance, PTL

\* Nobody is in a session of a room whose code he did not enter.
THEOREM CodeIsKnown == Spec => []AdmittedKnowsCode
<1>1. IInv => AdmittedKnowsCode
  BY DEF IInv
<1> QED BY <1>1, Invariance, PTL

\* What is announced of the open room leads to it.
THEOREM AnnouncementsLead == Spec => []AnnouncedIsOpen
<1>1. IInv => AnnouncedIsOpen
  BY DEF IInv, AirOK, StageOK, AnnouncedIsOpen
<1> QED BY <1>1, Invariance, PTL

-----------------------------------------------------------------------------
(* FrameStream. *)

-----------------------------------------------------------------------------
(* The loop of the parser over the bytes of a payload.                       *)

\* What a text is made of: characters, the names of keys and types, and what stands for a
\* byte that is not text. A byte is one of a text or of a length.
Letters == STRING \cup Type \cup {"open", "close", "comma", "colon", "q", "b", "n", "nl", "wide", "control", "UNKNOWN",
                                 "type", "session", "client", "text", "pos",
                                 "0", "1", "2", "3", "4", "5", "6", "7", "8", "9"}
HeaderBytes == {LengthByte(v) : v \in 0..255}
Byte == (Letters \X (Nat \ {0})) \cup HeaderBytes

IsLoop(p, bytes, len, f) ==
    f = [k \in 0..len |-> IF k = 0 THEN p ELSE ReadByte(f[k - 1], bytes[k])]

\* The limits of a payload and of a number are numbers.
LEMMA LimitsAreNat == MaxPayloadBytes \in Nat /\ MaxPayloadBytes <= 65536 /\ MaxNumber \in Nat
BY SMT, JsonAssumption

LEMMA StreamLimits ==
    ReceiveBytes \in 1..MaxPayloadBytes /\ MaxSends \in Nat /\ MaxCuts \in Nat
BY Zenon, StreamAssumption

LEMMA LettersIn ==
    /\ "open" \in Letters /\ "close" \in Letters /\ "comma" \in Letters /\ "colon" \in Letters /\ "q" \in Letters /\ "b" \in Letters
    /\ "n" \in Letters /\ "nl" \in Letters /\ "wide" \in Letters /\ "control" \in Letters /\ "UNKNOWN" \in Letters
    /\ "type" \in Letters /\ "session" \in Letters /\ "client" \in Letters /\ "text" \in Letters /\ "pos" \in Letters
    /\ Type \subseteq Letters /\ STRING \subseteq Letters /\ \A d \in 1..10 : Digit[d] \in Letters
<1>1. ASSUME NEW d \in 1..10 PROVE Digit[d] \in Letters
  <2>1. d \in {1, 2, 3, 4, 5, 6, 7, 8, 9, 10}
    OBVIOUS
  <2>2. Digit[d] \in {"0", "1", "2", "3", "4", "5", "6", "7", "8", "9"}
    BY <2>1 DEF Digit
  <2> QED BY <2>2 DEF Letters
<1>2. Type \subseteq Letters /\ STRING \subseteq Letters
  BY DEF Letters
<1> QED BY <1>1, <1>2 DEF Letters

\* The loop goes on from where it stands: its recursion is well-founded.
LEMMA AfterExists ==
    ASSUME NEW p, NEW bytes, NEW len \in Nat
    PROVE  \E f : IsLoop(p, bytes, len, f)
<1> DEFINE Is(f, k) == f = [i \in 0..k |-> IF i = 0 THEN p ELSE ReadByte(f[i - 1], bytes[i])]
           T == {k \in Nat : \A f : ~ Is(f, k)}
<1>1. SUFFICES ASSUME \A f : ~ Is(f, len) PROVE FALSE
  BY DEF IsLoop
<1>2. len \in T
  BY <1>1
<1>3. PICK k \in T : \A y \in T : k <= y
  <2> HIDE DEF T
  <2>1. T \in SUBSET Nat
    BY DEF T
  <2> QED BY <2>1, <1>2, LeastElement
<1>4. k \in Nat /\ \A f : ~ Is(f, k)
  OBVIOUS
<1>5. k # 0
  <2> DEFINE f == [i \in 0..0 |-> p]
  <2>1. ASSUME NEW i \in 0..0 PROVE f[i] = IF i = 0 THEN p ELSE ReadByte(f[i - 1], bytes[i])
    OBVIOUS
  <2>2. f = [i \in 0..0 |-> f[i]]
    OBVIOUS
  <2> HIDE DEF f
  <2>3. Is(f, 0)
    BY <2>1, <2>2
  <2> HIDE DEF Is
  <2> QED BY <1>4, <2>3
<1>6. PICK f : Is(f, k - 1)
  <2>1. k - 1 \in Nat /\ ~ (k <= k - 1)
    BY <1>4, <1>5
  <2>2. k - 1 \notin T
    <3> HIDE DEF T
    <3> QED BY <2>1, <1>3
  <2> QED BY <2>1, <2>2
<1> DEFINE g == [i \in 0..k |-> IF i = k THEN ReadByte(f[k - 1], bytes[k]) ELSE f[i]]
<1>7. ASSUME NEW i \in 0..k
      PROVE  g[i] = IF i = 0 THEN p ELSE ReadByte(g[i - 1], bytes[i])
  <2>1. CASE i # k
    <3>1. i \in 0..k - 1 /\ i \in 0..k /\ (i # 0 => i - 1 \in 0..k /\ i - 1 # k)
      BY <2>1, <1>4
    <3>2. g[i] = f[i] /\ (i # 0 => g[i - 1] = f[i - 1])
      BY <2>1, <3>1
    <3> HIDE DEF g
    <3>3. f[i] = IF i = 0 THEN p ELSE ReadByte(f[i - 1], bytes[i])
      BY <3>1, <1>6
    <3> QED BY <3>2, <3>3
  <2>2. CASE i = k
    <3>1. k \in 0..k /\ k - 1 \in 0..k /\ k - 1 # k
      BY <1>4, <1>5
    <3>2. g[k] = ReadByte(f[k - 1], bytes[k]) /\ g[k - 1] = f[k - 1]
      BY <3>1
    <3> HIDE DEF g
    <3> QED BY <2>2, <3>2, <1>5
  <2> QED BY <2>1, <2>2
<1>8. g = [i \in 0..k |-> g[i]]
  OBVIOUS
<1> HIDE DEF g
<1>9. Is(g, k)
  BY <1>7, <1>8
<1> HIDE DEF Is
<1> QED BY <1>4, <1>9

\* What the loop knows after each byte.
LEMMA ParsesSteps ==
    ASSUME NEW p, NEW bytes, Len(bytes) \in Nat
    PROVE  \E f : /\ f[0] = p /\ \A k \in 1..Len(bytes) : f[k] = ReadByte(f[k - 1], bytes[k])
                  /\ Parses(p, bytes) = f[Len(bytes)]
<1> DEFINE len == Len(bytes)
           f == CHOOSE g : IsLoop(p, bytes, len, g)
<1>1. Parses(p, bytes) = f[len]
  BY DEF Parses, IsLoop
<1>2. IsLoop(p, bytes, len, f)
  <2> HIDE DEF len
  <2>1. len \in Nat
    BY DEF len
  <2> QED BY <2>1, AfterExists
<1> HIDE DEF f
<1>3. f[0] = p /\ \A k \in 1..len : f[k] = ReadByte(f[k - 1], bytes[k])
  <2>1. 0 \in 0..len /\ \A k \in 1..len : k \in 0..len /\ k # 0
    OBVIOUS
  <2> HIDE DEF len
  <2> QED BY <1>2, <2>1 DEF IsLoop
<1> QED BY <1>1, <1>3

\* Any function that follows the loop ends where it ends.
LEMMA ParsesIs ==
    ASSUME NEW p, NEW bytes, Len(bytes) \in Nat, NEW f, f[0] = p,
           \A k \in 1..Len(bytes) : f[k] = ReadByte(f[k - 1], bytes[k])
    PROVE  Parses(p, bytes) = f[Len(bytes)]
<1>1. PICK g : /\ g[0] = p /\ \A k \in 1..Len(bytes) : g[k] = ReadByte(g[k - 1], bytes[k])
               /\ Parses(p, bytes) = g[Len(bytes)]
  BY ParsesSteps
<1> DEFINE T == {k \in 0..Len(bytes) : f[k] # g[k]}
<1>2. T = {}
  <2>1. SUFFICES ASSUME T # {} PROVE FALSE
    OBVIOUS
  <2>2. PICK k \in T : \A y \in T : k <= y
    <3>1. T \in SUBSET Nat
      OBVIOUS
    <3> HIDE DEF T
    <3> QED BY <3>1, <2>1, LeastElement
  <2>3. k \in 0..Len(bytes) /\ f[k] # g[k]
    OBVIOUS
  <2>4. k # 0
    BY <2>3, <1>1
  <2>5. k \in 1..Len(bytes) /\ k - 1 \in 0..Len(bytes) /\ ~ (k <= k - 1)
    BY <2>3, <2>4
  <2>6. f[k - 1] = g[k - 1]
    <3>1. k - 1 \notin T
      <4> HIDE DEF T
      <4> QED BY <2>2, <2>5
    <3> QED BY <3>1, <2>5
  <2> QED BY <2>3, <2>5, <2>6, <1>1
<1>3. Len(bytes) \in 0..Len(bytes)
  OBVIOUS
<1> QED BY <1>1, <1>2, <1>3

LEMMA ParsesNothing == ASSUME NEW p PROVE Parses(p, <<>>) = p
<1>1. Len(<<>>) = 0
  OBVIOUS
<1> QED BY <1>1, ParsesSteps

\* One byte.
LEMMA ParsesOne == ASSUME NEW p, NEW b PROVE Parses(p, <<b>>) = ReadByte(p, b)
<1>1. Len(<<b>>) = 1 /\ <<b>>[1] = b /\ 1 \in 1..1
  OBVIOUS
<1>2. PICK f : /\ f[0] = p /\ \A k \in 1..1 : f[k] = ReadByte(f[k - 1], <<b>>[k])
               /\ Parses(p, <<b>>) = f[1]
  BY <1>1, ParsesSteps
<1>3. f[1] = ReadByte(f[1 - 1], <<b>>[1])
  BY <1>2
<1> QED BY <1>1, <1>2, <1>3

\* Two parts of a payload, one after the other.
LEMMA ParsesConcat ==
    ASSUME NEW p, NEW S, NEW s \in Seq(S), NEW t \in Seq(S)
    PROVE  Parses(p, s \o t) = Parses(Parses(p, s), t)
<1>1. /\ s \o t \in Seq(S) /\ Len(s \o t) = Len(s) + Len(t)
      /\ Len(s) \in Nat /\ Len(t) \in Nat
      /\ \A i \in 1..Len(s) : (s \o t)[i] = s[i]
      /\ \A i \in 1..Len(t) : (s \o t)[Len(s) + i] = t[i]
  BY ConcatAt
<1>2. PICK f : /\ f[0] = p /\ \A k \in 1..Len(s \o t) : f[k] = ReadByte(f[k - 1], (s \o t)[k])
               /\ Parses(p, s \o t) = f[Len(s \o t)]
  <2> DEFINE st == s \o t
  <2>1. Len(st) \in Nat
    BY <1>1
  <2> HIDE DEF st
  <2>2. \E f : /\ f[0] = p /\ \A k \in 1..Len(st) : f[k] = ReadByte(f[k - 1], st[k])
               /\ Parses(p, st) = f[Len(st)]
    BY <2>1, ParsesSteps
  <2> QED BY <2>2 DEF st
<1>3. Parses(p, s) = f[Len(s)]
  <2>1. ASSUME NEW k \in 1..Len(s) PROVE f[k] = ReadByte(f[k - 1], s[k])
    <3>1. k \in 1..Len(s \o t)
      BY <1>1
    <3> QED BY <3>1, <1>1, <1>2
  <2> QED BY <2>1, <1>1, <1>2, ParsesIs
<1> DEFINE g == [k \in 0..Len(t) |-> f[Len(s) + k]]
<1>4. Parses(f[Len(s)], t) = g[Len(t)]
  <2>1. g[0] = f[Len(s)]
    BY <1>1
  <2>2. ASSUME NEW k \in 1..Len(t) PROVE g[k] = ReadByte(g[k - 1], t[k])
    <3>1. Len(s) + k \in 1..Len(s \o t) /\ k \in 0..Len(t) /\ k - 1 \in 0..Len(t)
          /\ (Len(s) + k) - 1 = Len(s) + (k - 1)
      BY <1>1
    <3> QED BY <3>1, <1>1, <1>2
  <2> HIDE DEF g
  <2> QED BY <2>1, <2>2, <1>1, ParsesIs
<1>5. g[Len(t)] = f[Len(s \o t)]
  BY <1>1
<1> QED BY <1>2, <1>3, <1>4, <1>5

-----------------------------------------------------------------------------
(* What the parser is between two characters.                                *)

Places == {"object", "key", "name", "nameEscape", "colon", "value", "string", "stringEscape",
           "number", "after", "end", "invalid"}
Parsers == [at : Places, key : Seq(Letters), text : Seq(Letters), n : Nat,
            type : Letters, session : Seq(Letters), client : Seq(Letters),
            strings : Seq(Seq(Letters) \X Seq(Letters)), numbers : Seq(Seq(Letters) \X Nat)]

LEMMA PlacesIn ==
    /\ "object" \in Places /\ "key" \in Places /\ "name" \in Places /\ "nameEscape" \in Places
    /\ "colon" \in Places /\ "value" \in Places /\ "string" \in Places /\ "stringEscape" \in Places
    /\ "number" \in Places /\ "after" \in Places /\ "end" \in Places /\ "invalid" \in Places
BY DEF Places

LEMMA DigitValueType == ASSUME NEW ch, IsDigit(ch) PROVE DigitValue(ch) \in 0..9
BY DEF IsDigit, DigitValue

LEMMA ParserIsTyped == Parser \in Parsers
<1>1. <<>> \in Seq(Letters) /\ <<>> \in Seq(Seq(Letters) \X Seq(Letters))
      /\ <<>> \in Seq(Seq(Letters) \X Nat)
  BY EmptySeq
<1> QED BY <1>1, PlacesIn, LettersIn DEF Parser, Parsers

\* Where the parser stands, and what it collects.
LEMMA AtTyped ==
    ASSUME NEW p \in Parsers, NEW where \in Places
    PROVE  At(p, where) \in Parsers /\ Invalid(p) \in Parsers
BY PlacesIn DEF At, Invalid, Parsers

LEMMA AppendTyped ==
    ASSUME NEW p \in Parsers, NEW ch \in Letters
    PROVE  [p EXCEPT !.text = Append(@, ch)] \in Parsers
<1>1. p.text \in Seq(Letters)
  BY DEF Parsers
<1>2. Append(p.text, ch) \in Seq(Letters)
  BY <1>1, AppendProperties
<1> QED BY <1>2 DEF Parsers

LEMMA SetStringTyped == ASSUME NEW p \in Parsers PROVE SetString(p) \in Parsers
<1>1. p.text \in Seq(Letters) /\ p.key \in Seq(Letters) /\ p.strings \in Seq(Seq(Letters) \X Seq(Letters))
  BY DEF Parsers
<1>2. Append(p.strings, <<p.key, p.text>>) \in Seq(Seq(Letters) \X Seq(Letters))
  <2>1. <<p.key, p.text>> \in Seq(Letters) \X Seq(Letters)
    BY <1>1
  <2> QED BY <1>1, <2>1, AppendProperties
<1>3. "UNKNOWN" \in Letters /\ Type \subseteq Letters
  BY LettersIn
<1>4. CASE p.key = <<"type">>
  <2>1. SetString(p) = [p EXCEPT !.type = IF Len(p.text) = 1 /\ p.text[1] \in Type
                                                    THEN p.text[1] ELSE "UNKNOWN"]
    BY <1>4 DEF SetString
  <2>2. (IF Len(p.text) = 1 /\ p.text[1] \in Type THEN p.text[1] ELSE "UNKNOWN") \in Letters
    BY <1>3
  <2> QED BY <2>1, <2>2 DEF Parsers
<1>5. CASE p.key # <<"type">> /\ p.key = <<"session">>
  <2>1. SetString(p) = [p EXCEPT !.session = p.text]
    BY <1>5 DEF SetString
  <2> QED BY <2>1, <1>1 DEF Parsers
<1>6. CASE p.key # <<"type">> /\ p.key # <<"session">> /\ p.key = <<"client">>
  <2>1. SetString(p) = [p EXCEPT !.client = p.text]
    BY <1>6 DEF SetString
  <2> QED BY <2>1, <1>1 DEF Parsers
<1>7. CASE p.key # <<"type">> /\ p.key # <<"session">> /\ p.key # <<"client">>
  <2>1. SetString(p) = [p EXCEPT !.strings = Append(@, <<p.key, p.text>>)]
    BY <1>7 DEF SetString
  <2> QED BY <2>1, <1>2 DEF Parsers
<1> QED BY <1>4, <1>5, <1>6, <1>7

LEMMA SetNumberTyped == ASSUME NEW p \in Parsers PROVE SetNumber(p) \in Parsers
<1>1. p.n \in Nat /\ p.key \in Seq(Letters) /\ p.numbers \in Seq(Seq(Letters) \X Nat)
  BY DEF Parsers
<1>2. Append(p.numbers, <<p.key, p.n>>) \in Seq(Seq(Letters) \X Nat)
  BY <1>1, AppendProperties
<1> QED BY <1>2 DEF Parsers, SetNumber

LEMMA InNumberTyped ==
    ASSUME NEW p \in Parsers, NEW ch, IsDigit(ch)
    PROVE  InNumber(p, ch) \in Parsers
<1>1. DigitValue(ch) \in 0..9 /\ p.n \in Nat
  BY DigitValueType DEF Parsers
<1>2. p.n * 10 + DigitValue(ch) \in Nat
  BY <1>1
<1>3. [At(p, "number") EXCEPT !.n = p.n * 10 + DigitValue(ch)] \in Parsers
  BY <1>2, AtTyped, PlacesIn DEF Parsers
<1> QED BY <1>3, AtTyped, PlacesIn DEF InNumber

LEMMA AfterValueTyped ==
    ASSUME NEW p \in Parsers, NEW ch
    PROVE  AfterValue(p, ch) \in Parsers
BY AtTyped, PlacesIn DEF AfterValue

LEMMA InStringTyped ==
    ASSUME NEW p \in Parsers, NEW ch \in Letters, NEW escaping \in Places, NEW done \in Parsers
    PROVE  InString(p, ch, escaping, done) \in Parsers
BY AtTyped, PlacesIn, AppendTyped DEF InString

LEMMA EscapedTyped ==
    ASSUME NEW p \in Parsers, NEW ch \in Letters, NEW back \in Places
    PROVE  Escaped(p, ch, back) \in Parsers
<1>1. At(p, back) \in Parsers /\ Invalid(p) \in Parsers /\ "nl" \in Letters
  BY AtTyped, LettersIn
<1>2. /\ [At(p, back) EXCEPT !.text = Append(@, ch)] \in Parsers
      /\ [At(p, back) EXCEPT !.text = Append(@, "nl")] \in Parsers
  <2> DEFINE q == At(p, back)
  <2>1. q \in Parsers
    BY <1>1
  <2> HIDE DEF q
  <2>2. [q EXCEPT !.text = Append(@, ch)] \in Parsers /\ [q EXCEPT !.text = Append(@, "nl")] \in Parsers
    BY <2>1, <1>1, AppendTyped
  <2> QED BY <2>2 DEF q
<1> QED BY <1>1, <1>2 DEF Escaped

LEMMA StepTyped ==
    ASSUME NEW p \in Parsers, NEW ch \in Letters
    PROVE  ParserStep(p, ch) \in Parsers
<1>1. CASE p.at = "object"
  BY <1>1, AtTyped, PlacesIn DEF ParserStep
<1>2. CASE p.at = "key"
  <2>1. [At(p, "name") EXCEPT !.text = <<>>] \in Parsers
    BY AtTyped, PlacesIn, EmptySeq DEF Parsers
  <2> QED BY <1>2, <2>1, AtTyped, PlacesIn DEF ParserStep
<1>3. CASE p.at = "name"
  <2>1. [At(p, "colon") EXCEPT !.key = p.text] \in Parsers
    <3>1. p.text \in Seq(Letters) /\ At(p, "colon") \in Parsers
      BY AtTyped, PlacesIn DEF Parsers
    <3> QED BY <3>1 DEF Parsers
  <2>2. InString(p, ch, "nameEscape", [At(p, "colon") EXCEPT !.key = p.text]) \in Parsers
    BY <2>1, InStringTyped, PlacesIn
  <2>3. ParserStep(p, ch) = InString(p, ch, "nameEscape", [At(p, "colon") EXCEPT !.key = p.text])
    BY <1>3 DEF ParserStep
  <2> QED BY <2>2, <2>3
<1>4. CASE p.at = "nameEscape"
  BY <1>4, EscapedTyped, PlacesIn DEF ParserStep
<1>5. CASE p.at = "colon"
  BY <1>5, AtTyped, PlacesIn DEF ParserStep
<1>6. CASE p.at = "value"
  <2>1. [At(p, "string") EXCEPT !.text = <<>>] \in Parsers
    BY AtTyped, PlacesIn, EmptySeq DEF Parsers
  <2>2. ASSUME IsDigit(ch) PROVE InNumber([p EXCEPT !.n = 0], ch) \in Parsers
    <3>1. [p EXCEPT !.n = 0] \in Parsers
      BY DEF Parsers
    <3> QED BY <2>2, <3>1, InNumberTyped
  <2>3. ParserStep(p, ch) = CASE ch = "q" -> [At(p, "string") EXCEPT !.text = <<>>]
                             [] IsDigit(ch) -> InNumber([p EXCEPT !.n = 0], ch)
                             [] OTHER -> Invalid(p)
    BY <1>6 DEF ParserStep
  <2>4. ~(IsDigit(ch) /\ ch = "q")
    BY DEF IsDigit, Digit
  <2> QED BY <2>1, <2>2, <2>3, <2>4, AtTyped, PlacesIn
<1>7. CASE p.at = "string"
  <2>1. At(SetString(p), "after") \in Parsers
    BY SetStringTyped, AtTyped, PlacesIn
  <2>2. InString(p, ch, "stringEscape", At(SetString(p), "after")) \in Parsers
    BY <2>1, InStringTyped, PlacesIn
  <2>3. ParserStep(p, ch) = InString(p, ch, "stringEscape", At(SetString(p), "after"))
    BY <1>7 DEF ParserStep
  <2> QED BY <2>2, <2>3
<1>8. CASE p.at = "stringEscape"
  BY <1>8, EscapedTyped, PlacesIn DEF ParserStep
<1>9. CASE p.at = "number"
  <2>1. AfterValue(SetNumber(p), ch) \in Parsers
    BY SetNumberTyped, AfterValueTyped
  <2>2. IsDigit(ch) => InNumber(p, ch) \in Parsers
    BY InNumberTyped
  <2>3. ParserStep(p, ch) = IF IsDigit(ch) THEN InNumber(p, ch) ELSE AfterValue(SetNumber(p), ch)
    BY <1>9 DEF ParserStep
  <2> QED BY <2>1, <2>2, <2>3
<1>10. CASE p.at = "after"
  BY <1>10, AfterValueTyped DEF ParserStep
<1>11. CASE p.at \notin {"object", "key", "name", "nameEscape", "colon", "value", "string",
                         "stringEscape", "number", "after"}
  BY <1>11, AtTyped, PlacesIn DEF ParserStep
<1> QED BY <1>1, <1>2, <1>3, <1>4, <1>5, <1>6, <1>7, <1>8, <1>9, <1>10, <1>11

LEMMA ReadTyped ==
    ASSUME NEW p \in Parsers, NEW b \in Byte
    PROVE  ReadByte(p, b) \in Parsers
<1>1. b[1] \in Letters
  <2>1. ASSUME NEW v \in 0..255 PROVE AsText(v) \in Letters
    <3>1. CASE v \in 48..57
      <4>1. v - 47 \in 1..10
        BY <3>1
      <4>2. \A d \in 1..10 : Digit[d] \in Letters
        BY DEF Digit, Letters
      <4>3. AsText(v) = Digit[v - 47]
        BY <3>1 DEF AsText
      <4> QED BY <4>1, <4>2, <4>3
    <3>2. CASE v \notin 48..57
      <4>1. AsText(v) \in {"q", "comma", "colon", "b", "n", "open", "close", "control"}
        BY <3>2 DEF AsText
      <4> QED BY <4>1, LettersIn
    <3> QED BY <3>1, <3>2
  <2>2. CASE b \in HeaderBytes
    BY <2>1, <2>2 DEF HeaderBytes, LengthByte
  <2>3. CASE b \in Letters \X (Nat \ {0})
    BY <2>3
  <2> QED BY <2>2, <2>3 DEF Byte
<1> QED BY <1>1, StepTyped DEF ReadByte

LEMMA ParsesTyped ==
    ASSUME NEW p \in Parsers, NEW bytes \in Seq(Byte)
    PROVE  Parses(p, bytes) \in Parsers
<1>1. Len(bytes) \in Nat /\ \A k \in 1..Len(bytes) : bytes[k] \in Byte
  BY LenProperties
<1>2. PICK f : /\ f[0] = p /\ \A k \in 1..Len(bytes) : f[k] = ReadByte(f[k - 1], bytes[k])
               /\ Parses(p, bytes) = f[Len(bytes)]
  BY <1>1, ParsesSteps
<1> DEFINE T == {k \in 0..Len(bytes) : f[k] \notin Parsers}
<1>3. T = {}
  <2>1. SUFFICES ASSUME T # {} PROVE FALSE
    OBVIOUS
  <2>2. PICK k \in T : \A y \in T : k <= y
    <3>1. T \in SUBSET Nat
      BY <1>1
    <3> HIDE DEF T
    <3> QED BY <3>1, <2>1, LeastElement
  <2>3. k \in 0..Len(bytes) /\ f[k] \notin Parsers
    OBVIOUS
  <2>4. k # 0
    BY <2>3, <1>2
  <2>5. k \in 1..Len(bytes) /\ k - 1 \in 0..Len(bytes) /\ ~ (k <= k - 1)
    BY <2>3, <2>4, <1>1
  <2>6. f[k - 1] \in Parsers
    <3>1. k - 1 \notin T
      <4> HIDE DEF T
      <4> QED BY <2>2, <2>5
    <3> QED BY <3>1, <2>5
  <2> QED BY <2>3, <2>5, <2>6, <1>1, <1>2, ReadTyped
<1>4. Len(bytes) \in 0..Len(bytes)
  BY <1>1
<1> QED BY <1>2, <1>3, <1>4

-----------------------------------------------------------------------------
(* Texts and their bytes.                                                    *)

\* What holds at the start and after each step holds to the end.
LEMMA UpTo ==
    ASSUME NEW n \in Nat, NEW T, 0 \in T, \A k \in 1..n : k - 1 \in T => k \in T
    PROVE  \A k \in 0..n : k \in T
<1> DEFINE R == {k \in 0..n : k \notin T}
<1>1. SUFFICES ASSUME R # {} PROVE FALSE
  OBVIOUS
<1>2. PICK k \in R : \A y \in R : k <= y
  <2>1. R \in SUBSET Nat
    OBVIOUS
  <2> HIDE DEF R
  <2> QED BY <2>1, <1>1, LeastElement
<1>3. k \in 0..n /\ k \notin T
  OBVIOUS
<1>4. k \in 1..n /\ k - 1 \in 0..n /\ ~ (k <= k - 1)
  BY <1>3
<1>5. k - 1 \notin R
  <2> HIDE DEF R
  <2> QED BY <1>2, <1>4
<1> QED BY <1>3, <1>4, <1>5

LEMMA ConcatAssociates ==
    ASSUME NEW S, NEW r \in Seq(S), NEW s \in Seq(S), NEW t \in Seq(S)
    PROVE  (r \o s) \o t = r \o (s \o t)
BY ConcatAssociative

LEMMA ByteAssociates ==
    ASSUME NEW r \in Seq(Byte), NEW s \in Seq(Byte), NEW t \in Seq(Byte)
    PROVE  (r \o s) \o t = r \o (s \o t)
BY ConcatAssociates

\* What FlattenSeq computes, step by step.
LEMMA FlattenSeqSteps ==
    ASSUME NEW S, NEW seqs \in Seq(Seq(S))
    PROVE  \E f : /\ f[0] = <<>> /\ \A k \in 1..Len(seqs) : f[k] = f[k - 1] \o seqs[k]
                  /\ \A k \in 0..Len(seqs) : f[k] \in Seq(S)
                  /\ OnSeq!FlattenSeq(seqs) = f[Len(seqs)]
<1>1. Len(seqs) \in Nat /\ \A k \in 1..Len(seqs) : seqs[k] \in Seq(S)
  BY LenProperties
<1>2. CASE Len(seqs) = 0
  <2> DEFINE f == [k \in 0..0 |-> <<>>]
  <2>1. seqs = <<>>
    BY <1>2, EmptySeq
  <2>2. OnSeq!FlattenSeq(seqs) = <<>>
    BY <2>1, <1>2 DEF OnSeq!FlattenSeq
  <2>3. f[0] = <<>> /\ (\A k \in 1..Len(seqs) : f[k] = f[k - 1] \o seqs[k])
        /\ \A k \in 0..Len(seqs) : f[k] \in Seq(S)
    BY <1>2, EmptySeq
  <2> HIDE DEF f
  <2> QED BY <2>2, <2>3, <1>2
<1>3. CASE Len(seqs) # 0
  <2> DEFINE len == Len(seqs)
             g == FlattenFun(seqs, len)
             f == [k \in 0..len |-> IF k = 0 THEN <<>> ELSE g[k]]
  <2>1. OnSeq!FlattenSeq(seqs) = g[len]
    BY <1>3 DEF OnSeq!FlattenSeq, FlattenFun
  <2>2. len \in Nat \ {0} /\ \A k \in 1..len : seqs[k] \in Seq(S)
    BY <1>1, <1>3
  <2>3. g[1] = seqs[1] /\ \A i \in 2..len : g[i] = g[i - 1] \o seqs[i]
    <3>1. len \in Nat \ {0}
      BY <2>2
    <3> HIDE DEF len
    <3> QED BY ONLY <3>1, FlattenSteps
  <2> HIDE DEF g, len
  <2>4. f[0] = <<>> /\ \A k \in 1..len : f[k] = g[k]
    BY <2>2
  <2>5. f[len] = g[len]
    BY <2>2
  <2> HIDE DEF f
  <2>6. ASSUME NEW k \in 1..len PROVE f[k] = f[k - 1] \o seqs[k]
    <3>1. CASE k = 1
      <4>1. <<>> \o seqs[1] = seqs[1]
        BY <2>2, ConcatEmptySeq
      <4>2. k - 1 = 0
        BY <3>1
      <4> QED BY <3>1, <4>1, <4>2, <2>3, <2>4
    <3>2. CASE k # 1
      <4>1. k \in 2..len /\ k - 1 \in 1..len
        BY <3>2, <2>2
      <4> QED BY <4>1, <2>3, <2>4
    <3> QED BY <3>1, <3>2
  <2> DEFINE T == {k \in 0..len : f[k] \in Seq(S)}
  <2>7. \A k \in 0..len : k \in T
    <3>1. 0 \in T
      <4>1. 0 \in 0..len /\ f[0] \in Seq(S)
        BY <2>2, <2>4, EmptySeq
      <4> QED BY <4>1
    <3>2. ASSUME NEW k \in 1..len, k - 1 \in T PROVE k \in T
      <4>1. f[k - 1] \in Seq(S) /\ seqs[k] \in Seq(S)
        BY <3>2, <2>2
      <4>2. f[k - 1] \o seqs[k] \in Seq(S)
        BY <4>1, ConcatProperties
      <4>3. f[k] \in Seq(S)
        BY <4>2, <2>6
      <4>4. k \in 0..len
        BY <2>2
      <4> QED BY <4>3, <4>4
    <3> HIDE DEF T
    <3> QED BY <3>1, <3>2, <2>2, UpTo
  <2> QED BY <2>1, <2>4, <2>5, <2>6, <2>7 DEF len
<1> QED BY <1>2, <1>3

\* A text with one byte for each character.
Plain(text) == [k \in 1..Len(text) |-> <<text[k], 1>>]
Reads(p, text) == Parses(p, Plain(text))

LEMMA PlainTyped ==
    ASSUME NEW text \in Seq(Letters)
    PROVE  Plain(text) \in Seq(Byte) /\ Len(Plain(text)) = Len(text)
<1>1. Len(text) \in Nat /\ \A k \in 1..Len(text) : text[k] \in Letters
  BY LenProperties
<1>2. ASSUME NEW k \in 1..Len(text) PROVE <<text[k], 1>> \in Byte
  BY <1>1 DEF Byte
<1>3. Plain(text) \in [1..Len(text) -> Byte]
  BY <1>2 DEF Plain
<1> QED BY <1>1, <1>3, SeqDef, LenProperties

LEMMA PlainConcat ==
    ASSUME NEW s \in Seq(Letters), NEW t \in Seq(Letters)
    PROVE  Plain(s \o t) = Plain(s) \o Plain(t)
<1> DEFINE a == Plain(s \o t)
           b == Plain(s) \o Plain(t)
<1>1. /\ s \o t \in Seq(Letters) /\ Len(s \o t) = Len(s) + Len(t) /\ Len(s) \in Nat /\ Len(t) \in Nat
      /\ \A i \in 1..Len(s) : (s \o t)[i] = s[i]
      /\ \A i \in 1..Len(t) : (s \o t)[Len(s) + i] = t[i]
  BY ConcatAt
<1>2. /\ Plain(s) \in Seq(Byte) /\ Plain(t) \in Seq(Byte) /\ a \in Seq(Byte)
      /\ Len(Plain(s)) = Len(s) /\ Len(Plain(t)) = Len(t) /\ Len(a) = Len(s) + Len(t)
  BY <1>1, PlainTyped
<1>3. /\ b \in Seq(Byte) /\ Len(b) = Len(s) + Len(t)
      /\ \A i \in 1..Len(s) : b[i] = Plain(s)[i]
      /\ \A i \in 1..Len(t) : b[Len(s) + i] = Plain(t)[i]
  <2> DEFINE u == Plain(s)
             v == Plain(t)
  <2>1. u \in Seq(Byte) /\ v \in Seq(Byte) /\ Len(u) = Len(s) /\ Len(v) = Len(t)
    BY <1>2
  <2> HIDE DEF u, v
  <2>2. /\ u \o v \in Seq(Byte) /\ Len(u \o v) = Len(u) + Len(v)
        /\ \A i \in 1..Len(u) : (u \o v)[i] = u[i]
        /\ \A i \in 1..Len(v) : (u \o v)[Len(u) + i] = v[i]
    BY <2>1, ConcatAt
  <2>3. b = u \o v
    BY DEF u, v
  <2> HIDE DEF b
  <2>4. /\ b \in Seq(Byte) /\ Len(b) = Len(s) + Len(t)
        /\ \A i \in 1..Len(s) : b[i] = u[i]
        /\ \A i \in 1..Len(t) : b[Len(s) + i] = v[i]
    BY <2>1, <2>2, <2>3
  <2> QED BY <2>4 DEF u, v
<1>4. /\ \A i \in 1..Len(s) : Plain(s)[i] = <<s[i], 1>>
      /\ \A i \in 1..Len(t) : Plain(t)[i] = <<t[i], 1>>
  BY DEF Plain
<1>5. \A i \in 1..Len(s) + Len(t) : a[i] = <<(s \o t)[i], 1>>
  BY <1>1 DEF Plain
<1> HIDE DEF a, b
<1>6. ASSUME NEW i \in 1..Len(a) PROVE a[i] = b[i]
  <2>1. CASE i \in 1..Len(s)
    BY <2>1, <1>1, <1>2, <1>3, <1>4, <1>5
  <2>2. CASE i \notin 1..Len(s)
    <3>1. PICK j \in 1..Len(t) : i = Len(s) + j
      <4>1. i - Len(s) \in 1..Len(t) /\ i = Len(s) + (i - Len(s))
        BY <2>2, <1>1, <1>2
      <4> QED BY <4>1
    <3>2. a[i] = <<(s \o t)[Len(s) + j], 1>>
      BY <3>1, <1>2, <1>5
    <3> QED BY <3>1, <3>2, <1>1, <1>3, <1>4
  <2> QED BY <2>1, <2>2
<1>7. a = b
  BY <1>2, <1>3, <1>6, SeqEqual
<1> QED BY <1>7 DEF a, b

\* The parser reads a text character by character.
LEMMA ReadsConcat ==
    ASSUME NEW p, NEW s \in Seq(Letters), NEW t \in Seq(Letters)
    PROVE  Reads(p, s \o t) = Reads(Reads(p, s), t)
<1> DEFINE u == Plain(s)
           v == Plain(t)
<1>1. u \in Seq(Byte) /\ v \in Seq(Byte)
  BY PlainTyped
<1>2. Plain(s \o t) = u \o v
  BY PlainConcat
<1> HIDE DEF u, v
<1>3. Parses(p, u \o v) = Parses(Parses(p, u), v)
  BY <1>1, ParsesConcat
<1> QED BY <1>2, <1>3 DEF Reads, u, v

LEMMA ReadsOne == ASSUME NEW p, NEW ch PROVE Reads(p, <<ch>>) = ParserStep(p, ch)
<1>1. Plain(<<ch>>) = <<<<ch, 1>>>>
  BY DEF Plain
<1>2. ReadByte(p, <<ch, 1>>) = ParserStep(p, ch)
  BY DEF ReadByte
<1> QED BY <1>1, <1>2, ParsesOne DEF Reads

LEMMA ReadsTyped ==
    ASSUME NEW p \in Parsers, NEW s \in Seq(Letters)
    PROVE  Reads(p, s) \in Parsers
BY PlainTyped, ParsesTyped DEF Reads

\* The bytes of a character.
BytesOf(ch) == [b \in 1..IF ch = "wide" THEN 3 ELSE 1 |-> <<ch, b>>]

LEMMA BytesOfCharacter ==
    ASSUME NEW ch \in Letters
    PROVE  /\ BytesOf(ch) \in Seq(Byte) /\ WellEncoded(BytesOf(ch))
           /\ \A p : Parses(p, BytesOf(ch)) = ParserStep(p, ch)
<1>1. CASE ch # "wide"
  <2>1. BytesOf(ch) = <<<<ch, 1>>>>
    BY <1>1 DEF BytesOf
  <2>2. <<ch, 1>> \in Byte
    BY DEF Byte
  <2>3. <<<<ch, 1>>>> \in Seq(Byte)
    BY <2>2
  <2>4. WellEncoded(<<<<ch, 1>>>>)
    BY <1>1 DEF WellEncoded
  <2>5. ASSUME NEW p PROVE Parses(p, <<<<ch, 1>>>>) = ParserStep(p, ch)
    BY ParsesOne DEF ReadByte
  <2> QED BY <2>1, <2>3, <2>4, <2>5
<1>2. CASE ch = "wide"
  <2> DEFINE s == BytesOf(ch)
  <2>1. s = [b \in 1..3 |-> <<"wide", b>>]
    BY <1>2 DEF BytesOf
  <2>2. ASSUME NEW b \in 1..3 PROVE <<"wide", b>> \in Byte
    <3>1. ch \in Letters /\ ch = "wide"
      BY <1>2
    <3>2. b \in Nat
      OBVIOUS
    <3> QED BY <3>1, <3>2 DEF Byte
  <2>3. s \in Seq(Byte) /\ Len(s) = 3 /\ \A b \in 1..3 : s[b] = <<"wide", b>>
    <3>1. s \in [1..3 -> Byte] /\ \A b \in 1..3 : s[b] = <<"wide", b>>
      BY <2>1, <2>2
    <3> HIDE DEF s
    <3>2. s \in Seq(Byte)
      <4>1. 3 \in Nat
        OBVIOUS
      <4> QED BY <3>1, <4>1, SeqDef
    <3>3. Len(s) = 3
      BY <3>1
    <3> QED BY <3>1, <3>2, <3>3
  <2> HIDE DEF s
  <2>4. WellEncoded(s)
    BY <2>3 DEF WellEncoded
  <2>5. ASSUME NEW p PROVE Parses(p, s) = ParserStep(p, ch)
    <3>0. Len(s) \in Nat
      BY <2>3
    <3>1. PICK f : /\ f[0] = p /\ \A k \in 1..Len(s) : f[k] = ReadByte(f[k - 1], s[k])
                   /\ Parses(p, s) = f[Len(s)]
      BY <3>0, ParsesSteps
    <3>2. s[1] = <<"wide", 1>> /\ s[2] = <<"wide", 2>> /\ s[3] = <<"wide", 3>>
      BY <2>3
    <3>3. f[1] = ReadByte(f[0], s[1]) /\ f[2] = ReadByte(f[1], s[2]) /\ f[3] = ReadByte(f[2], s[3])
      <4>1. 1 \in 1..Len(s) /\ 2 \in 1..Len(s) /\ 3 \in 1..Len(s) /\ 1 - 1 = 0 /\ 2 - 1 = 1 /\ 3 - 1 = 2
        BY <2>3
      <4> QED BY <3>1, <4>1
    <3>4. f[1] = ParserStep(p, "wide")
      BY <3>1, <3>2, <3>3 DEF ReadByte
    <3>5. f[2] = f[1] /\ f[3] = f[2]
      BY <3>2, <3>3 DEF ReadByte
    <3> QED BY <3>1, <3>4, <3>5, <1>2, <2>3
  <2> QED BY <2>3, <2>4, <2>5 DEF s
<1> QED BY <1>1, <1>2

\* The characters of a text, one more at a time.
LEMMA ReadsNext ==
    ASSUME NEW p, NEW v \in Seq(Letters), NEW k \in 1..Len(v)
    PROVE  Reads(p, SubSeq(v, 1, k)) = ParserStep(Reads(p, SubSeq(v, 1, k - 1)), v[k])
<1>1. Len(v) \in Nat /\ 1 \in 1..Len(v) /\ k - 1 \in Nat /\ v[k] \in Letters
  BY LenProperties
<1>2. SubSeq(v, 1, k) = SubSeq(v, 1, k - 1) \o <<v[k]>>
  BY <1>1, SubSeqRecursiveSecond
<1>3. SubSeq(v, 1, k - 1) \in Seq(Letters)
  <2>1. \A i \in 1..k - 1 : v[i] \in Letters
    BY <1>1, LenProperties
  <2> QED BY <2>1, <1>1, SubSeqProperties
<1>4. <<v[k]>> \in Seq(Letters)
  BY <1>1
<1> DEFINE u == SubSeq(v, 1, k - 1)
<1>5. Reads(p, u \o <<v[k]>>) = Reads(Reads(p, u), <<v[k]>>)
  BY <1>3, <1>4, ReadsConcat
<1> QED BY <1>2, <1>5, ReadsOne

LEMMA ReadsNothing == ASSUME NEW p PROVE Reads(p, <<>>) = p
<1>1. Plain(<<>>) = <<>>
  BY DEF Plain
<1> QED BY <1>1, ParsesNothing DEF Reads

\* The bytes of two texts are whole characters.
LEMMA WellEncodedConcat ==
    ASSUME NEW s \in Seq(Byte), NEW t \in Seq(Byte), WellEncoded(s), WellEncoded(t)
    PROVE  WellEncoded(s \o t)
<1> DEFINE r == s \o t
<1>1. /\ Len(r) = Len(s) + Len(t) /\ Len(s) \in Nat /\ Len(t) \in Nat
      /\ \A i \in 1..Len(s) : r[i] = s[i]
      /\ \A i \in 1..Len(t) : r[Len(s) + i] = t[i]
  BY ConcatAt
<1> HIDE DEF r
<1>2. ASSUME NEW k \in 1..Len(r)
      PROVE  /\ r[k][2] \in 1..2 /\ r[k][1] = "wide" => k < Len(r) /\ r[k + 1] = <<"wide", r[k][2] + 1>>
             /\ r[k][2] > 1 => k > 1 /\ r[k - 1] = <<"wide", r[k][2] - 1>>
  <2>1. CASE k \in 1..Len(s)
    <3>1. r[k] = s[k]
      BY <2>1, <1>1
    <3>2. /\ s[k][2] \in 1..2 /\ s[k][1] = "wide" => k < Len(s) /\ s[k + 1] = <<"wide", s[k][2] + 1>>
          /\ s[k][2] > 1 => k > 1 /\ s[k - 1] = <<"wide", s[k][2] - 1>>
      BY <2>1 DEF WellEncoded
    <3>3. (k < Len(s) => k + 1 \in 1..Len(s)) /\ (k > 1 => k - 1 \in 1..Len(s))
      BY <2>1, <1>1
    <3>4. /\ k < Len(s) => k < Len(r) /\ r[k + 1] = s[k + 1]
          /\ k > 1 => r[k - 1] = s[k - 1]
      BY <2>1, <3>3, <1>1
    <3> QED BY <3>1, <3>2, <3>4
  <2>2. CASE k \notin 1..Len(s)
    <3>1. PICK j \in 1..Len(t) : k = Len(s) + j
      <4>1. k - Len(s) \in 1..Len(t) /\ k = Len(s) + (k - Len(s))
        BY <2>2, <1>1
      <4> QED BY <4>1
    <3>2. r[k] = t[j]
      BY <3>1, <1>1
    <3>3. /\ t[j][2] \in 1..2 /\ t[j][1] = "wide" => j < Len(t) /\ t[j + 1] = <<"wide", t[j][2] + 1>>
          /\ t[j][2] > 1 => j > 1 /\ t[j - 1] = <<"wide", t[j][2] - 1>>
      BY DEF WellEncoded
    <3>4. /\ j < Len(t) => k < Len(r) /\ r[k + 1] = t[j + 1]
          /\ j > 1 => k > 1 /\ r[k - 1] = t[j - 1]
      <4>1. /\ j < Len(t) => j + 1 \in 1..Len(t) /\ k + 1 = Len(s) + (j + 1) /\ k < Len(r)
            /\ j > 1 => j - 1 \in 1..Len(t) /\ k - 1 = Len(s) + (j - 1) /\ k > 1
        BY <3>1, <1>1
      <4>2. \A i \in 1..Len(t) : r[Len(s) + i] = t[i]
        BY <1>1
      <4>3. j < Len(t) => k < Len(r) /\ r[k + 1] = t[j + 1]
        BY ONLY <4>1, <4>2
      <4>4. j > 1 => k > 1 /\ r[k - 1] = t[j - 1]
        BY ONLY <4>1, <4>2
      <4> QED BY <4>3, <4>4
    <3> QED BY <3>2, <3>3, <3>4
  <2> QED BY <2>1, <2>2
<1>3. WellEncoded(r)
  BY <1>2 DEF WellEncoded
<1> QED BY <1>3 DEF r

\* What WideToUtf8 makes of a text, character by character.
LEMMA Utf8Steps ==
    ASSUME NEW text \in Seq(Letters)
    PROVE  \E f : /\ f[0] = <<>> /\ \A k \in 1..Len(text) : f[k] = f[k - 1] \o BytesOf(text[k])
                  /\ \A k \in 0..Len(text) : f[k] \in Seq(Byte)
                  /\ Utf8Bytes(text) = f[Len(text)]
<1> DEFINE seqs == [k \in 1..Len(text) |-> BytesOf(text[k])]
<1>1. Len(text) \in Nat /\ \A k \in 1..Len(text) : text[k] \in Letters
  BY LenProperties
<1>2. ASSUME NEW k \in 1..Len(text) PROVE BytesOf(text[k]) \in Seq(Byte)
  BY <1>1, BytesOfCharacter
<1>3. seqs \in [1..Len(text) -> Seq(Byte)] /\ \A k \in 1..Len(text) : seqs[k] = BytesOf(text[k])
  BY <1>2
<1>4. Utf8Bytes(text) = OnSeq!FlattenSeq(seqs)
  BY DEF Utf8Bytes, BytesOf
<1> HIDE DEF seqs
<1>5. seqs \in Seq(Seq(Byte)) /\ Len(seqs) = Len(text)
  BY <1>1, <1>3, SeqDef, LenProperties
<1>6. PICK f : /\ f[0] = <<>> /\ \A k \in 1..Len(seqs) : f[k] = f[k - 1] \o seqs[k]
               /\ \A k \in 0..Len(seqs) : f[k] \in Seq(Byte)
               /\ OnSeq!FlattenSeq(seqs) = f[Len(seqs)]
  BY <1>5, FlattenSeqSteps
<1>7. \A k \in 1..Len(text) : f[k] = f[k - 1] \o BytesOf(text[k])
  BY <1>3, <1>5, <1>6
<1> QED BY <1>4, <1>5, <1>6, <1>7

\* The bytes of a text are read as the text.
LEMMA Utf8RoundTrip ==
    ASSUME NEW text \in Seq(Letters)
    PROVE  /\ Utf8Bytes(text) \in Seq(Byte) /\ WellEncoded(Utf8Bytes(text))
           /\ \A p : Parses(p, Utf8Bytes(text)) = Reads(p, text)
<1>1. Len(text) \in Nat /\ \A k \in 1..Len(text) : text[k] \in Letters
  BY LenProperties
<1>2. PICK f : /\ f[0] = <<>> /\ \A k \in 1..Len(text) : f[k] = f[k - 1] \o BytesOf(text[k])
               /\ \A k \in 0..Len(text) : f[k] \in Seq(Byte)
               /\ Utf8Bytes(text) = f[Len(text)]
  BY Utf8Steps
<1> DEFINE T == {k \in 0..Len(text) : /\ WellEncoded(f[k])
                                      /\ \A p : Parses(p, f[k]) = Reads(p, SubSeq(text, 1, k))}
<1>3. 0 \in T
  <2>1. WellEncoded(<<>>)
    BY DEF WellEncoded
  <2>2. SubSeq(text, 1, 0) = <<>>
    BY SubSeqEmpty
  <2>3. \A p : Parses(p, <<>>) = Reads(p, <<>>)
    BY ParsesNothing, ReadsNothing
  <2>4. 0 \in 0..Len(text)
    BY <1>1
  <2> QED BY <2>1, <2>2, <2>3, <2>4, <1>2
<1>4. ASSUME NEW k \in 1..Len(text), k - 1 \in T PROVE k \in T
  <2>1. /\ k \in 0..Len(text) /\ k - 1 \in 0..Len(text) /\ f[k - 1] \in Seq(Byte)
        /\ BytesOf(text[k]) \in Seq(Byte) /\ WellEncoded(BytesOf(text[k]))
        /\ f[k] = f[k - 1] \o BytesOf(text[k])
    <3>1. k \in 0..Len(text) /\ k - 1 \in 0..Len(text)
      BY <1>1
    <3> QED BY <3>1, <1>1, <1>2, BytesOfCharacter
  <2>2. WellEncoded(f[k - 1]) /\ \A p : Parses(p, f[k - 1]) = Reads(p, SubSeq(text, 1, k - 1))
    BY <1>4
  <2>3. WellEncoded(f[k])
    BY <2>1, <2>2, WellEncodedConcat
  <2>4. ASSUME NEW p PROVE Parses(p, f[k]) = Reads(p, SubSeq(text, 1, k))
    <3>1. Parses(p, f[k]) = Parses(Parses(p, f[k - 1]), BytesOf(text[k]))
      BY <2>1, ParsesConcat
    <3>2. Parses(Parses(p, f[k - 1]), BytesOf(text[k])) = ParserStep(Parses(p, f[k - 1]), text[k])
      BY <1>1, BytesOfCharacter
    <3> QED BY <3>1, <3>2, <2>2, ReadsNext
  <2> QED BY <2>1, <2>3, <2>4
<1> HIDE DEF T
<1>5. \A k \in 0..Len(text) : k \in T
  BY <1>1, <1>3, <1>4, UpTo
<1>6. Len(text) \in T /\ Len(text) \in 0..Len(text)
  BY <1>1, <1>5
<1>7. SubSeq(text, 1, Len(text)) = text
  BY SubSeqFull
<1> QED BY <1>2, <1>6, <1>7 DEF T

LEMMA SmallConcat ==
    ASSUME NEW a, NEW b, NEW c
    PROVE  <<a>> \o <<b>> = <<a, b>> /\ <<a, b>> \o <<c>> = <<a, b, c>>
<1> DEFINE S == {a, b, c}
<1>1. <<a>> \in Seq(S) /\ <<b>> \in Seq(S) /\ <<c>> \in Seq(S) /\ <<a, b>> \in Seq(S)
      /\ <<a, b, c>> \in Seq(S)
  OBVIOUS
<1> HIDE DEF S
<1>2. <<a>> \o <<b>> = <<a, b>>
  <2> DEFINE u == <<a>>
             v == <<b>>
             w == <<a, b>>
  <2>1. /\ Len(u) = 1 /\ u[1] = a /\ Len(v) = 1 /\ v[1] = b
        /\ Len(w) = 2 /\ w[1] = a /\ w[2] = b
    OBVIOUS
  <2>2. u \in Seq(S) /\ v \in Seq(S) /\ w \in Seq(S)
    BY <1>1
  <2> HIDE DEF u, v, w
  <2>3. /\ u \o v \in Seq(S) /\ Len(u \o v) = Len(u) + Len(v)
        /\ \A i \in 1..Len(u) : (u \o v)[i] = u[i]
        /\ \A i \in 1..Len(v) : (u \o v)[Len(u) + i] = v[i]
    BY <2>2, ConcatAt
  <2>4. Len(u \o v) = 2 /\ (u \o v)[1] = a /\ (u \o v)[2] = b
    <3>1. 1 \in 1..Len(u) /\ 1 \in 1..Len(v) /\ Len(u) + 1 = 2
      BY <2>1
    <3> QED BY <3>1, <2>1, <2>3
  <2>5. \A i \in 1..Len(w) : (u \o v)[i] = w[i]
    BY <2>1, <2>4
  <2>6. u \o v = w
    BY <2>1, <2>2, <2>3, <2>4, <2>5, SeqEqual
  <2> QED BY <2>6 DEF u, v, w
<1>3. <<a, b>> \o <<c>> = <<a, b, c>>
  <2> DEFINE u == <<a, b>>
             v == <<c>>
             w == <<a, b, c>>
  <2>1. /\ Len(u) = 2 /\ u[1] = a /\ u[2] = b /\ Len(v) = 1 /\ v[1] = c
        /\ Len(w) = 3 /\ w[1] = a /\ w[2] = b /\ w[3] = c
    OBVIOUS
  <2>2. u \in Seq(S) /\ v \in Seq(S) /\ w \in Seq(S)
    BY <1>1
  <2> HIDE DEF u, v, w
  <2>3. /\ u \o v \in Seq(S) /\ Len(u \o v) = Len(u) + Len(v)
        /\ \A i \in 1..Len(u) : (u \o v)[i] = u[i]
        /\ \A i \in 1..Len(v) : (u \o v)[Len(u) + i] = v[i]
    BY <2>2, ConcatAt
  <2>4. Len(u \o v) = 3 /\ (u \o v)[1] = a /\ (u \o v)[2] = b /\ (u \o v)[3] = c
    <3>1. 1 \in 1..Len(u) /\ 2 \in 1..Len(u) /\ 1 \in 1..Len(v) /\ Len(u) + 1 = 3
      BY <2>1
    <3> QED BY <3>1, <2>1, <2>3
  <2>5. \A i \in 1..Len(w) : (u \o v)[i] = w[i]
    BY <2>1, <2>4
  <2>6. u \o v = w
    BY <2>1, <2>2, <2>3, <2>4, <2>5, SeqEqual
  <2> QED BY <2>6 DEF u, v, w
<1> QED BY <1>2, <1>3

\* How the payload of a message begins and ends.
LEMMA Utf8Ends ==
    ASSUME NEW text \in Seq(Letters), Len(text) >= 4,
           text[1] = "open", text[2] = "q", text[3] = "type", text[Len(text)] = "close"
    PROVE  LET bytes == Utf8Bytes(text)
           IN  /\ Len(bytes) >= 4
               /\ bytes[1] = <<"open", 1>> /\ bytes[2] = <<"q", 1>> /\ bytes[3] = <<"type", 1>>
               /\ bytes[Len(bytes)] = <<"close", 1>>
<1>1. Len(text) \in Nat
  BY LenProperties
<1>2. PICK f : /\ f[0] = <<>> /\ \A k \in 1..Len(text) : f[k] = f[k - 1] \o BytesOf(text[k])
               /\ \A k \in 0..Len(text) : f[k] \in Seq(Byte)
               /\ Utf8Bytes(text) = f[Len(text)]
  BY Utf8Steps
<1>3. ASSUME NEW ch, ch # "wide" PROVE BytesOf(ch) = <<<<ch, 1>>>>
  BY <1>3 DEF BytesOf
<1>4. f[1] = <<<<"open", 1>>>>
  <2>1. 1 \in 1..Len(text) /\ 1 - 1 = 0
    BY <1>1
  <2>2. f[1] = <<>> \o BytesOf("open")
    BY <2>1, <1>2
  <2>3. BytesOf("open") = <<<<"open", 1>>>>
    BY <1>3
  <2> QED BY <2>2, <2>3
<1>5. f[2] = <<<<"open", 1>>, <<"q", 1>>>>
  <2>1. 2 \in 1..Len(text) /\ 2 - 1 = 1
    BY <1>1
  <2>2. f[2] = f[1] \o BytesOf("q")
    BY <2>1, <1>2
  <2>3. BytesOf("q") = <<<<"q", 1>>>>
    BY <1>3
  <2>4. <<<<"open", 1>>>> \o <<<<"q", 1>>>> = <<<<"open", 1>>, <<"q", 1>>>>
    BY ONLY SmallConcat
  <2> QED BY ONLY <2>2, <2>3, <2>4, <1>4
<1>6. f[3] = <<<<"open", 1>>, <<"q", 1>>, <<"type", 1>>>>
  <2>1. 3 \in 1..Len(text) /\ 3 - 1 = 2
    BY <1>1
  <2>2. f[3] = f[2] \o BytesOf("type")
    BY <2>1, <1>2
  <2>3. BytesOf("type") = <<<<"type", 1>>>>
    BY <1>3
  <2> DEFINE u == <<"open", 1>>
             v == <<"q", 1>>
             w == <<"type", 1>>
  <2>4. f[2] = <<u, v>> /\ BytesOf("type") = <<w>>
    BY <1>5, <2>3
  <2> HIDE DEF u, v, w
  <2>5. <<u, v>> \o <<w>> = <<u, v, w>>
    BY ONLY SmallConcat
  <2>6. f[3] = <<u, v, w>>
    BY ONLY <2>2, <2>4, <2>5
  <2> QED BY ONLY <2>6 DEF u, v, w
<1> DEFINE Begins(s) == Len(s) >= 3 /\ s[1] = <<"open", 1>> /\ s[2] = <<"q", 1>> /\ s[3] = <<"type", 1>>
           T == {k \in 0..Len(text) : k >= 3 => Begins(f[k])}
<1>7. 0 \in T
  BY <1>1
<1>8. ASSUME NEW k \in 1..Len(text), k - 1 \in T PROVE k \in T
  <2>0. k \in 0..Len(text) /\ k - 1 \in 0..Len(text)
    BY <1>1
  <2>1. CASE k < 3
    BY <2>0, <2>1
  <2>2. CASE k = 3
    <3>1. Begins(f[3])
      BY <1>6
    <3> QED BY <2>0, <2>2, <3>1
  <2>3. CASE k > 3
    <3>1. Begins(f[k - 1])
      BY <2>0, <2>3, <1>8
    <3>2. f[k - 1] \in Seq(Byte) /\ BytesOf(text[k]) \in Seq(Byte) /\ f[k] = f[k - 1] \o BytesOf(text[k])
      BY <2>0, <1>2, BytesOfCharacter, LenProperties
    <3>3. /\ Len(f[k]) = Len(f[k - 1]) + Len(BytesOf(text[k]))
          /\ Len(f[k - 1]) \in Nat /\ Len(BytesOf(text[k])) \in Nat
          /\ \A i \in 1..Len(f[k - 1]) : f[k][i] = f[k - 1][i]
      <4> DEFINE a == f[k - 1]
                 b == BytesOf(text[k])
      <4>1. a \in Seq(Byte) /\ b \in Seq(Byte) /\ f[k] = a \o b
        BY <3>2
      <4> HIDE DEF a, b
      <4>2. Len(f[k]) = Len(a) + Len(b) /\ Len(a) \in Nat /\ Len(b) \in Nat
            /\ \A i \in 1..Len(a) : f[k][i] = a[i]
        BY <4>1, ConcatAt
      <4> QED BY <4>2 DEF a, b
    <3>4. Begins(f[k])
      <4> DEFINE a == Len(f[k - 1])
                 b == Len(BytesOf(text[k]))
      <4>0. a \in Nat /\ b \in Nat /\ a >= 3 /\ Len(f[k]) = a + b
        BY <3>1, <3>3
      <4> HIDE DEF a, b
      <4>2. 1 \in 1..a /\ 2 \in 1..a /\ 3 \in 1..a /\ Len(f[k]) >= 3
        BY <4>0
      <4>1. 1 \in 1..Len(f[k - 1]) /\ 2 \in 1..Len(f[k - 1]) /\ 3 \in 1..Len(f[k - 1]) /\ Len(f[k]) >= 3
        BY <4>2 DEF a
      <4> QED BY <3>1, <3>3, <4>1
    <3> QED BY <2>0, <3>4
  <2> QED BY <2>1, <2>2, <2>3, <1>1
<1>9. \A k \in 0..Len(text) : k \in T
  <2> HIDE DEF T
  <2> QED BY <1>1, <1>7, <1>8, UpTo
<1> DEFINE n == Len(text) - 1
<1>10. n \in 0..Len(text) /\ n >= 3 /\ n + 1 = Len(text) /\ Len(text) \in 1..Len(text)
  BY <1>1
<1>11. Begins(f[n])
  BY <1>9, <1>10
<1>12. f[n + 1] = f[n] \o <<<<"close", 1>>>> /\ f[n] \in Seq(Byte)
  <2>1. f[Len(text)] = f[Len(text) - 1] \o BytesOf("close")
    BY <1>2, <1>10
  <2>2. BytesOf("close") = <<<<"close", 1>>>>
    BY <1>3
  <2> QED BY <2>1, <2>2, <1>2, <1>10
<1>13. <<<<"close", 1>>>> \in Seq(Byte)
  <2>1. <<"close", 1>> \in Byte
    BY LettersIn DEF Byte
  <2> QED BY <2>1
<1> HIDE DEF n
<1>14. /\ Len(f[n + 1]) = Len(f[n]) + 1 /\ Len(f[n]) \in Nat
       /\ \A i \in 1..Len(f[n]) : f[n + 1][i] = f[n][i]
       /\ f[n + 1][Len(f[n]) + 1] = <<"close", 1>>
  <2> DEFINE last == <<<<"close", 1>>>>
  <2>1. Len(last) = 1 /\ last[1] = <<"close", 1>> /\ 1 \in 1..Len(last)
    OBVIOUS
  <2>2. last \in Seq(Byte) /\ f[n + 1] = f[n] \o last
    BY <1>12, <1>13
  <2> HIDE DEF last
  <2> QED BY <2>1, <2>2, <1>12, ConcatAt
<1>15. /\ Len(f[n + 1]) >= 4 /\ f[n + 1][Len(f[n + 1])] = <<"close", 1>>
       /\ f[n + 1][1] = <<"open", 1>> /\ f[n + 1][2] = <<"q", 1>> /\ f[n + 1][3] = <<"type", 1>>
  <2>1. 1 \in 1..Len(f[n]) /\ 2 \in 1..Len(f[n]) /\ 3 \in 1..Len(f[n])
    BY <1>11, <1>14
  <2> QED BY <2>1, <1>11, <1>14
<1>16. Utf8Bytes(text) = f[n + 1]
  BY <1>2, <1>10
<1> QED BY <1>15, <1>16

-----------------------------------------------------------------------------
(* A field of a message, written and read.                                   *)

EscapePiece(ch) == CASE ch \in {"q", "b"} -> <<"b", ch>>
                     [] ch = "nl" -> <<"b", "n">>
                     [] OTHER -> <<ch>>

LEMMA PieceTyped ==
    ASSUME NEW ch \in Letters
    PROVE  EscapePiece(ch) \in Seq(Letters)
<1>1. "b" \in Letters /\ "n" \in Letters
  BY LettersIn
<1>2. <<"b", ch>> \in Seq(Letters) /\ <<"b", "n">> \in Seq(Letters) /\ <<ch>> \in Seq(Letters)
  BY <1>1
<1> QED BY <1>2 DEF EscapePiece

\* An escaped character is read as the character.
LEMMA PieceReads ==
    ASSUME NEW p \in Parsers, p.at = "string", NEW ch \in Letters
    PROVE  Reads(p, EscapePiece(ch)) = [p EXCEPT !.text = Append(@, ch)]
<1>1. CASE ch \notin {"q", "b", "nl"}
  <2>1. EscapePiece(ch) = <<ch>>
    BY <1>1 DEF EscapePiece
  <2>2. ParserStep(p, ch) = [p EXCEPT !.text = Append(@, ch)]
    BY <1>1 DEF ParserStep, InString
  <2> QED BY <2>1, <2>2, ReadsOne
<1>2. ASSUME NEW c \in Letters PROVE Reads(p, <<"b", c>>) = Escaped(At(p, "stringEscape"), c, "string")
  <2>1. "b" \in Letters
    BY LettersIn
  <2>2. <<"b">> \in Seq(Letters) /\ <<c>> \in Seq(Letters)
    BY <2>1
  <2>3. <<"b", c>> = <<"b">> \o <<c>>
    BY SmallConcat
  <2>4. Reads(p, <<"b">> \o <<c>>) = Reads(Reads(p, <<"b">>), <<c>>)
    BY <2>2, ReadsConcat
  <2>5. Reads(p, <<"b">>) = At(p, "stringEscape")
    <3>1. ParserStep(p, "b") = At(p, "stringEscape")
      BY DEF ParserStep, InString
    <3> QED BY <3>1, ReadsOne
  <2>6. At(p, "stringEscape").at = "stringEscape"
    BY DEF At, Parsers
  <2>7. ParserStep(At(p, "stringEscape"), c) = Escaped(At(p, "stringEscape"), c, "string")
    BY <2>6 DEF ParserStep
  <2> QED BY <2>3, <2>4, <2>5, <2>7, ReadsOne
<1>3. At(At(p, "stringEscape"), "string") = p
  BY DEF At, Parsers
<1>4. CASE ch \in {"q", "b"}
  <2>1. EscapePiece(ch) = <<"b", ch>>
    BY <1>4 DEF EscapePiece
  <2>2. Escaped(At(p, "stringEscape"), ch, "string") = [p EXCEPT !.text = Append(@, ch)]
    BY <1>3, <1>4 DEF Escaped
  <2> QED BY <2>1, <2>2, <1>2
<1>5. CASE ch = "nl"
  <2>1. EscapePiece(ch) = <<"b", "n">> /\ "n" \in Letters
    BY <1>5, LettersIn DEF EscapePiece
  <2>2. Escaped(At(p, "stringEscape"), "n", "string") = [p EXCEPT !.text = Append(@, ch)]
    BY <1>3, <1>5 DEF Escaped
  <2> QED BY <2>1, <2>2, <1>2
<1> QED BY <1>1, <1>4, <1>5

LEMMA EscapeSteps ==
    ASSUME NEW v \in Seq(Letters)
    PROVE  \E f : /\ f[0] = <<>> /\ \A k \in 1..Len(v) : f[k] = f[k - 1] \o EscapePiece(v[k])
                  /\ \A k \in 0..Len(v) : f[k] \in Seq(Letters)
                  /\ EscapeJsonString(v) = f[Len(v)]
<1> DEFINE seqs == [k \in 1..Len(v) |-> EscapePiece(v[k])]
<1>1. Len(v) \in Nat /\ \A k \in 1..Len(v) : v[k] \in Letters
  BY LenProperties
<1>2. ASSUME NEW k \in 1..Len(v) PROVE EscapePiece(v[k]) \in Seq(Letters)
  BY <1>1, PieceTyped
<1>3. seqs \in [1..Len(v) -> Seq(Letters)] /\ \A k \in 1..Len(v) : seqs[k] = EscapePiece(v[k])
  BY <1>2
<1>4. EscapeJsonString(v) = OnSeq!FlattenSeq(seqs)
  BY DEF EscapeJsonString, EscapePiece
<1> HIDE DEF seqs
<1>5. seqs \in Seq(Seq(Letters)) /\ Len(seqs) = Len(v)
  BY <1>1, <1>3, SeqDef, LenProperties
<1>6. PICK f : /\ f[0] = <<>> /\ \A k \in 1..Len(seqs) : f[k] = f[k - 1] \o seqs[k]
               /\ \A k \in 0..Len(seqs) : f[k] \in Seq(Letters)
               /\ OnSeq!FlattenSeq(seqs) = f[Len(seqs)]
  BY <1>5, FlattenSeqSteps
<1>7. \A k \in 1..Len(v) : f[k] = f[k - 1] \o EscapePiece(v[k])
  BY <1>3, <1>5, <1>6
<1> QED BY <1>4, <1>5, <1>6, <1>7

\* An escaped text is read as the text.
LEMMA EscapeReads ==
    ASSUME NEW p \in Parsers, p.at = "string", p.text = <<>>, NEW v \in Seq(Letters)
    PROVE  EscapeJsonString(v) \in Seq(Letters) /\ Reads(p, EscapeJsonString(v)) = [p EXCEPT !.text = v]
<1>1. Len(v) \in Nat /\ \A k \in 1..Len(v) : v[k] \in Letters
  BY LenProperties
<1>2. PICK f : /\ f[0] = <<>> /\ \A k \in 1..Len(v) : f[k] = f[k - 1] \o EscapePiece(v[k])
               /\ \A k \in 0..Len(v) : f[k] \in Seq(Letters)
               /\ EscapeJsonString(v) = f[Len(v)]
  BY EscapeSteps
<1> DEFINE T == {k \in 0..Len(v) : Reads(p, f[k]) = [p EXCEPT !.text = SubSeq(v, 1, k)]}
<1>3. 0 \in T
  <2>1. SubSeq(v, 1, 0) = <<>> /\ 0 \in 0..Len(v)
    BY <1>1, SubSeqEmpty
  <2>2. [p EXCEPT !.text = <<>>] = p
    BY DEF Parsers
  <2> QED BY <2>1, <2>2, <1>2, ReadsNothing
<1>4. ASSUME NEW k \in 1..Len(v), k - 1 \in T PROVE k \in T
  <2> DEFINE t == SubSeq(v, 1, k - 1)
             q == [p EXCEPT !.text = t]
  <2>1. k \in 0..Len(v) /\ k - 1 \in 0..Len(v) /\ k - 1 \in Nat /\ v[k] \in Letters /\ 1 \in 1..Len(v)
    BY <1>1
  <2>2. Reads(p, f[k - 1]) = q
    BY <1>4
  <2>3. t \in Seq(Letters)
    <3>1. \A i \in 1..k - 1 : v[i] \in Letters
      BY <2>1, <1>1
    <3> QED BY <3>1, <2>1, SubSeqProperties
  <2>4. SubSeq(v, 1, k) = Append(t, v[k])
    <3>1. SubSeq(v, 1, k) = t \o <<v[k]>>
      BY <2>1, SubSeqRecursiveSecond
    <3> QED BY <3>1, <2>1, <2>3, AppendIsConcat
  <2>5. Reads(p, f[k]) = Reads(q, EscapePiece(v[k]))
    <3>1. f[k - 1] \in Seq(Letters) /\ EscapePiece(v[k]) \in Seq(Letters)
          /\ f[k] = f[k - 1] \o EscapePiece(v[k])
      BY <2>1, <1>2, PieceTyped
    <3> QED BY <3>1, <2>2, ReadsConcat
  <2> HIDE DEF t
  <2>6. q \in Parsers /\ q.at = "string" /\ q.text = t
    BY <2>3 DEF Parsers
  <2>7. [q EXCEPT !.text = Append(@, v[k])] = [p EXCEPT !.text = Append(t, v[k])]
    BY DEF Parsers
  <2> HIDE DEF q
  <2>8. Reads(q, EscapePiece(v[k])) = [q EXCEPT !.text = Append(@, v[k])]
    BY <2>1, <2>6, PieceReads
  <2>9. Reads(p, f[k]) = [p EXCEPT !.text = SubSeq(v, 1, k)]
    BY <2>4, <2>5, <2>7, <2>8
  <2> QED BY <2>1, <2>9
<1> HIDE DEF T
<1>5. Len(v) \in T /\ Len(v) \in 0..Len(v)
  <2>1. \A k \in 0..Len(v) : k \in T
    BY <1>1, <1>3, <1>4, UpTo
  <2> QED BY <2>1, <1>1
<1>6. SubSeq(v, 1, Len(v)) = v
  BY SubSeqFull
<1> QED BY <1>2, <1>5, <1>6 DEF T


-----------------------------------------------------------------------------
(* The name of a field, and a field whose value is a text.                   *)

Names == {"type", "session", "client", "text", "pos"}

LEMMA NamesAreLetters == ASSUME NEW key \in Names PROVE key \in Letters /\ key \notin {"q", "b", "nl"}
BY LettersIn DEF Names

\* A text between quotation marks.
LEMMA QuotedTyped ==
    ASSUME NEW v \in Seq(Letters)
    PROVE  /\ Quoted(v) \in Seq(Letters) /\ EscapeJsonString(v) \in Seq(Letters)
           /\ <<"q">> \in Seq(Letters) /\ <<"q">> \o EscapeJsonString(v) \in Seq(Letters)
<1>1. EscapeJsonString(v) \in Seq(Letters)
  <2>1. PICK f : (\A k \in 0..Len(v) : f[k] \in Seq(Letters)) /\ EscapeJsonString(v) = f[Len(v)]
    BY EscapeSteps
  <2>2. Len(v) \in 0..Len(v)
    BY LenProperties
  <2> QED BY <2>1, <2>2
<1>2. <<"q">> \in Seq(Letters)
  BY LettersIn
<1>3. <<"q">> \o EscapeJsonString(v) \in Seq(Letters)
  BY <1>1, <1>2, ConcatProperties
<1>4. Quoted(v) \in Seq(Letters)
  <2> DEFINE u == <<"q">> \o EscapeJsonString(v)
             e == EscapeJsonString(v)
             q == <<"q">>
  <2>1. Quoted(v) = u \o q
    BY DEF Quoted
  <2>2. u \in Seq(Letters) /\ q \in Seq(Letters)
    BY <1>2, <1>3
  <2> HIDE DEF u, q
  <2> QED BY <2>1, <2>2, ConcatProperties
<1> QED BY <1>1, <1>2, <1>3, <1>4

LEMMA EscapeOne == ASSUME NEW ch \in Letters PROVE EscapeJsonString(<<ch>>) = EscapePiece(ch)
<1>1. <<ch>> \in Seq(Letters) /\ Len(<<ch>>) = 1 /\ <<ch>>[1] = ch /\ 1 \in 1..1 /\ 1 - 1 = 0
  OBVIOUS
<1>2. PICK f : /\ f[0] = <<>> /\ \A k \in 1..1 : f[k] = f[k - 1] \o EscapePiece(<<ch>>[k])
               /\ EscapeJsonString(<<ch>>) = f[1]
  BY <1>1, EscapeSteps
<1>3. f[1] = <<>> \o EscapePiece(ch)
  BY <1>1, <1>2
<1>4. EscapePiece(ch) \in Seq(Letters)
  BY PieceTyped
<1>5. <<>> \o EscapePiece(ch) = EscapePiece(ch)
  BY <1>4, ConcatEmptySeq
<1> QED BY <1>2, <1>3, <1>5

\* The name of a field.
LEMMA NameReads ==
    ASSUME NEW p \in Parsers, p.at = "key", NEW key \in Names
    PROVE  /\ Quoted(<<key>>) \o <<"colon">> \in Seq(Letters)
           /\ Reads(p, Quoted(<<key>>) \o <<"colon">>)
                = [p EXCEPT !.at = "value", !.key = <<key>>, !.text = <<key>>]
<1>1. key \in Letters /\ key \notin {"q", "b", "nl"} /\ "q" \in Letters /\ "colon" \in Letters
  BY NamesAreLetters, LettersIn
<1>2. <<key>> \in Seq(Letters) /\ <<"q">> \in Seq(Letters) /\ <<"colon">> \in Seq(Letters)
  BY <1>1
<1>3. EscapeJsonString(<<key>>) = <<key>>
  BY <1>1, EscapeOne DEF EscapePiece
<1> DEFINE a == <<"q">> \o <<key>>
           b == a \o <<"q">>
           p1 == [p EXCEPT !.at = "name", !.text = <<>>]
           p2 == [p EXCEPT !.at = "name", !.text = <<key>>]
           p3 == [p EXCEPT !.at = "colon", !.key = <<key>>, !.text = <<key>>]
           p4 == [p EXCEPT !.at = "value", !.key = <<key>>, !.text = <<key>>]
<1>4. a \in Seq(Letters) /\ b \in Seq(Letters) /\ b \o <<"colon">> \in Seq(Letters) /\ Quoted(<<key>>) = b
  <2>1. Quoted(<<key>>) = b
    BY <1>3 DEF Quoted
  <2>2. a \in Seq(Letters)
    BY <1>2, ConcatProperties
  <2>3. b \in Seq(Letters)
    <3> HIDE DEF a
    <3> QED BY <2>2, <1>2, ConcatProperties
  <2>4. b \o <<"colon">> \in Seq(Letters)
    <3> HIDE DEF b
    <3> QED BY <2>3, <1>2, ConcatProperties
  <2> QED BY <2>1, <2>2, <2>3, <2>4
<1>5. Reads(p, <<"q">>) = p1
  <2>1. ParserStep(p, "q") = p1
    BY DEF ParserStep, At, Parsers
  <2> QED BY <2>1, ReadsOne
<1>6. Reads(p1, <<key>>) = p2
  <2>1. p1.at = "name" /\ p1.text = <<>>
    BY DEF Parsers
  <2>2. ParserStep(p1, key) = [p1 EXCEPT !.text = Append(@, key)]
    <3> HIDE DEF p1
    <3> QED BY <2>1, <1>1 DEF ParserStep, InString
  <2>3. Append(p1.text, key) = <<key>>
    BY <2>1
  <2>4. [p1 EXCEPT !.text = <<key>>] = p2
    BY DEF Parsers
  <2>5. [p1 EXCEPT !.text = Append(@, key)] = [p1 EXCEPT !.text = <<key>>]
    <3> HIDE DEF p1
    <3> QED BY <2>3
  <2> QED BY <2>2, <2>4, <2>5, ReadsOne
<1>7. Reads(p2, <<"q">>) = p3
  <2>1. p2.at = "name" /\ p2.text = <<key>>
    BY DEF Parsers
  <2>2. ParserStep(p2, "q") = [At(p2, "colon") EXCEPT !.key = <<key>>]
    <3> HIDE DEF p2
    <3> QED BY <2>1 DEF ParserStep, InString
  <2>3. [At(p2, "colon") EXCEPT !.key = <<key>>] = p3
    BY DEF At, Parsers
  <2> QED BY <2>2, <2>3, ReadsOne
<1>8. Reads(p3, <<"colon">>) = p4
  <2>1. p3.at = "colon"
    BY DEF Parsers
  <2>2. ParserStep(p3, "colon") = At(p3, "value")
    <3> HIDE DEF p3
    <3> QED BY <2>1 DEF ParserStep
  <2>3. At(p3, "value") = p4
    BY DEF At, Parsers
  <2> QED BY <2>2, <2>3, ReadsOne
<1> HIDE DEF p1, p2, p3
<1>9. Reads(p, a) = p2
  BY <1>2, <1>5, <1>6, ReadsConcat
<1>10. Reads(p, b) = p3
  <2> HIDE DEF a
  <2>1. b = a \o <<"q">> /\ a \in Seq(Letters) /\ <<"q">> \in Seq(Letters)
    BY <1>2, <1>4
  <2>2. Reads(p, a \o <<"q">>) = Reads(Reads(p, a), <<"q">>)
    BY ONLY <2>1, ReadsConcat
  <2> QED BY ONLY <2>1, <2>2, <1>7, <1>9
<1>11. Reads(p, b \o <<"colon">>) = p4
  <2> HIDE DEF a, b, p4
  <2>2. b \in Seq(Letters) /\ <<"colon">> \in Seq(Letters)
    BY <1>2, <1>4
  <2>1. Reads(p, b \o <<"colon">>) = Reads(Reads(p, b), <<"colon">>)
    BY ONLY <2>2, ReadsConcat
  <2> QED BY ONLY <2>1, <1>8, <1>10
<1> QED BY <1>4, <1>11

\* A field whose value is a text.
LEMMA StringFieldReads ==
    ASSUME NEW p \in Parsers, p.at = "key", NEW key \in Names, NEW v \in Seq(Letters)
    PROVE  /\ StringField(key, v) \in Seq(Letters)
           /\ Reads(p, StringField(key, v))
                = At(SetString([p EXCEPT !.at = "string", !.key = <<key>>, !.text = v]), "after")
<1> DEFINE a == Quoted(<<key>>) \o <<"colon">>
           b == <<"q">> \o EscapeJsonString(v)
           p1 == [p EXCEPT !.at = "value", !.key = <<key>>, !.text = <<key>>]
           p2 == [p EXCEPT !.at = "string", !.key = <<key>>, !.text = <<>>]
           p3 == [p EXCEPT !.at = "string", !.key = <<key>>, !.text = v]
<1>1. a \in Seq(Letters) /\ Reads(p, a) = p1
  BY NameReads
<1>2. /\ Quoted(v) \in Seq(Letters) /\ Quoted(v) = b \o <<"q">> /\ b \in Seq(Letters)
      /\ <<"q">> \in Seq(Letters) /\ EscapeJsonString(v) \in Seq(Letters)
  BY QuotedTyped DEF Quoted
<1>3. StringField(key, v) = a \o Quoted(v)
  BY DEF StringField
<1>4. Reads(p1, <<"q">>) = p2
  <2>1. p1.at = "value"
    BY DEF Parsers
  <2>2. ParserStep(p1, "q") = [At(p1, "string") EXCEPT !.text = <<>>]
    <3> HIDE DEF p1
    <3>1. ~ IsDigit("q")
      BY DEF IsDigit, Digit
    <3>2. ParserStep(p1, "q") = CASE "q" = "q" -> [At(p1, "string") EXCEPT !.text = <<>>]
                                  [] IsDigit("q") -> InNumber([p1 EXCEPT !.n = 0], "q")
                                  [] OTHER -> Invalid(p1)
      BY <2>1 DEF ParserStep
    <3> QED BY <3>1, <3>2
  <2>3. [At(p1, "string") EXCEPT !.text = <<>>] = p2
    BY DEF At, Parsers
  <2> QED BY <2>2, <2>3, ReadsOne
<1>5. Reads(p2, EscapeJsonString(v)) = p3
  <2>1. p2 \in Parsers /\ p2.at = "string" /\ p2.text = <<>>
    <3>1. key \in Letters
      BY NamesAreLetters
    <3>2. <<key>> \in Seq(Letters) /\ <<>> \in Seq(Letters) /\ "string" \in Places
      BY <3>1, EmptySeq, PlacesIn
    <3> QED BY <3>2 DEF Parsers
  <2>2. [p2 EXCEPT !.text = v] = p3
    BY DEF Parsers
  <2> HIDE DEF p2, p3
  <2> QED BY <2>1, <2>2, EscapeReads
<1>6. Reads(p3, <<"q">>) = At(SetString(p3), "after")
  <2>1. p3.at = "string"
    BY DEF Parsers
  <2>2. ParserStep(p3, "q") = At(SetString(p3), "after")
    <3> HIDE DEF p3
    <3> QED BY <2>1 DEF ParserStep, InString
  <2> QED BY <2>2, ReadsOne
<1> HIDE DEF p1, p2, p3, a
<1>7. Reads(p1, b) = p3
  BY <1>2, <1>4, <1>5, ReadsConcat
<1>8. Reads(p1, b \o <<"q">>) = At(SetString(p3), "after")
  <2> HIDE DEF b
  <2>1. b \in Seq(Letters) /\ <<"q">> \in Seq(Letters)
    BY <1>2
  <2>2. Reads(p1, b \o <<"q">>) = Reads(Reads(p1, b), <<"q">>)
    BY ONLY <2>1, ReadsConcat
  <2> QED BY ONLY <2>2, <1>6, <1>7
<1>9. Reads(p, StringField(key, v)) = At(SetString(p3), "after")
  <2>1. Reads(p, a \o Quoted(v)) = Reads(Reads(p, a), Quoted(v))
    BY <1>1, <1>2, ReadsConcat
  <2> QED BY <2>1, <1>1, <1>2, <1>3, <1>8
<1>10. StringField(key, v) \in Seq(Letters)
  BY <1>1, <1>2, <1>3, ConcatProperties
<1> QED BY <1>9, <1>10 DEF p3

TypeOf(v) == IF Len(v) = 1 /\ v[1] \in Type THEN v[1] ELSE "UNKNOWN"

\* What the parser knows after such a field.
LEMMA StringFieldOutcome ==
    ASSUME NEW p \in Parsers, p.at = "key", NEW key \in Names, NEW v \in Seq(Letters)
    PROVE  LET r == Reads(p, StringField(key, v))
           IN  /\ r \in Parsers /\ r.at = "after" /\ r.numbers = p.numbers
               /\ r.type = IF key = "type" THEN TypeOf(v) ELSE p.type
               /\ r.session = IF key = "session" THEN v ELSE p.session
               /\ r.client = IF key = "client" THEN v ELSE p.client
               /\ key \in {"type", "session", "client"} => r.strings = p.strings
               /\ key = "text" => r.strings = Append(p.strings, <<<<"text">>, v>>)
<1> DEFINE q == [p EXCEPT !.at = "string", !.key = <<key>>, !.text = v]
           r == Reads(p, StringField(key, v))
<1>1. r = At(SetString(q), "after") /\ r \in Parsers
  BY StringFieldReads, ReadsTyped
<1>2. /\ q.key = <<key>> /\ q.text = v /\ q.type = p.type /\ q.session = p.session
      /\ q.client = p.client /\ q.strings = p.strings /\ q.numbers = p.numbers
      /\ q \in Parsers
  <2>1. key \in Letters
    BY NamesAreLetters
  <2>2. <<key>> \in Seq(Letters) /\ "string" \in Places
    BY <2>1, PlacesIn
  <2> QED BY <2>2 DEF Parsers
<1> HIDE DEF q, r
<1>3. \A x, y : <<x>> = <<y>> <=> x = y
  OBVIOUS
<1>4. CASE key = "type"
  <2>1. SetString(q) = [q EXCEPT !.type = TypeOf(v)]
    BY <1>2, <1>4 DEF SetString, TypeOf
  <2> QED BY <1>1, <1>2, <1>4, <2>1 DEF At, Parsers, r
<1>5. CASE key = "session"
  <2>1. SetString(q) = [q EXCEPT !.session = v]
    BY <1>2, <1>3, <1>5 DEF SetString
  <2> QED BY <1>1, <1>2, <1>5, <2>1 DEF At, Parsers, r
<1>6. CASE key = "client"
  <2>1. SetString(q) = [q EXCEPT !.client = v]
    BY <1>2, <1>3, <1>6 DEF SetString
  <2> QED BY <1>1, <1>2, <1>6, <2>1 DEF At, Parsers, r
<1>7. CASE key \notin {"type", "session", "client"}
  <2> DEFINE more == Append(p.strings, <<<<key>>, v>>)
  <2>1. SetString(q) = [q EXCEPT !.strings = more]
    BY <1>2, <1>3, <1>7 DEF SetString
  <2>2. key = "text" => more = Append(p.strings, <<<<"text">>, v>>)
    OBVIOUS
  <2> HIDE DEF more
  <2>3. /\ r.numbers = p.numbers /\ r.at = "after" /\ r.type = p.type
        /\ r.session = p.session /\ r.client = p.client /\ r.strings = more
    BY <1>1, <1>2, <2>1 DEF At, Parsers
  <2> QED BY <1>1, <1>7, <2>2, <2>3 DEF r
<1> QED BY <1>4, <1>5, <1>6, <1>7

-----------------------------------------------------------------------------
(* A number, written and read.                                               *)

LEMMA DigitReads ==
    ASSUME NEW d \in 0..9
    PROVE  IsDigit(Digit[d + 1]) /\ DigitValue(Digit[d + 1]) = d
<1>1. ASSUME NEW i \in 1..10, NEW j \in 1..10, Digit[i] = Digit[j] PROVE i = j
  <2>1. i \in {1, 2, 3, 4, 5, 6, 7, 8, 9, 10} /\ j \in {1, 2, 3, 4, 5, 6, 7, 8, 9, 10}
    OBVIOUS
  <2> QED BY <1>1, <2>1 DEF Digit
<1>2. d + 1 \in 1..10
  OBVIOUS
<1>3. IsDigit(Digit[d + 1])
  BY <1>2 DEF IsDigit
<1> DEFINE c == CHOOSE i \in 1..10 : Digit[i] = Digit[d + 1]
<1>4. c \in 1..10 /\ Digit[c] = Digit[d + 1]
  BY <1>2
<1>5. DigitValue(Digit[d + 1]) = c - 1
  BY DEF DigitValue
<1> HIDE DEF c
<1>6. c = d + 1
  BY <1>1, <1>2, <1>4
<1> QED BY <1>3, <1>5, <1>6

\* std::to_string writes the digits of a smaller number first.
IsDigits(n, f) == f = [k \in 0..n |-> IF k < 10 THEN <<Digit[k + 1]>>
                                      ELSE Append(f[k \div 10], Digit[(k % 10) + 1])]

LEMMA Tenth ==
    ASSUME NEW k \in Nat, k >= 10, NEW a, a = k \div 10, NEW d, d = k % 10
    PROVE  a \in 0..k - 1 /\ d \in 0..9 /\ k = a * 10 + d
<1>1. k % 10 = k - 10 * (k \div 10)
  OBVIOUS
<1>2. k % 10 \in 0..9
  OBVIOUS
<1>3. k \div 10 \in Int
  OBVIOUS
<1>4. a \in Int /\ d \in 0..9 /\ d = k - 10 * a
  BY <1>1, <1>2, <1>3
<1>5. k = a * 10 + d
  BY <1>4
<1>6. a \in 0..k - 1
  BY <1>4, <1>5
<1> QED BY <1>4, <1>5, <1>6

\* What ParseUnsigned asks before it takes a digit.
LEMMA NoOverflow ==
    ASSUME NEW max \in Nat, NEW a \in Nat, NEW d \in 0..9, a * 10 + d <= max
    PROVE  ~ (a > (max - d) \div 10)
<1>1. max - d \in Nat /\ a * 10 <= max - d
  OBVIOUS
<1> DEFINE r == max - d
<1>2. r \in Nat /\ a * 10 <= r
  BY <1>1
<1> HIDE DEF r
<1>3. a <= r \div 10 /\ r \div 10 \in Int
  BY <1>2
<1>4. ~ (a > r \div 10)
  BY <1>3
<1> QED BY <1>4 DEF r

LEMMA DigitsExist == ASSUME NEW n \in Nat PROVE \E f : IsDigits(n, f)
<1> DEFINE Value(f, k) == IF k < 10 THEN <<Digit[k + 1]>> ELSE Append(f[k \div 10], Digit[(k % 10) + 1])
           Is(f, k) == f = [i \in 0..k |-> Value(f, i)]
           T == {k \in Nat : \A f : ~ Is(f, k)}
<1>1. SUFFICES ASSUME \A f : ~ Is(f, n) PROVE FALSE
  BY DEF IsDigits
<1>2. n \in T
  BY <1>1
<1>3. PICK k \in T : \A y \in T : k <= y
  <2> HIDE DEF T
  <2>1. T \in SUBSET Nat
    BY DEF T
  <2> QED BY <2>1, <1>2, LeastElement
<1>4. k \in Nat /\ \A f : ~ Is(f, k)
  OBVIOUS
<1>5. k # 0
  <2> DEFINE f == [i \in 0..0 |-> <<Digit[1]>>]
  <2>1. ASSUME NEW i \in 0..0 PROVE f[i] = Value(f, i)
    <3>1. i = 0 /\ i < 10 /\ i + 1 = 1
      OBVIOUS
    <3> QED BY <3>1
  <2>2. f = [i \in 0..0 |-> f[i]]
    OBVIOUS
  <2> HIDE DEF f, Value
  <2>3. Is(f, 0)
    BY <2>1, <2>2
  <2> HIDE DEF Is
  <2> QED BY <1>4, <2>3
<1>6. PICK f : Is(f, k - 1)
  <2>1. k - 1 \in Nat /\ ~ (k <= k - 1)
    BY <1>4, <1>5
  <2>2. k - 1 \notin T
    <3> HIDE DEF T
    <3> QED BY <2>1, <1>3
  <2> QED BY <2>1, <2>2
<1> DEFINE g == [i \in 0..k |-> IF i = k THEN Value(f, k) ELSE f[i]]
<1>7. ASSUME NEW i \in 0..k PROVE g[i] = Value(f, i)
  <2>1. CASE i # k
    <3>1. i \in 0..k - 1
      BY <2>1, <1>4
    <3>2. g[i] = f[i]
      BY <2>1
    <3> HIDE DEF g, Value
    <3> QED BY <3>1, <3>2, <1>6
  <2>2. CASE i = k
    BY <2>2
  <2> QED BY <2>1, <2>2
<1>8. ASSUME NEW i \in 0..k PROVE Value(g, i) = Value(f, i)
  <2>1. CASE i < 10
    BY <2>1
  <2>2. CASE ~ (i < 10)
    <3>1. i \div 10 \in 0..k /\ i \div 10 # k
      <4>1. i \in Nat /\ i >= 10 /\ i <= k
        BY <2>2, <1>4
      <4> QED BY <4>1, <1>4, Tenth
    <3>2. g[i \div 10] = f[i \div 10]
      BY <3>1
    <3> HIDE DEF g
    <3> QED BY <3>2
  <2> QED BY <2>1, <2>2
<1>9. g = [i \in 0..k |-> g[i]]
  OBVIOUS
<1> HIDE DEF g, Value
<1>10. Is(g, k)
  BY <1>7, <1>8, <1>9
<1> HIDE DEF Is
<1> QED BY <1>4, <1>10

LEMMA DecimalSteps ==
    ASSUME NEW n \in Nat
    PROVE  \E f : /\ \A k \in 0..n : f[k] = IF k < 10 THEN <<Digit[k + 1]>>
                                           ELSE Append(f[k \div 10], Digit[(k % 10) + 1])
                  /\ Decimal(n) = f[n]
<1> DEFINE f == CHOOSE g : IsDigits(n, g)
<1>1. Decimal(n) = f[n]
  BY DEF Decimal, IsDigits
<1>2. IsDigits(n, f)
  BY DigitsExist
<1> HIDE DEF f
<1>3. ASSUME NEW k \in 0..n
      PROVE  f[k] = IF k < 10 THEN <<Digit[k + 1]>> ELSE Append(f[k \div 10], Digit[(k % 10) + 1])
  BY <1>2 DEF IsDigits
<1> QED BY <1>1, <1>3

\* A number in decimal is read as the number, if it is not larger than the parser admits.
LEMMA DecimalReads ==
    ASSUME NEW p \in Parsers, p.at = "value", NEW n \in 0..MaxNumber
    PROVE  Decimal(n) \in Seq(Letters) /\ Reads(p, Decimal(n)) = [p EXCEPT !.at = "number", !.n = n]
<1>0. n \in Nat /\ MaxNumber \in Nat /\ \A k \in 0..n : k \in Nat /\ k <= MaxNumber
  BY LimitsAreNat
<1>1. PICK f : /\ \A k \in 0..n : f[k] = IF k < 10 THEN <<Digit[k + 1]>>
                                           ELSE Append(f[k \div 10], Digit[(k % 10) + 1])
               /\ Decimal(n) = f[n]
  BY <1>0, DecimalSteps
<1> DEFINE Good(k) == f[k] \in Seq(Letters) /\ Reads(p, f[k]) = [p EXCEPT !.at = "number", !.n = k]
           T == {k \in 0..n : ~ Good(k)}
<1>2. T = {}
  <2>1. SUFFICES ASSUME T # {} PROVE FALSE
    OBVIOUS
  <2>2. PICK k \in T : \A y \in T : k <= y
    <3>1. T \in SUBSET Nat
      BY <1>0
    <3> HIDE DEF T
    <3> QED BY <3>1, <2>1, LeastElement
  <2>3. k \in 0..n /\ ~ Good(k) /\ k \in Nat /\ k <= MaxNumber
    BY <1>0
  <2>4. CASE k < 10
    <3>1. f[k] = <<Digit[k + 1]>> /\ k \in 0..9 /\ k + 1 \in 1..10
      <4>1. k \in 0..9 /\ k + 1 \in 1..10
        BY <2>3, <2>4
      <4>2. f[k] = <<Digit[k + 1]>>
        BY <2>3, <2>4, <1>1
      <4> QED BY <4>1, <4>2
    <3>2. IsDigit(Digit[k + 1]) /\ DigitValue(Digit[k + 1]) = k /\ Digit[k + 1] \in Letters
          /\ Digit[k + 1] # "q"
      <4>1. Digit[k + 1] # "q"
        <5>1. k + 1 \in {1, 2, 3, 4, 5, 6, 7, 8, 9, 10}
          BY <3>1
        <5> QED BY <5>1 DEF Digit
      <4> QED BY <3>1, <4>1, DigitReads, LettersIn
    <3> DEFINE ch == Digit[k + 1]
    <3> HIDE DEF ch
    <3>3. ParserStep(p, ch) = InNumber([p EXCEPT !.n = 0], ch)
      <4>1. ParserStep(p, ch) = CASE ch = "q" -> [At(p, "string") EXCEPT !.text = <<>>]
                                  [] IsDigit(ch) -> InNumber([p EXCEPT !.n = 0], ch)
                                  [] OTHER -> Invalid(p)
        BY DEF ParserStep
      <4> QED BY <4>1, <3>2 DEF ch
    <3>4. ~ (0 > (MaxNumber - k) \div 10)
      <4>1. MaxNumber - k \in Nat
        BY <2>3, <1>0
      <4> QED BY <4>1
    <3>5. InNumber([p EXCEPT !.n = 0], ch) = [p EXCEPT !.at = "number", !.n = k]
      <4>0. [p EXCEPT !.n = 0].n = 0 /\ DigitValue(ch) = k
        BY <3>2 DEF Parsers, ch
      <4>1. InNumber([p EXCEPT !.n = 0], ch) = [At([p EXCEPT !.n = 0], "number") EXCEPT !.n = 0 * 10 + k]
        BY <4>0, <3>4 DEF InNumber
      <4>2. 0 * 10 + k = k
        BY <2>3
      <4> QED BY <4>1, <4>2 DEF At, Parsers
    <3>6. f[k] \in Seq(Letters) /\ f[k] = <<ch>>
      BY <3>1, <3>2 DEF ch
    <3>7. Good(k)
      BY <3>3, <3>5, <3>6, ReadsOne
    <3> QED BY <2>3, <3>7
  <2>5. CASE ~ (k < 10)
    <3> DEFINE a == k \div 10
               d == k % 10
               ch == Digit[d + 1]
    <3>1. a \in 0..k - 1 /\ d \in 0..9 /\ k = a * 10 + d /\ a \in 0..n /\ ~ (k <= a)
      <4>1. k >= 10
        BY <2>3, <2>5
      <4>2. a \in 0..k - 1 /\ d \in 0..9 /\ k = a * 10 + d
        BY <4>1, <2>3, Tenth
      <4> HIDE DEF a, d
      <4> QED BY <4>2, <2>3
    <3>2. f[k] = Append(f[a], ch)
      BY <2>3, <2>5, <1>1
    <3> HIDE DEF a, d
    <3>3. IsDigit(ch) /\ DigitValue(ch) = d /\ ch \in Letters
      <4>1. d + 1 \in 1..10
        BY <3>1
      <4> QED BY <4>1, <3>1, DigitReads, LettersIn
    <3> HIDE DEF ch
    <3>4. Good(a)
      <4>1. a \notin T
        <5> HIDE DEF T
        <5> QED BY <2>2, <3>1
      <4> QED BY <4>1, <3>1
    <3> DEFINE q == [p EXCEPT !.at = "number", !.n = a]
    <3>5. q.at = "number" /\ q.n = a /\ [At(q, "number") EXCEPT !.n = k] = [p EXCEPT !.at = "number", !.n = k]
      BY DEF At, Parsers
    <3>6. Reads(p, f[k]) = ParserStep(q, ch)
      <4>1. f[a] \in Seq(Letters) /\ <<ch>> \in Seq(Letters) /\ Reads(p, f[a]) = q
        BY <3>3, <3>4
      <4> DEFINE u == f[a]
                 v == <<ch>>
      <4>3. u \in Seq(Letters) /\ v \in Seq(Letters) /\ Reads(p, u) = q /\ f[k] = Append(u, ch)
            /\ ch \in Letters
        BY <4>1, <3>2, <3>3
      <4> HIDE DEF q, u
      <4>2. f[k] = u \o v
        BY ONLY <4>3, AppendIsConcat
      <4>5. Reads(q, v) = ParserStep(q, ch)
        BY ONLY ReadsOne
      <4> HIDE DEF v
      <4>4. Reads(p, u \o v) = Reads(Reads(p, u), v)
        BY ONLY <4>3, ReadsConcat
      <4> QED BY ONLY <4>2, <4>3, <4>4, <4>5
    <3> HIDE DEF q
    <3>7. ParserStep(q, ch) = InNumber(q, ch)
      BY <3>3, <3>5 DEF ParserStep
    <3>8. ~ (a > (MaxNumber - d) \div 10)
      <4>1. MaxNumber \in Nat /\ k <= MaxNumber
        BY <2>3, <1>0
      <4>2. a \in Nat /\ d \in 0..9 /\ k = a * 10 + d
        BY <3>1, <2>3
      <4>3. a * 10 + d <= MaxNumber
        BY <4>1, <4>2
      <4> QED BY <4>1, <4>2, <4>3, NoOverflow
    <3>9. InNumber(q, ch) = [p EXCEPT !.at = "number", !.n = k]
      <4>1. InNumber(q, ch) = [At(q, "number") EXCEPT !.n = a * 10 + d]
        BY <3>3, <3>5, <3>8 DEF InNumber
      <4> QED BY <4>1, <3>1, <3>5
    <3>10. f[k] \in Seq(Letters)
      BY <3>2, <3>3, <3>4, AppendProperties
    <3>11. Good(k)
      BY <3>6, <3>7, <3>9, <3>10
    <3> QED BY <2>3, <3>11
  <2> QED BY <2>4, <2>5
<1>3. Good(n)
  <2>1. n \in 0..n
    BY <1>0
  <2> HIDE DEF Good
  <2> QED BY <2>1, <1>2
<1> QED BY <1>1, <1>3

\* A field whose value is a number; it ends where what follows begins.
LEMMA NumberFieldReads ==
    ASSUME NEW p \in Parsers, p.at = "key", NEW n \in 0..MaxNumber
    PROVE  LET r == Reads(p, NumberField("pos", n))
           IN  /\ NumberField("pos", n) \in Seq(Letters)
               /\ r \in Parsers /\ r.at = "number" /\ r.key = <<"pos">> /\ r.n = n
               /\ r.type = p.type /\ r.session = p.session /\ r.client = p.client
               /\ r.strings = p.strings /\ r.numbers = p.numbers
<1> DEFINE a == Quoted(<<"pos">>) \o <<"colon">>
           p1 == [p EXCEPT !.at = "value", !.key = <<"pos">>, !.text = <<"pos">>]
           p2 == [p EXCEPT !.at = "number", !.key = <<"pos">>, !.text = <<"pos">>, !.n = n]
<1>1. a \in Seq(Letters) /\ Reads(p, a) = p1
  <2>1. "pos" \in Names
    BY DEF Names
  <2> QED BY <2>1, NameReads
<1>2. p1 \in Parsers /\ p1.at = "value"
  <2>1. <<"pos">> \in Seq(Letters) /\ "value" \in Places
    BY LettersIn, PlacesIn
  <2> QED BY <2>1 DEF Parsers
<1>3. Decimal(n) \in Seq(Letters) /\ Reads(p1, Decimal(n)) = p2
  <2>1. [p1 EXCEPT !.at = "number", !.n = n] = p2
    BY DEF Parsers
  <2> HIDE DEF p1, p2
  <2> QED BY <2>1, <1>2, DecimalReads
<1>4. NumberField("pos", n) = a \o Decimal(n)
  BY DEF NumberField
<1> HIDE DEF a, p1
<1>5. NumberField("pos", n) \in Seq(Letters) /\ Reads(p, NumberField("pos", n)) = p2
  <2>1. Reads(p, a \o Decimal(n)) = Reads(Reads(p, a), Decimal(n))
    BY <1>1, <1>3, ReadsConcat
  <2>2. a \o Decimal(n) \in Seq(Letters)
    BY <1>1, <1>3, ConcatProperties
  <2> HIDE DEF p2
  <2> QED BY <2>1, <2>2, <1>1, <1>3, <1>4
<1>6. /\ p2 \in Parsers /\ p2.at = "number" /\ p2.key = <<"pos">> /\ p2.n = n
      /\ p2.type = p.type /\ p2.session = p.session /\ p2.client = p.client
      /\ p2.strings = p.strings /\ p2.numbers = p.numbers
  <2>1. <<"pos">> \in Seq(Letters) /\ "number" \in Places /\ n \in Nat
    <3>1. "pos" \in Letters
      BY Zenon, LettersIn
    <3>2. "number" \in Places
      BY Zenon, PlacesIn
    <3>3. MaxNumber \in Nat
      BY LimitsAreNat
    <3> QED BY <3>1, <3>2, <3>3
  <2> QED BY <2>1 DEF Parsers
<1> QED BY <1>5, <1>6

-----------------------------------------------------------------------------
(* A message, written and read.                                              *)

Messages == [type : STRING, session : Seq(STRING), client : Seq(STRING),
             text : Seq(Seq(STRING)), pos : Seq(0..MaxNumber)]

LEMMA MessageTyped ==
    ASSUME NEW m \in Messages
    PROVE  /\ <<m.type>> \in Seq(Letters) /\ m.session \in Seq(Letters) /\ m.client \in Seq(Letters)
           /\ Len(m.text) \in Nat /\ \A k \in 1..Len(m.text) : m.text[k] \in Seq(Letters)
           /\ Len(m.pos) \in Nat /\ \A k \in 1..Len(m.pos) : m.pos[k] \in 0..MaxNumber
<1>1. STRING \subseteq Letters
  BY LettersIn
<1>2. ASSUME NEW s \in Seq(STRING) PROVE s \in Seq(Letters)
  <2>1. Len(s) \in Nat /\ s \in [1..Len(s) -> STRING]
    BY LenProperties
  <2>2. s \in [1..Len(s) -> Letters]
    BY <2>1, <1>1
  <2> QED BY <2>1, <2>2, SeqDef
<1>3. /\ m.type \in STRING /\ m.session \in Seq(STRING) /\ m.client \in Seq(STRING)
      /\ m.text \in Seq(Seq(STRING)) /\ m.pos \in Seq(0..MaxNumber)
  BY DEF Messages
<1>4. Len(m.text) \in Nat /\ \A k \in 1..Len(m.text) : m.text[k] \in Seq(STRING)
  BY <1>3, LenProperties
<1>5. Len(m.pos) \in Nat /\ \A k \in 1..Len(m.pos) : m.pos[k] \in 0..MaxNumber
  BY <1>3, LenProperties
<1>6. <<m.type>> \in Seq(STRING)
  BY <1>3
<1> QED BY <1>2, <1>3, <1>4, <1>5, <1>6

\* A number is taken when what follows it is seen.
Ready(p) == IF p.at = "number" THEN SetNumber(p) ELSE p

LEMMA ValueEnds ==
    ASSUME NEW p \in Parsers, p.at \in {"after", "number"}
    PROVE  /\ Reads(p, <<"comma">>) = At(Ready(p), "key")
           /\ Reads(p, <<"close">>) = At(Ready(p), "end")
           /\ At(Ready(p), "key") \in Parsers
<1>1. ~ IsDigit("comma") /\ ~ IsDigit("close")
  BY DEF IsDigit, Digit
<1>2. Ready(p) \in Parsers
  BY SetNumberTyped DEF Ready
<1>3. At(Ready(p), "key") \in Parsers
  BY <1>2, AtTyped, PlacesIn
<1>4. ASSUME NEW q PROVE AfterValue(q, "comma") = At(q, "key") /\ AfterValue(q, "close") = At(q, "end")
  BY DEF AfterValue
<1>5. CASE p.at = "after"
  <2>1. ParserStep(p, "comma") = AfterValue(p, "comma") /\ ParserStep(p, "close") = AfterValue(p, "close")
    BY <1>5 DEF ParserStep
  <2> QED BY <2>1, <1>3, <1>4, <1>5, ReadsOne DEF Ready
<1>6. CASE p.at = "number"
  <2>1. /\ ParserStep(p, "comma") = AfterValue(SetNumber(p), "comma")
        /\ ParserStep(p, "close") = AfterValue(SetNumber(p), "close")
    BY <1>1, <1>6 DEF ParserStep
  <2> QED BY <2>1, <1>3, <1>4, <1>6, ReadsOne DEF Ready
<1> QED BY <1>5, <1>6

\* The parser stands behind a value and knows i of the texts and j of the numbers.
Knows(p, m, i, j) ==
    /\ p \in Parsers /\ p.at \in {"after", "number"}
    /\ Ready(p).type = m.type /\ Ready(p).session = m.session /\ Ready(p).client = m.client
    /\ Len(Ready(p).strings) = i /\ \A k \in 1..i : Ready(p).strings[k] = <<<<"text">>, m.text[k]>>
    /\ Len(Ready(p).numbers) = j /\ \A k \in 1..j : Ready(p).numbers[k] = <<<<"pos">>, m.pos[k]>>

LEMMA KnowsNextText ==
    ASSUME NEW m \in Messages, NEW i \in 1..Len(m.text), NEW j \in Nat, NEW p, Knows(p, m, i - 1, j)
    PROVE  /\ <<"comma">> \o StringField("text", m.text[i]) \in Seq(Letters)
           /\ Knows(Reads(p, <<"comma">> \o StringField("text", m.text[i])), m, i, j)
<1> DEFINE q == At(Ready(p), "key")
           v == m.text[i]
           field == StringField("text", v)
           r == Reads(q, field)
<1>1. v \in Seq(Letters) /\ "text" \in Names /\ <<"comma">> \in Seq(Letters)
  BY MessageTyped, LettersIn DEF Names
<1>2. p \in Parsers /\ p.at \in {"after", "number"}
  BY DEF Knows
<1>3. q \in Parsers /\ q.at = "key" /\ Reads(p, <<"comma">>) = q
  <2>1. q \in Parsers /\ Reads(p, <<"comma">>) = q
    BY <1>2, ValueEnds
  <2>2. Ready(p) \in Parsers
    BY <1>2, SetNumberTyped DEF Ready
  <2>3. q.at = "key"
    BY <2>2 DEF At, Parsers
  <2> QED BY <2>1, <2>3
<1>4. /\ q.type = m.type /\ q.session = m.session /\ q.client = m.client
      /\ q.strings = Ready(p).strings /\ q.numbers = Ready(p).numbers
  <2>1. Ready(p) \in Parsers
    BY <1>2, SetNumberTyped DEF Ready
  <2>2. /\ q.type = Ready(p).type /\ q.session = Ready(p).session /\ q.client = Ready(p).client
        /\ q.strings = Ready(p).strings /\ q.numbers = Ready(p).numbers
    <3> DEFINE s == Ready(p)
    <3> HIDE DEF s
    <3>1. s \in Parsers => /\ At(s, "key").type = s.type /\ At(s, "key").session = s.session /\ At(s, "key").client = s.client
                           /\ At(s, "key").strings = s.strings /\ At(s, "key").numbers = s.numbers
      BY DEF At, Parsers
    <3> QED BY <2>1, <3>1 DEF s
  <2> QED BY <2>2 DEF Knows
<1> HIDE DEF q, v
<1>5. field \in Seq(Letters)
  BY <1>1, <1>3, StringFieldReads
<1>6. /\ r \in Parsers /\ r.at = "after" /\ r.numbers = q.numbers
      /\ r.type = q.type /\ r.session = q.session /\ r.client = q.client
      /\ r.strings = Append(q.strings, <<<<"text">>, v>>)
  <2>1. "text" # "type" /\ "text" # "session" /\ "text" # "client"
    OBVIOUS
  <2> QED BY <2>1, <1>1, <1>3, StringFieldOutcome
<1>7. Reads(p, <<"comma">> \o field) = r
  <2> HIDE DEF field
  <2>1. Reads(p, <<"comma">> \o field) = Reads(Reads(p, <<"comma">>), field)
    BY <1>1, <1>5, ReadsConcat
  <2> QED BY <2>1, <1>3
<1>8. <<"comma">> \o field \in Seq(Letters)
  BY <1>1, <1>5, ConcatProperties
<1> HIDE DEF r, field
<1>9. /\ Len(r.strings) = i
      /\ \A k \in 1..i : r.strings[k] = <<<<"text">>, m.text[k]>>
  <2> DEFINE s == q.strings
             e == <<<<"text">>, v>>
  <2>1. /\ s \in Seq(Seq(Letters) \X Seq(Letters)) /\ Len(s) = i - 1
        /\ \A k \in 1..i - 1 : s[k] = <<<<"text">>, m.text[k]>>
    BY <1>3, <1>4 DEF Knows, Parsers
  <2>2. e \in Seq(Letters) \X Seq(Letters) /\ e = <<<<"text">>, m.text[i]>>
    <3>1. <<"text">> \in Seq(Letters)
      BY LettersIn
    <3> QED BY <3>1, <1>1 DEF v
  <2> HIDE DEF s, e
  <2> DEFINE S == Seq(Letters) \X Seq(Letters)
             t == Append(s, e)
  <2>6. s \in Seq(S) /\ e \in S
    BY <2>1, <2>2
  <2> HIDE DEF S
  <2>3. /\ Len(t) = Len(s) + 1 /\ t[Len(s) + 1] = e
        /\ \A k \in 1..Len(s) : t[k] = s[k]
    BY ONLY <2>6, AppendProperties
  <2>4. r.strings = t
    BY <1>6 DEF s, e
  <2>5. i \in Nat /\ i \in 1..i /\ \A k \in 1..i : k \in 1..i - 1 \/ k = i
    BY MessageTyped
  <2> HIDE DEF t
  <2>7. Len(s) = i - 1 /\ Len(s) + 1 = i
    BY <2>1, <2>5
  <2>8. ASSUME NEW k \in 1..i PROVE t[k] = <<<<"text">>, m.text[k]>>
    <3>1. CASE k = i
      BY <3>1, <2>2, <2>3, <2>7
    <3>2. CASE k \in 1..i - 1
      BY <3>2, <2>1, <2>3, <2>7
    <3> QED BY <3>1, <3>2, <2>5
  <2> QED BY <2>3, <2>4, <2>7, <2>8
<1>10. Ready(r) = r
  BY <1>6 DEF Ready
<1>11. Knows(r, m, i, j)
  BY <1>4, <1>6, <1>9, <1>10 DEF Knows
<1> QED BY <1>7, <1>8, <1>11 DEF field, v

LEMMA KnowsNextNumber ==
    ASSUME NEW m \in Messages, NEW i \in Nat, NEW j \in 1..Len(m.pos), NEW p, Knows(p, m, i, j - 1)
    PROVE  /\ <<"comma">> \o NumberField("pos", m.pos[j]) \in Seq(Letters)
           /\ Knows(Reads(p, <<"comma">> \o NumberField("pos", m.pos[j])), m, i, j)
<1> DEFINE q == At(Ready(p), "key")
           v == m.pos[j]
           field == NumberField("pos", v)
           r == Reads(q, field)
<1>1. v \in 0..MaxNumber /\ <<"comma">> \in Seq(Letters)
  BY MessageTyped, LettersIn
<1>2. p \in Parsers /\ p.at \in {"after", "number"}
  BY DEF Knows
<1>3. q \in Parsers /\ q.at = "key" /\ Reads(p, <<"comma">>) = q
  <2>1. q \in Parsers /\ Reads(p, <<"comma">>) = q
    BY <1>2, ValueEnds
  <2>2. Ready(p) \in Parsers
    BY <1>2, SetNumberTyped DEF Ready
  <2>3. q.at = "key"
    BY <2>2 DEF At, Parsers
  <2> QED BY <2>1, <2>3
<1>4. /\ q.type = m.type /\ q.session = m.session /\ q.client = m.client
      /\ q.strings = Ready(p).strings /\ q.numbers = Ready(p).numbers
  <2>1. Ready(p) \in Parsers
    BY <1>2, SetNumberTyped DEF Ready
  <2>2. /\ q.type = Ready(p).type /\ q.session = Ready(p).session /\ q.client = Ready(p).client
        /\ q.strings = Ready(p).strings /\ q.numbers = Ready(p).numbers
    <3> DEFINE s == Ready(p)
    <3> HIDE DEF s
    <3>1. s \in Parsers => /\ At(s, "key").type = s.type /\ At(s, "key").session = s.session /\ At(s, "key").client = s.client
                           /\ At(s, "key").strings = s.strings /\ At(s, "key").numbers = s.numbers
      BY DEF At, Parsers
    <3> QED BY <2>1, <3>1 DEF s
  <2> QED BY <2>2 DEF Knows
<1> HIDE DEF q, v
<1>5. /\ field \in Seq(Letters) /\ r \in Parsers /\ r.at = "number" /\ r.key = <<"pos">> /\ r.n = v
      /\ r.type = q.type /\ r.session = q.session /\ r.client = q.client
      /\ r.strings = q.strings /\ r.numbers = q.numbers
  BY <1>1, <1>3, NumberFieldReads
<1>6. Reads(p, <<"comma">> \o field) = r
  <2> HIDE DEF field
  <2>1. Reads(p, <<"comma">> \o field) = Reads(Reads(p, <<"comma">>), field)
    BY <1>1, <1>5, ReadsConcat
  <2> QED BY <2>1, <1>3
<1>7. <<"comma">> \o field \in Seq(Letters)
  BY <1>1, <1>5, ConcatProperties
<1> HIDE DEF r, field
<1>8. /\ Ready(r).type = q.type /\ Ready(r).session = q.session /\ Ready(r).client = q.client
      /\ Ready(r).strings = q.strings /\ Ready(r).numbers = Append(q.numbers, <<<<"pos">>, v>>)
  BY <1>5 DEF Ready, SetNumber, Parsers
<1>9. /\ Len(Ready(r).numbers) = j
      /\ \A k \in 1..j : Ready(r).numbers[k] = <<<<"pos">>, m.pos[k]>>
  <2> DEFINE s == q.numbers
             e == <<<<"pos">>, v>>
  <2>1. /\ s \in Seq(Seq(Letters) \X Nat) /\ Len(s) = j - 1
        /\ \A k \in 1..j - 1 : s[k] = <<<<"pos">>, m.pos[k]>>
    BY <1>3, <1>4 DEF Knows, Parsers
  <2>2. e \in Seq(Letters) \X Nat /\ e = <<<<"pos">>, m.pos[j]>>
    <3>1. <<"pos">> \in Seq(Letters)
      BY LettersIn
    <3>2. v \in Nat
      BY <1>1, LimitsAreNat
    <3> QED BY <3>1, <3>2 DEF v
  <2> HIDE DEF s, e
  <2> DEFINE S == Seq(Letters) \X Nat
             t == Append(s, e)
  <2>6. s \in Seq(S) /\ e \in S
    BY <2>1, <2>2
  <2> HIDE DEF S
  <2>3. /\ Len(t) = Len(s) + 1 /\ t[Len(s) + 1] = e
        /\ \A k \in 1..Len(s) : t[k] = s[k]
    BY ONLY <2>6, AppendProperties
  <2>4. Ready(r).numbers = t
    BY <1>8 DEF s, e
  <2>5. j \in Nat /\ j \in 1..j /\ \A k \in 1..j : k \in 1..j - 1 \/ k = j
    BY MessageTyped
  <2> HIDE DEF t
  <2>7. Len(s) = j - 1 /\ Len(s) + 1 = j
    BY <2>1, <2>5
  <2>8. ASSUME NEW k \in 1..j PROVE t[k] = <<<<"pos">>, m.pos[k]>>
    <3>1. CASE k = j
      BY <3>1, <2>2, <2>3, <2>7
    <3>2. CASE k \in 1..j - 1
      BY <3>2, <2>1, <2>3, <2>7
    <3> QED BY <3>1, <3>2, <2>5
  <2> QED BY <2>3, <2>4, <2>7, <2>8
<1>10. Knows(r, m, i, j)
  BY <1>4, <1>5, <1>8, <1>9 DEF Knows
<1> QED BY <1>6, <1>7, <1>10 DEF field, v

\* Reading several parts, each from where the one before it left the parser.
LEMMA PartsRead ==
    ASSUME NEW seqs \in Seq(Seq(Letters)), NEW p, NEW S, p \in S[0],
           \A k \in 1..Len(seqs) : \A q \in S[k - 1] : Reads(q, seqs[k]) \in S[k]
    PROVE  OnSeq!FlattenSeq(seqs) \in Seq(Letters) /\ Reads(p, OnSeq!FlattenSeq(seqs)) \in S[Len(seqs)]
<1>1. Len(seqs) \in Nat /\ \A k \in 1..Len(seqs) : seqs[k] \in Seq(Letters)
  BY LenProperties
<1>2. PICK f : /\ f[0] = <<>> /\ \A k \in 1..Len(seqs) : f[k] = f[k - 1] \o seqs[k]
               /\ \A k \in 0..Len(seqs) : f[k] \in Seq(Letters)
               /\ OnSeq!FlattenSeq(seqs) = f[Len(seqs)]
  BY FlattenSeqSteps
<1> DEFINE T == {k \in 0..Len(seqs) : Reads(p, f[k]) \in S[k]}
<1>3. 0 \in T
  BY <1>1, <1>2, ReadsNothing
<1>4. ASSUME NEW k \in 1..Len(seqs), k - 1 \in T PROVE k \in T
  <2>1. k \in 0..Len(seqs) /\ k - 1 \in 0..Len(seqs)
    BY <1>1
  <2>2. f[k - 1] \in Seq(Letters) /\ seqs[k] \in Seq(Letters) /\ f[k] = f[k - 1] \o seqs[k]
    BY <2>1, <1>1, <1>2
  <2>3. Reads(p, f[k]) = Reads(Reads(p, f[k - 1]), seqs[k])
    BY <2>2, ReadsConcat
  <2> QED BY <2>1, <2>3, <1>4
<1> HIDE DEF T
<1>5. Len(seqs) \in T /\ Len(seqs) \in 0..Len(seqs)
  <2>1. \A k \in 0..Len(seqs) : k \in T
    BY <1>1, <1>3, <1>4, UpTo
  <2> QED BY <2>1, <1>1
<1> QED BY <1>2, <1>5 DEF T

TextFields(m) == OnSeq!FlattenSeq([k \in 1..Len(m.text) |-> <<"comma">> \o StringField("text", m.text[k])])
NumberFields(m) == OnSeq!FlattenSeq([k \in 1..Len(m.pos) |-> <<"comma">> \o NumberField("pos", m.pos[k])])

LEMMA TextFieldsRead ==
    ASSUME NEW m \in Messages, NEW p, Knows(p, m, 0, 0)
    PROVE  TextFields(m) \in Seq(Letters) /\ Knows(Reads(p, TextFields(m)), m, Len(m.text), 0)
<1> DEFINE seqs == [k \in 1..Len(m.text) |-> <<"comma">> \o StringField("text", m.text[k])]
           S == [k \in 0..Len(m.text) |-> {q \in Parsers : Knows(q, m, k, 0)}]
<1>1. Len(m.text) \in Nat
  BY MessageTyped
<1>2. seqs \in Seq(Seq(Letters)) /\ Len(seqs) = Len(m.text)
      /\ \A k \in 1..Len(m.text) : seqs[k] = <<"comma">> \o StringField("text", m.text[k])
  <2>1. ASSUME NEW k \in 1..Len(m.text) PROVE <<"comma">> \o StringField("text", m.text[k]) \in Seq(Letters)
    <3>1. m.text[k] \in Seq(Letters) /\ "text" \in Names /\ <<"comma">> \in Seq(Letters)
      BY MessageTyped, LettersIn DEF Names
    <3> DEFINE q == At(Parser, "key")
    <3>2. q \in Parsers /\ q.at = "key"
      BY AtTyped, ParserIsTyped, PlacesIn DEF At, Parser
    <3> HIDE DEF q
    <3>3. StringField("text", m.text[k]) \in Seq(Letters)
      BY <3>1, <3>2, StringFieldReads
    <3> QED BY <3>1, <3>3, ConcatProperties
  <2>2. seqs \in [1..Len(m.text) -> Seq(Letters)]
        /\ \A k \in 1..Len(m.text) : seqs[k] = <<"comma">> \o StringField("text", m.text[k])
    BY <2>1
  <2> HIDE DEF seqs, S
  <2> QED BY <2>2, <1>1, FunctionIsSeq
<1>3. p \in S[0]
  <2>1. 0 \in 0..Len(m.text) /\ p \in Parsers
    BY <1>1 DEF Knows
  <2> QED BY <2>1
<1>4. ASSUME NEW k \in 1..Len(m.text), NEW q \in S[k - 1] PROVE Reads(q, seqs[k]) \in S[k]
  <2>1. k \in 0..Len(m.text) /\ k - 1 \in 0..Len(m.text)
    BY <1>1
  <2>2. Knows(q, m, k - 1, 0)
    BY <2>1
  <2>3. Knows(Reads(q, seqs[k]), m, k, 0)
    <3> HIDE DEF seqs, S
    <3> QED BY <2>2, <1>2, KnowsNextText
  <2>4. Reads(q, seqs[k]) \in Parsers
    BY <2>3 DEF Knows
  <2> HIDE DEF seqs
  <2> QED BY <2>1, <2>3, <2>4
<1>5. OnSeq!FlattenSeq(seqs) \in Seq(Letters) /\ Reads(p, OnSeq!FlattenSeq(seqs)) \in S[Len(m.text)]
  <2> HIDE DEF seqs, S
  <2> QED BY <1>2, <1>3, <1>4, PartsRead
<1>6. Len(m.text) \in 0..Len(m.text)
  BY <1>1
<1> HIDE DEF seqs
<1>7. Knows(Reads(p, OnSeq!FlattenSeq(seqs)), m, Len(m.text), 0)
  BY <1>5, <1>6
<1> QED BY <1>5, <1>7 DEF TextFields, seqs

LEMMA NumberFieldsRead ==
    ASSUME NEW m \in Messages, NEW i \in Nat, NEW p, Knows(p, m, i, 0)
    PROVE  NumberFields(m) \in Seq(Letters) /\ Knows(Reads(p, NumberFields(m)), m, i, Len(m.pos))
<1> DEFINE seqs == [k \in 1..Len(m.pos) |-> <<"comma">> \o NumberField("pos", m.pos[k])]
           S == [k \in 0..Len(m.pos) |-> {q \in Parsers : Knows(q, m, i, k)}]
<1>1. Len(m.pos) \in Nat
  BY MessageTyped
<1>2. seqs \in Seq(Seq(Letters)) /\ Len(seqs) = Len(m.pos)
      /\ \A k \in 1..Len(m.pos) : seqs[k] = <<"comma">> \o NumberField("pos", m.pos[k])
  <2>1. ASSUME NEW k \in 1..Len(m.pos) PROVE <<"comma">> \o NumberField("pos", m.pos[k]) \in Seq(Letters)
    <3>1. m.pos[k] \in 0..MaxNumber /\ <<"comma">> \in Seq(Letters)
      BY MessageTyped, LettersIn
    <3> DEFINE q == At(Parser, "key")
    <3>2. q \in Parsers /\ q.at = "key"
      BY AtTyped, ParserIsTyped, PlacesIn DEF At, Parser
    <3> HIDE DEF q
    <3>3. NumberField("pos", m.pos[k]) \in Seq(Letters)
      BY <3>1, <3>2, NumberFieldReads
    <3> QED BY <3>1, <3>3, ConcatProperties
  <2>2. seqs \in [1..Len(m.pos) -> Seq(Letters)]
        /\ \A k \in 1..Len(m.pos) : seqs[k] = <<"comma">> \o NumberField("pos", m.pos[k])
    BY <2>1
  <2> HIDE DEF seqs, S
  <2> QED BY <2>2, <1>1, FunctionIsSeq
<1>3. p \in S[0]
  <2>1. 0 \in 0..Len(m.pos) /\ p \in Parsers
    BY <1>1 DEF Knows
  <2> QED BY <2>1
<1>4. ASSUME NEW k \in 1..Len(m.pos), NEW q \in S[k - 1] PROVE Reads(q, seqs[k]) \in S[k]
  <2>1. k \in 0..Len(m.pos) /\ k - 1 \in 0..Len(m.pos)
    BY <1>1
  <2>2. Knows(q, m, i, k - 1)
    BY <2>1
  <2>3. Knows(Reads(q, seqs[k]), m, i, k)
    <3> HIDE DEF seqs, S
    <3> QED BY <2>2, <1>2, KnowsNextNumber
  <2>4. Reads(q, seqs[k]) \in Parsers
    BY <2>3 DEF Knows
  <2> HIDE DEF seqs
  <2> QED BY <2>1, <2>3, <2>4
<1>5. OnSeq!FlattenSeq(seqs) \in Seq(Letters) /\ Reads(p, OnSeq!FlattenSeq(seqs)) \in S[Len(m.pos)]
  <2> HIDE DEF seqs, S
  <2> QED BY <1>2, <1>3, <1>4, PartsRead
<1>6. Len(m.pos) \in 0..Len(m.pos)
  BY <1>1
<1> HIDE DEF seqs
<1>7. Knows(Reads(p, OnSeq!FlattenSeq(seqs)), m, i, Len(m.pos))
  BY <1>5, <1>6
<1> QED BY <1>5, <1>7 DEF NumberFields, seqs

\* Whatever follows, a message begins with the opening brace and the name "type".
Begins(s) == Len(s) >= 3 /\ s[1] = "open" /\ s[2] = "q" /\ s[3] = "type"

LEMMA BeginsOn ==
    ASSUME NEW s \in Seq(Letters), Begins(s), NEW t \in Seq(Letters)
    PROVE  Begins(s \o t)
<1>1. /\ Len(s \o t) = Len(s) + Len(t) /\ Len(s) \in Nat /\ Len(t) \in Nat
      /\ \A i \in 1..Len(s) : (s \o t)[i] = s[i]
  BY ConcatAt
<1> DEFINE r == s \o t
<1> HIDE DEF r
<1>2. Len(r) = Len(s) + Len(t) /\ Len(s) \in Nat /\ Len(t) \in Nat /\ \A i \in 1..Len(s) : r[i] = s[i]
  BY <1>1 DEF r
<1>3. 1 \in 1..Len(s) /\ 2 \in 1..Len(s) /\ 3 \in 1..Len(s) /\ Len(r) >= 3
  BY <1>2 DEF Begins
<1>4. Begins(r)
  BY <1>2, <1>3 DEF Begins
<1> QED BY <1>4 DEF r

\* The common fields.
Opening(m) == <<"open">> \o StringField("type", <<m.type>>) \o <<"comma">> \o StringField("session", m.session)
             \o <<"comma">> \o StringField("client", m.client)

LEMMA OpeningBegins ==
    ASSUME NEW v \in Seq(Letters)
    PROVE  /\ <<"open">> \o StringField("type", v) \in Seq(Letters)
           /\ Begins(<<"open">> \o StringField("type", v))
<1>1. "type" \in Names /\ "type" \in Letters /\ "type" \notin {"q", "b", "nl"}
  BY LettersIn DEF Names
<1>2. <<"type">> \in Seq(Letters) /\ <<"open">> \in Seq(Letters) /\ <<"q">> \in Seq(Letters) /\ <<"colon">> \in Seq(Letters)
      /\ Quoted(v) \in Seq(Letters)
  BY LettersIn, QuotedTyped
<1>3. Quoted(<<"type">>) = <<"q">> \o <<"type">> \o <<"q">>
  BY <1>1, EscapeOne DEF Quoted, EscapePiece
<1> DEFINE a == <<"q">> \o <<"type">>
           b == a \o <<"q">>
           c == b \o <<"colon">>
           d == c \o Quoted(v)
           o == <<"open">>
<1>4. a \in Seq(Letters)
  BY <1>2, ConcatProperties
<1>5. b \in Seq(Letters)
  <2> HIDE DEF a
  <2> QED BY <1>2, <1>4, ConcatProperties
<1>6. c \in Seq(Letters)
  <2> HIDE DEF b
  <2> QED BY <1>2, <1>5, ConcatProperties
<1>7. d \in Seq(Letters)
  <2> HIDE DEF c
  <2> QED BY <1>2, <1>6, ConcatProperties
<1>8. StringField("type", v) = d
  BY <1>3 DEF StringField
<1>9. Begins(o \o a)
  <2>1. a = <<"q", "type">>
    BY SmallConcat
  <2>2. Len(o) = 1 /\ o[1] = "open" /\ Len(<<"q", "type">>) = 2 /\ <<"q", "type">>[1] = "q" /\ <<"q", "type">>[2] = "type"
    OBVIOUS
  <2> DEFINE w == <<"q", "type">>
  <2>3. w \in Seq(Letters) /\ o \in Seq(Letters)
    BY <1>1, LettersIn
  <2> HIDE DEF o, w
  <2>4. /\ Len(o \o w) = Len(o) + Len(w) /\ \A i \in 1..Len(o) : (o \o w)[i] = o[i]
        /\ \A i \in 1..Len(w) : (o \o w)[Len(o) + i] = w[i]
    BY <2>3, ConcatAt
  <2>5. Len(o) = 1 /\ o[1] = "open" /\ Len(w) = 2 /\ w[1] = "q" /\ w[2] = "type"
    BY <2>2 DEF w
  <2>6. Len(o \o w) = 3 /\ (o \o w)[1] = "open" /\ (o \o w)[2] = "q" /\ (o \o w)[3] = "type"
    <3>1. 1 \in 1..Len(o) /\ 1 \in 1..Len(w) /\ 2 \in 1..Len(w) /\ Len(o) + 1 = 2 /\ Len(o) + 2 = 3
          /\ Len(o) + Len(w) = 3
      BY <2>5
    <3> QED BY <3>1, <2>4, <2>5
  <2> QED BY <2>1, <2>6 DEF Begins, w
<1> HIDE DEF o
<1>10. o \in Seq(Letters)
  BY <1>2 DEF o
<1>11. o \o a \in Seq(Letters)
  <2> HIDE DEF a
  <2> QED BY <1>4, <1>10, ConcatProperties
<1>12. o \o d = (((o \o a) \o <<"q">>) \o <<"colon">>) \o Quoted(v)
  <2>1. o \o d = (o \o c) \o Quoted(v)
    <3> DEFINE z == Quoted(v)
    <3> HIDE DEF c
    <3>1. o \in Seq(Letters) /\ c \in Seq(Letters) /\ z \in Seq(Letters)
      BY <1>2, <1>6, <1>10
    <3> HIDE DEF z
    <3>2. (o \o c) \o z = o \o (c \o z)
      BY ONLY <3>1, ConcatAssociates
    <3> QED BY ONLY <3>2 DEF z
  <2>2. o \o c = (o \o b) \o <<"colon">>
    <3> HIDE DEF b
    <3> DEFINE z == <<"colon">>
    <3>1. o \in Seq(Letters) /\ b \in Seq(Letters) /\ z \in Seq(Letters)
      BY <1>2, <1>5, <1>10
    <3> HIDE DEF z
    <3>2. (o \o b) \o z = o \o (b \o z)
      BY ONLY <3>1, ConcatAssociates
    <3> QED BY ONLY <3>2 DEF z
  <2>3. o \o b = (o \o a) \o <<"q">>
    <3> HIDE DEF a
    <3> QED BY <1>2, <1>4, <1>10, ConcatAssociates
  <2> QED BY <2>1, <2>2, <2>3
<1> DEFINE x == o \o a
           y == x \o <<"q">>
           z == y \o <<"colon">>
<1>13. y \in Seq(Letters) /\ Begins(y)
  <2> HIDE DEF x
  <2>1. x \in Seq(Letters) /\ Begins(x)
    BY <1>9, <1>11 DEF x
  <2> QED BY <2>1, <1>2, BeginsOn, ConcatProperties
<1>14. z \in Seq(Letters) /\ Begins(z)
  <2> HIDE DEF y
  <2> QED BY <1>13, <1>2, BeginsOn, ConcatProperties
<1>15. Begins(z \o Quoted(v)) /\ z \o Quoted(v) \in Seq(Letters)
  <2> HIDE DEF z
  <2> QED BY <1>14, <1>2, BeginsOn, ConcatProperties
<1> QED BY <1>8, <1>12, <1>15 DEF o

LEMMA OpeningReads ==
    ASSUME NEW m \in Messages, m.type \in Type
    PROVE  /\ Opening(m) \in Seq(Letters) /\ Begins(Opening(m)) /\ Knows(Reads(Parser, Opening(m)), m, 0, 0)
<1> DEFINE o == <<"open">>
           comma == <<"comma">>
           f1 == StringField("type", <<m.type>>)
           f2 == StringField("session", m.session)
           f3 == StringField("client", m.client)
           a == o \o f1
           b == a \o comma
           c == b \o f2
           d == c \o comma
           e == d \o f3
           p0 == At(Parser, "key")
           p1 == Reads(p0, f1)
           q1 == At(Ready(p1), "key")
           p2 == Reads(q1, f2)
           q2 == At(Ready(p2), "key")
           p3 == Reads(q2, f3)
<1>1. /\ <<m.type>> \in Seq(Letters) /\ m.session \in Seq(Letters) /\ m.client \in Seq(Letters)
      /\ "type" \in Names /\ "session" \in Names /\ "client" \in Names
      /\ o \in Seq(Letters) /\ comma \in Seq(Letters)
  BY MessageTyped, LettersIn DEF Names
<1>2. Reads(Parser, o) = p0
  <2>1. ParserStep(Parser, "open") = At(Parser, "key")
    <3>1. Parser.at = "object"
      BY DEF Parser
    <3> QED BY <3>1 DEF ParserStep
  <2> QED BY <2>1, ReadsOne
<1>3. p0 \in Parsers /\ p0.at = "key" /\ p0.strings = <<>> /\ p0.numbers = <<>>
  BY AtTyped, ParserIsTyped, PlacesIn DEF At, Parser
<1> HIDE DEF p0
<1>4. /\ f1 \in Seq(Letters) /\ p1 \in Parsers /\ p1.at = "after"
      /\ p1.type = m.type /\ p1.strings = <<>> /\ p1.numbers = <<>>
  <2>1. f1 \in Seq(Letters)
    BY <1>1, <1>3, StringFieldReads
  <2>2. p1 \in Parsers /\ p1.at = "after" /\ p1.numbers = p0.numbers /\ p1.type = TypeOf(<<m.type>>)
        /\ p1.strings = p0.strings
    <3> DEFINE v == <<m.type>>
    <3>1. /\ p0 \in Parsers /\ p0.at = "key" /\ "type" \in Names /\ v \in Seq(Letters)
          /\ p1 = Reads(p0, StringField("type", v))
      BY <1>1, <1>3
    <3> HIDE DEF v, p1
    <3> DEFINE r == Reads(p0, StringField("type", v))
    <3>2. r \in Parsers /\ r.at = "after" /\ r.numbers = p0.numbers /\ r.type = TypeOf(v)
          /\ r.strings = p0.strings
      BY ONLY <3>1, StringFieldOutcome
    <3> QED BY ONLY <3>1, <3>2 DEF v
  <2>3. TypeOf(<<m.type>>) = m.type
    BY DEF TypeOf
  <2> QED BY <2>1, <2>2, <2>3, <1>3
<1> HIDE DEF f1, p1
<1>5. ASSUME NEW p \in Parsers, p.at = "after"
      PROVE  /\ At(Ready(p), "key") \in Parsers /\ Reads(p, comma) = At(Ready(p), "key")
             /\ At(Ready(p), "key").at = "key" /\ At(Ready(p), "key").type = p.type
             /\ At(Ready(p), "key").session = p.session /\ At(Ready(p), "key").client = p.client
             /\ At(Ready(p), "key").strings = p.strings /\ At(Ready(p), "key").numbers = p.numbers
  <2>1. At(Ready(p), "key") \in Parsers /\ Reads(p, comma) = At(Ready(p), "key")
    BY <1>5, ValueEnds
  <2>2. Ready(p) = p
    BY <1>5 DEF Ready
  <2> QED BY <2>1, <2>2 DEF At, Parsers
<1>6. /\ q1 \in Parsers /\ Reads(p1, comma) = q1 /\ q1.at = "key" /\ q1.type = m.type
      /\ q1.strings = <<>> /\ q1.numbers = <<>>
  BY <1>4, <1>5
<1> HIDE DEF q1
<1>7. /\ f2 \in Seq(Letters) /\ p2 \in Parsers /\ p2.at = "after" /\ p2.type = m.type
      /\ p2.session = m.session /\ p2.strings = <<>> /\ p2.numbers = <<>>
  <2>1. "session" # "type" /\ "session" # "client" /\ "session" # "text"
    OBVIOUS
  <2>2. f2 \in Seq(Letters)
    BY <1>1, <1>6, StringFieldReads
  <2>3. p2 \in Parsers /\ p2.at = "after" /\ p2.numbers = q1.numbers /\ p2.type = q1.type
        /\ p2.session = m.session /\ p2.strings = q1.strings
    BY <2>1, <1>1, <1>6, StringFieldOutcome
  <2> QED BY <2>2, <2>3, <1>6
<1> HIDE DEF f2, p2
<1>8. /\ q2 \in Parsers /\ Reads(p2, comma) = q2 /\ q2.at = "key" /\ q2.type = m.type
      /\ q2.session = m.session /\ q2.strings = <<>> /\ q2.numbers = <<>>
  BY <1>5, <1>7
<1> HIDE DEF q2
<1>9. /\ f3 \in Seq(Letters) /\ p3 \in Parsers /\ p3.at = "after" /\ p3.type = m.type
      /\ p3.session = m.session /\ p3.client = m.client /\ p3.strings = <<>> /\ p3.numbers = <<>>
  <2>1. "client" # "type" /\ "client" # "session" /\ "client" # "text"
    OBVIOUS
  <2>2. f3 \in Seq(Letters)
    BY <1>1, <1>8, StringFieldReads
  <2>3. p3 \in Parsers /\ p3.at = "after" /\ p3.numbers = q2.numbers /\ p3.type = q2.type
        /\ p3.session = q2.session /\ p3.client = m.client /\ p3.strings = q2.strings
    BY <2>1, <1>1, <1>8, StringFieldOutcome
  <2> QED BY <2>2, <2>3, <1>8
<1> HIDE DEF f3, p3, o, comma
<1>10. Opening(m) = e
  BY DEF Opening, o, comma, f1, f2, f3
<1>11. a \in Seq(Letters) /\ Begins(a) /\ Reads(Parser, a) = p1
  <2>1. Reads(Parser, o \o f1) = Reads(Reads(Parser, o), f1)
    BY <1>1, <1>4, ReadsConcat
  <2>2. Begins(o \o f1)
    BY <1>1, OpeningBegins DEF o, f1
  <2>3. o \o f1 \in Seq(Letters)
    BY <1>1, <1>4, ConcatProperties
  <2> QED BY <2>1, <2>2, <2>3, <1>2 DEF p1
<1> HIDE DEF a
<1>12. b \in Seq(Letters) /\ Begins(b) /\ Reads(Parser, b) = q1
  <2>1. Reads(Parser, a \o comma) = Reads(Reads(Parser, a), comma)
    BY <1>1, <1>11, ReadsConcat
  <2>2. a \o comma \in Seq(Letters) /\ Begins(a \o comma)
    BY <1>1, <1>11, BeginsOn, ConcatProperties
  <2> QED BY <2>1, <2>2, <1>6, <1>11
<1> HIDE DEF b
<1>13. c \in Seq(Letters) /\ Begins(c) /\ Reads(Parser, c) = p2
  <2>1. Reads(Parser, b \o f2) = Reads(Reads(Parser, b), f2)
    BY <1>7, <1>12, ReadsConcat
  <2>2. b \o f2 \in Seq(Letters) /\ Begins(b \o f2)
    BY <1>7, <1>12, BeginsOn, ConcatProperties
  <2> QED BY <2>1, <2>2, <1>12 DEF p2
<1> HIDE DEF c
<1>14. d \in Seq(Letters) /\ Begins(d) /\ Reads(Parser, d) = q2
  <2>1. Reads(Parser, c \o comma) = Reads(Reads(Parser, c), comma)
    BY <1>1, <1>13, ReadsConcat
  <2>2. c \o comma \in Seq(Letters) /\ Begins(c \o comma)
    BY <1>1, <1>13, BeginsOn, ConcatProperties
  <2> QED BY <2>1, <2>2, <1>8, <1>13
<1> HIDE DEF d
<1>15. e \in Seq(Letters) /\ Begins(e) /\ Reads(Parser, e) = p3
  <2>1. Reads(Parser, d \o f3) = Reads(Reads(Parser, d), f3)
    BY <1>9, <1>14, ReadsConcat
  <2>2. d \o f3 \in Seq(Letters) /\ Begins(d \o f3)
    BY <1>9, <1>14, BeginsOn, ConcatProperties
  <2> QED BY <2>1, <2>2, <1>14 DEF p3
<1>16. Knows(p3, m, 0, 0)
  <2>1. Ready(p3) = p3
    BY <1>9 DEF Ready
  <2>2. Len(<<>>) = 0 /\ 1..0 = {}
    OBVIOUS
  <2> QED BY <2>1, <2>2, <1>9 DEF Knows
<1> QED BY <1>10, <1>15, <1>16

\* The whole message.
LEMMA JsonReads ==
    ASSUME NEW m \in Messages, m.type \in Type
    PROVE  LET r == Reads(Parser, Json(m))
           IN  /\ Json(m) \in Seq(Letters) /\ Begins(Json(m))
               /\ Len(Json(m)) >= 4 /\ Json(m)[Len(Json(m))] = "close"
               /\ r \in Parsers /\ r.at = "end"
               /\ r.type = m.type /\ r.session = m.session /\ r.client = m.client
               /\ Len(r.strings) = Len(m.text)
               /\ \A k \in 1..Len(m.text) : r.strings[k] = <<<<"text">>, m.text[k]>>
               /\ Len(r.numbers) = Len(m.pos)
               /\ \A k \in 1..Len(m.pos) : r.numbers[k] = <<<<"pos">>, m.pos[k]>>
<1> DEFINE h == Opening(m)
           t == TextFields(m)
           n == NumberFields(m)
           close == <<"close">>
           p == Reads(Parser, (h \o t) \o n)
<1>1. Json(m) = ((h \o t) \o n) \o close
  BY DEF Json, Opening, TextFields, NumberFields
<1>2. h \in Seq(Letters) /\ Begins(h) /\ Knows(Reads(Parser, h), m, 0, 0)
  BY OpeningReads
<1>3. t \in Seq(Letters) /\ Knows(Reads(Reads(Parser, h), t), m, Len(m.text), 0)
  BY <1>2, TextFieldsRead
<1>4. n \in Seq(Letters) /\ Knows(Reads(Reads(Reads(Parser, h), t), n), m, Len(m.text), Len(m.pos))
  <2>1. Len(m.text) \in Nat
    BY MessageTyped
  <2> QED BY <2>1, <1>3, NumberFieldsRead
<1>5. close \in Seq(Letters)
  BY LettersIn
<1> HIDE DEF h, t, n
<1>6. h \o t \in Seq(Letters) /\ Begins(h \o t) /\ Reads(Parser, h \o t) = Reads(Reads(Parser, h), t)
  BY <1>2, <1>3, BeginsOn, ConcatProperties, ReadsConcat
<1> DEFINE u == h \o t
<1>7. /\ u \o n \in Seq(Letters) /\ Begins(u \o n)
      /\ Reads(Parser, u \o n) = Reads(Reads(Reads(Parser, h), t), n)
  <2>1. u \in Seq(Letters) /\ Begins(u) /\ Reads(Parser, u) = Reads(Reads(Parser, h), t)
    BY <1>6
  <2> HIDE DEF u
  <2> QED BY <2>1, <1>4, BeginsOn, ConcatProperties, ReadsConcat
<1> DEFINE w == u \o n
<1>8. w \in Seq(Letters) /\ Begins(w) /\ Knows(Reads(Parser, w), m, Len(m.text), Len(m.pos)) /\ Json(m) = w \o close
  BY <1>1, <1>4, <1>7
<1> DEFINE q == Reads(Parser, w)
<1> HIDE DEF w
<1>9. Reads(Parser, w \o close) = At(Ready(q), "end")
  <2>1. Reads(Parser, w \o close) = Reads(q, close)
    BY <1>5, <1>8, ReadsConcat
  <2>2. q \in Parsers /\ q.at \in {"after", "number"}
    BY <1>8 DEF Knows
  <2> QED BY <2>1, <2>2, ValueEnds
<1>10. /\ w \o close \in Seq(Letters) /\ Begins(w \o close) /\ Len(w \o close) >= 4
       /\ (w \o close)[Len(w \o close)] = "close"
  <2>1. w \o close \in Seq(Letters) /\ Begins(w \o close)
    BY <1>5, <1>8, BeginsOn, ConcatProperties
  <2>2. Len(close) = 1 /\ close[1] = "close"
    OBVIOUS
  <2> HIDE DEF close
  <2>3. /\ Len(w \o close) = Len(w) + Len(close) /\ Len(w) \in Nat
        /\ \A i \in 1..Len(close) : (w \o close)[Len(w) + i] = close[i]
    BY <1>5, <1>8, ConcatAt
  <2>4. Len(w) >= 3
    BY <1>8 DEF Begins
  <2> QED BY <2>1, <2>2, <2>3, <2>4
<1>11. q \in Parsers /\ Ready(q) \in Parsers
  BY <1>8, SetNumberTyped DEF Knows, Ready
<1> DEFINE s == Ready(q)
<1>12. /\ s \in Parsers /\ s.type = m.type /\ s.session = m.session /\ s.client = m.client
       /\ Len(s.strings) = Len(m.text) /\ \A k \in 1..Len(m.text) : s.strings[k] = <<<<"text">>, m.text[k]>>
       /\ Len(s.numbers) = Len(m.pos) /\ \A k \in 1..Len(m.pos) : s.numbers[k] = <<<<"pos">>, m.pos[k]>>
  BY <1>8, <1>11 DEF Knows
<1> HIDE DEF s
<1>13. /\ At(s, "end") \in Parsers /\ At(s, "end").at = "end" /\ At(s, "end").type = s.type
       /\ At(s, "end").session = s.session /\ At(s, "end").client = s.client
       /\ At(s, "end").strings = s.strings /\ At(s, "end").numbers = s.numbers
  BY <1>12, AtTyped, PlacesIn DEF At, Parsers
<1>14. Reads(Parser, Json(m)) = At(s, "end")
  BY <1>8, <1>9 DEF s
<1> HIDE DEF close
<1> QED BY <1>8, <1>10, <1>12, <1>13, <1>14

\* A message that has a payload is read from it as it was, and from no shorter part of it;
\* the payload fits in a frame and begins in a way that ends a text it is read into.
THEOREM RoundTrip ==
    ASSUME NEW m \in Messages, SerializeMessage(m) # <<>>
    PROVE  LET bytes == SerializeMessage(m)
           IN  /\ bytes \in Seq(Byte) /\ Len(bytes) \in 4..MaxPayloadBytes
               /\ bytes[1] = <<"open", 1>> /\ bytes[2] = <<"q", 1>> /\ bytes[3] = <<"type", 1>>
               /\ bytes[Len(bytes)] = <<"close", 1>>
               /\ Parses(Parser, bytes).at = "end"
               /\ DeserializeMessage(bytes).ok /\ DeserializeMessage(bytes).message = m
<1> DEFINE json == Json(m)
           bytes == Utf8Bytes(json)
           r == Parses(Parser, bytes)
<1>1. /\ SerializeMessage(m) = bytes /\ m.type \in Type /\ m.session # <<>> /\ m.client # <<>>
      /\ Len(bytes) <= MaxPayloadBytes
  BY DEF SerializeMessage
<1>2. /\ json \in Seq(Letters) /\ Begins(json) /\ Len(json) >= 4 /\ json[Len(json)] = "close"
      /\ LET q == Reads(Parser, json)
         IN  /\ q \in Parsers /\ q.at = "end"
             /\ q.type = m.type /\ q.session = m.session /\ q.client = m.client
             /\ Len(q.strings) = Len(m.text)
             /\ \A k \in 1..Len(m.text) : q.strings[k] = <<<<"text">>, m.text[k]>>
             /\ Len(q.numbers) = Len(m.pos)
             /\ \A k \in 1..Len(m.pos) : q.numbers[k] = <<<<"pos">>, m.pos[k]>>
  BY <1>1, JsonReads
<1> HIDE DEF json
<1>3. /\ bytes \in Seq(Byte) /\ WellEncoded(bytes) /\ r = Reads(Parser, json)
  BY <1>2, Utf8RoundTrip
<1>4. /\ Len(bytes) >= 4 /\ bytes[1] = <<"open", 1>> /\ bytes[2] = <<"q", 1>> /\ bytes[3] = <<"type", 1>>
      /\ bytes[Len(bytes)] = <<"close", 1>>
  BY <1>2, Utf8Ends DEF Begins
<1> HIDE DEF bytes
<1>5. Len(bytes) \in 4..MaxPayloadBytes
  <2>1. Len(bytes) \in Nat /\ MaxPayloadBytes \in Nat
    BY <1>3, LenProperties, LimitsAreNat
  <2> QED BY <2>1, <1>1, <1>4
<1>6. /\ r \in Parsers /\ r.at = "end"
      /\ r.type = m.type /\ r.session = m.session /\ r.client = m.client
      /\ Len(r.strings) = Len(m.text)
      /\ \A k \in 1..Len(m.text) : r.strings[k] = <<<<"text">>, m.text[k]>>
      /\ Len(r.numbers) = Len(m.pos)
      /\ \A k \in 1..Len(m.pos) : r.numbers[k] = <<<<"pos">>, m.pos[k]>>
  BY <1>2, <1>3
<1> HIDE DEF r
<1>7. DeserializeMessage(bytes).ok
  BY <1>1, <1>3, <1>6 DEF DeserializeMessage, r
<1>8. [k \in 1..Len(r.strings) |-> r.strings[k][2]] = m.text
  <2>1. m.text \in Seq(Seq(STRING))
    BY DEF Messages
  <2>2. m.text = [k \in 1..Len(m.text) |-> m.text[k]]
    BY <2>1, LenProperties
  <2>3. \A k \in 1..Len(m.text) : r.strings[k][2] = m.text[k]
    BY <1>6
  <2> QED BY <2>2, <2>3, <1>6
<1>9. [k \in 1..Len(r.numbers) |-> r.numbers[k][2]] = m.pos
  <2>1. m.pos \in Seq(0..MaxNumber)
    BY DEF Messages
  <2>2. m.pos = [k \in 1..Len(m.pos) |-> m.pos[k]]
    BY <2>1, LenProperties
  <2>3. \A k \in 1..Len(m.pos) : r.numbers[k][2] = m.pos[k]
    BY <1>6
  <2> QED BY <2>2, <2>3, <1>6
<1>10. DeserializeMessage(bytes).message = m
  <2>1. DeserializeMessage(bytes).message
          = [type |-> r.type, session |-> r.session, client |-> r.client,
             text |-> [k \in 1..Len(r.strings) |-> r.strings[k][2]],
             pos |-> [k \in 1..Len(r.numbers) |-> r.numbers[k][2]]]
    BY DEF DeserializeMessage, r
  <2>2. m = [type |-> m.type, session |-> m.session, client |-> m.client, text |-> m.text, pos |-> m.pos]
    BY DEF Messages
  <2> QED BY <2>1, <2>2, <1>6, <1>8, <1>9
<1> QED BY <1>1, <1>3, <1>4, <1>5, <1>6, <1>7, <1>10 DEF r

-----------------------------------------------------------------------------
(* A frame, whole or cut.                                                    *)

LEMMA Remainder ==
    ASSUME NEW n \in Nat, NEW a, a = n \div 256, NEW d, d = n % 256
    PROVE  n = 256 * a + d /\ a \in Nat /\ d \in 0..255 /\ (n < 256 => d = n)
<1>1. d = n - 256 * a
  BY SMT
<1>2. d \in 0..255 /\ a \in Nat
  BY SMT
<1>3. n < 256 => a = 0
  BY SMT
<1> QED BY SMT, <1>1, <1>2, <1>3

LEMMA HeaderByteTyped == ASSUME NEW n \in Nat, NEW k \in 1..4 PROVE HeaderByte(n, k) \in 0..255
<1>1. \A w \in {16777216, 65536, 256, 1} : (n \div w) % 256 \in 0..255
  BY SMT
<1>2. k \in {1, 2, 3, 4}
  OBVIOUS
<1>3. Weight[k] \in {16777216, 65536, 256, 1}
  BY SMT, <1>2 DEF Weight
<1> DEFINE w == Weight[k]
<1> HIDE DEF w
<1>4. (n \div w) % 256 \in 0..255
  BY SMT, <1>1, <1>3 DEF w
<1> QED BY <1>4 DEF HeaderByte, w

\* The last two bytes are enough for a length below 65536, the largest is 1 in the second.
LEMMA HeaderSum ==
    ASSUME NEW n \in Nat, n <= 65536
    PROVE  HeaderByte(n, 1) * 16777216 + HeaderByte(n, 2) * 65536 + HeaderByte(n, 3) * 256
             + HeaderByte(n, 4) = n
<1>1. /\ HeaderByte(n, 1) = (n \div 16777216) % 256 /\ HeaderByte(n, 2) = (n \div 65536) % 256
      /\ HeaderByte(n, 3) = (n \div 256) % 256 /\ HeaderByte(n, 4) = (n \div 1) % 256
  BY SMT DEF HeaderByte, Weight
<1>2. n \div 16777216 = 0 /\ n \div 1 = n
  BY SMT
<1>3. HeaderByte(n, 1) = 0 /\ HeaderByte(n, 4) = n % 256
  <2>1. 0 % 256 = 0
    BY SMT
  <2> QED BY SMT, <2>1, <1>1, <1>2
<1> DEFINE a == n \div 256
           d == n % 256
<1>4. n = 256 * a + d /\ a \in Nat /\ d \in 0..255
  <2>1. a = n \div 256 /\ d = n % 256
    OBVIOUS
  <2> HIDE DEF a, d
  <2> QED BY <2>1, Remainder
<1>5. HeaderByte(n, 3) = a % 256 /\ HeaderByte(n, 4) = d
  BY SMT, <1>1, <1>3
<1> HIDE DEF a, d
<1>6. CASE n < 65536
  <2>1. HeaderByte(n, 2) = 0
    <3>1. n \div 65536 = 0 /\ 0 % 256 = 0
      BY SMT, <1>6
    <3> QED BY SMT, <3>1, <1>1
  <2>2. HeaderByte(n, 3) = a
    <3>1. a < 256
      BY SMT, <1>4, <1>6
    <3> DEFINE e == a % 256
               c == a \div 256
    <3> HIDE DEF c, e
    <3>2. e = a
      BY SMT, <3>1, <1>4, Remainder DEF c, e
    <3> QED BY SMT, <3>2, <1>5 DEF e
  <2>3. 0 * 16777216 + 0 * 65536 + a * 256 + d = n
    BY SMT, <1>4
  <2> QED BY SMT, <2>1, <2>2, <2>3, <1>3, <1>5
<1>7. CASE n = 65536
  <2>1. HeaderByte(n, 2) = 1
    <3>1. 65536 \div 65536 = 1 /\ 1 % 256 = 1
      BY SMT
    <3> QED BY SMT, <3>1, <1>1, <1>7
  <2>2. a = 256 /\ d = 0
    BY SMT, <1>4, <1>7
  <2>3. HeaderByte(n, 3) = 0
    <3>1. 256 % 256 = 0
      BY SMT
    <3> QED BY SMT, <3>1, <2>2, <1>5
  <2> QED BY SMT, <2>1, <2>2, <2>3, <1>3, <1>5, <1>7
<1>8. n < 65536 \/ n = 65536
  BY SMT
<1> QED BY SMT, <1>6, <1>7, <1>8

LEMMA PayloadLength ==
    ASSUME NEW payload \in Seq(Byte), Len(payload) <= MaxPayloadBytes
    PROVE  Len(payload) \in Nat /\ Len(payload) <= 65536
<1>1. Len(payload) \in Nat
  BY LenProperties
<1>2. MaxPayloadBytes \in Nat /\ MaxPayloadBytes <= 65536
  BY LimitsAreNat
<1> QED BY SMT, <1>1, <1>2

\* What a frame is made of.
LEMMA FrameBytes ==
    ASSUME NEW payload \in Seq(Byte), Len(payload) <= MaxPayloadBytes
    PROVE  LET F == EncodeFrame(payload)
           IN  /\ F \in Seq(Byte) /\ Len(F) = Len(payload) + 4
               /\ \A k \in 1..4 : F[k] = LengthByte(HeaderByte(Len(payload), k)) /\ F[k] \in HeaderBytes
               /\ \A k \in 1..Len(payload) : F[4 + k] = payload[k]
<1> DEFINE h == [k \in 1..4 |-> LengthByte(HeaderByte(Len(payload), k))]
<1>1. Len(payload) \in Nat /\ Len(payload) <= 65536
  BY SMT, PayloadLength
<1>2. ASSUME NEW k \in 1..4
      PROVE  LengthByte(HeaderByte(Len(payload), k)) \in HeaderBytes
  <2>1. Len(payload) \in Nat
    BY LenProperties
  <2>2. \A n \in Nat : HeaderByte(n, k) \in 0..255
    BY HeaderByteTyped
  <2>3. HeaderByte(Len(payload), k) \in 0..255
    BY <2>1, <2>2
  <2> QED BY <2>3 DEF HeaderBytes
<1>3. HeaderBytes \subseteq Byte
  BY DEF Byte
<1>4. h \in [1..4 -> Byte] /\ \A k \in 1..4 : h[k] = LengthByte(HeaderByte(Len(payload), k))
  BY <1>2, <1>3
<1>5. EncodeFrame(payload) = h \o payload
  BY DEF EncodeFrame
<1> HIDE DEF h
<1>6. h \in Seq(Byte) /\ Len(h) = 4
  <2>1. 4 \in Nat
    OBVIOUS
  <2> QED BY <2>1, <1>4, FunctionIsSeq
<1> DEFINE r == h \o payload
<1>7. /\ r \in Seq(Byte) /\ Len(r) = Len(h) + Len(payload)
      /\ \A i \in 1..Len(h) : r[i] = h[i]
      /\ \A i \in 1..Len(payload) : r[Len(h) + i] = payload[i]
  <2>1. h \in Seq(Byte) /\ payload \in Seq(Byte)
    BY <1>6
  <2> QED BY SMT, <2>1, ConcatAt
<1> HIDE DEF r
<1>8. Len(r) = Len(payload) + 4
  <2>1. Len(payload) \in Nat
    BY LenProperties
  <2> QED BY <2>1, <1>6, <1>7
<1>9. /\ \A k \in 1..4 : r[k] = LengthByte(HeaderByte(Len(payload), k))
      /\ \A k \in 1..Len(payload) : r[4 + k] = payload[k]
  BY <1>4, <1>6, <1>7
<1>10. EncodeFrame(payload) = r
  BY <1>5 DEF r
<1> QED BY <1>2, <1>7, <1>8, <1>9, <1>10

\* The first four bytes tell the length of the payload.
LEMMA LengthRead ==
    ASSUME NEW payload \in Seq(Byte), Len(payload) <= MaxPayloadBytes, NEW s,
           \A k \in 1..4 : s[k] = EncodeFrame(payload)[k]
    PROVE  ReadBigEndianLength(s) = Len(payload)
<1> DEFINE n == Len(payload)
<1>1. n \in Nat /\ n <= 65536
  BY SMT, PayloadLength
<1>2. \A k \in 1..4 : s[k] = LengthByte(HeaderByte(n, k))
  BY FrameBytes
<1> HIDE DEF n
<1>3. 1 \in 1..4 /\ 2 \in 1..4 /\ 3 \in 1..4 /\ 4 \in 1..4
  OBVIOUS
<1>9. \A v : ByteValue(LengthByte(v)) = v
  BY DEF ByteValue, LengthByte
<1>4. /\ ByteValue(s[1]) = HeaderByte(n, 1) /\ ByteValue(s[2]) = HeaderByte(n, 2)
      /\ ByteValue(s[3]) = HeaderByte(n, 3) /\ ByteValue(s[4]) = HeaderByte(n, 4)
  BY <1>2, <1>3, <1>9
<1>5. Weight[1] = 16777216 /\ Weight[2] = 65536 /\ Weight[3] = 256
  BY SMT DEF Weight
<1>6. ReadBigEndianLength(s) = HeaderByte(n, 1) * 16777216 + HeaderByte(n, 2) * 65536
                                  + HeaderByte(n, 3) * 256 + HeaderByte(n, 4)
  BY SMT, <1>4, <1>5 DEF ReadBigEndianLength
<1>7. ReadBigEndianLength(s) = n
  BY SMT, <1>1, <1>6, HeaderSum
<1> QED BY <1>7 DEF n

LEMMA ValueTyped == ASSUME NEW b \in Byte PROVE ByteValue(b) \in Nat
<1>1. CASE b \in Letters \X (Nat \ {0})
  <2>1. b[2] # 0
    BY <1>1
  <2> QED BY <2>1 DEF ByteValue
<1>2. CASE b \in HeaderBytes
  <2>1. PICK v \in 0..255 : b = LengthByte(v)
    BY <1>2 DEF HeaderBytes
  <2>2. ByteValue(b) = v
    BY <2>1 DEF ByteValue, LengthByte
  <2> QED BY <2>1, <2>2
<1> QED BY <1>1, <1>2 DEF Byte

\* Whatever the first four bytes are, they are a length.
LEMMA LengthTyped ==
    ASSUME NEW s, \A k \in 1..4 : s[k] \in Byte
    PROVE  ReadBigEndianLength(s) \in Nat
<1>1. 1 \in 1..4 /\ 2 \in 1..4 /\ 3 \in 1..4 /\ 4 \in 1..4
  OBVIOUS
<1> DEFINE a == ByteValue(s[1])
           b == ByteValue(s[2])
           c == ByteValue(s[3])
           d == ByteValue(s[4])
<1>2. a \in Nat /\ b \in Nat /\ c \in Nat /\ d \in Nat
  BY <1>1, ValueTyped
<1>3. Weight[1] = 16777216 /\ Weight[2] = 65536 /\ Weight[3] = 256
  BY SMT DEF Weight
<1> HIDE DEF a, b, c, d
<1>4. ReadBigEndianLength(s) = a * 16777216 + b * 65536 + c * 256 + d
  BY SMT, <1>3 DEF ReadBigEndianLength, a, b, c, d
<1> QED BY SMT, <1>2, <1>4

-----------------------------------------------------------------------------
(* A part of a sequence.                                                     *)

\* Parts of a stream.
LEMMA PartTyped ==
    ASSUME NEW s \in Seq(Byte), NEW i \in 1..Len(s) + 1, NEW j \in i - 1..Len(s)
    PROVE  /\ SubSeq(s, i, j) \in Seq(Byte) /\ Len(SubSeq(s, i, j)) = j - i + 1
           /\ \A k \in 1..j - i + 1 : SubSeq(s, i, j)[k] = s[i + k - 1]
<1>1. Len(s) \in Nat /\ \A k \in 1..Len(s) : s[k] \in Byte
  BY LenProperties
<1>2. i \in Nat /\ j \in Int /\ j >= i - 1 /\ i >= 1 /\ j <= Len(s)
  BY <1>1
<1>3. CASE j = i - 1
  <2>1. SubSeq(s, i, j) = <<>>
    BY <1>2, <1>3, SubSeqEmpty
  <2>2. j - i + 1 = 0
    BY <1>2, <1>3
  <2> QED BY <2>1, <2>2, EmptySeq
<1>4. CASE j # i - 1
  <2>1. \A k \in i..j : s[k] \in Byte
    BY <1>1, <1>2
  <2>2. i \in 1..Len(s) /\ j \in i..Len(s)
    BY <1>2, <1>4
  <2>3. IF i <= j + 1 THEN SubSeq(s, i, j) \in Seq(Byte) /\ Len(SubSeq(s, i, j)) = j - i + 1 ELSE TRUE
    BY <2>1, <1>2, SubSeqProperties
  <2> QED BY <1>2, <2>1, <2>2, <2>3, SubSeqProperties
<1> QED BY <1>3, <1>4

-----------------------------------------------------------------------------
(* How what was sent lies on the stream.                                     *)

Frame(m) == EncodeFrame(SerializeMessage(m))

\* The bytes are the frames of the messages from g + 1 to c, and then f[c].
Way(f, bytes, msgs, g, c) ==
    /\ f[g] = bytes
    /\ \A k \in g..c : f[k] \in Seq(Byte)
    /\ \A k \in g + 1..c : f[k - 1] = Frame(msgs[k]) \o f[k]

\* Messages that have a payload.
Sendable(msgs) == msgs \in Seq(Message) /\ \A k \in 1..Len(msgs) : SerializeMessage(msgs[k]) # <<>>

LEMMA MessageFrame ==
    ASSUME NEW m \in Message, SerializeMessage(m) # <<>>
    PROVE  /\ m \in Messages /\ SerializeMessage(m) \in Seq(Byte)
           /\ Len(SerializeMessage(m)) \in 4..MaxPayloadBytes
           /\ Frame(m) \in Seq(Byte) /\ Len(Frame(m)) = Len(SerializeMessage(m)) + 4
           /\ \A n \in 0..Len(SerializeMessage(m)) + 3 : SubSeq(Frame(m), 1, n) \in Seq(Byte)
<1> DEFINE P == SerializeMessage(m)
           F == Frame(m)
<1>1. m \in Messages
  BY StreamAssumption DEF Messages
<1>2. P \in Seq(Byte) /\ Len(P) \in 4..MaxPayloadBytes
  BY <1>1, RoundTrip
<1> HIDE DEF P
<1>3. F = EncodeFrame(P)
  BY DEF Frame, P
<1>4. EncodeFrame(P) \in Seq(Byte) /\ Len(EncodeFrame(P)) = Len(P) + 4
  BY <1>2, FrameBytes
<1>5. Len(P) \in Nat
  BY <1>2, LenProperties
<1> HIDE DEF F
<1>6. ASSUME NEW n \in 0..Len(P) + 3 PROVE SubSeq(F, 1, n) \in Seq(Byte)
  <2>1. 1 \in 1..Len(F) + 1 /\ n \in 1 - 1..Len(F)
    BY <1>3, <1>4, <1>5
  <2> QED BY <2>1, <1>3, <1>4, PartTyped
<1> QED BY <1>1, <1>2, <1>3, <1>4, <1>6 DEF P, F

\* More bytes come to the end of the stream.
Grown(f, q, g, c) == [k \in g..c |-> f[k] \o q]

LEMMA WayGrows ==
    ASSUME NEW f, NEW bytes, NEW msgs, Sendable(msgs), NEW g \in Nat, NEW c \in g..Len(msgs),
           Way(f, bytes, msgs, g, c), NEW q \in Seq(Byte)
    PROVE  Way(Grown(f, q, g, c), bytes \o q, msgs, g, c) /\ Grown(f, q, g, c)[c] = f[c] \o q
<1> DEFINE h == Grown(f, q, g, c)
<1>0. msgs \in Seq(Message)
  BY DEF Sendable
<1>1. Len(msgs) \in Nat /\ c \in Nat /\ g <= c /\ g \in g..c /\ c \in g..c
  BY <1>0, LenProperties
<1>2. \A k \in g..c : h[k] = f[k] \o q /\ f[k] \in Seq(Byte)
  BY DEF Way, Grown
<1> HIDE DEF h
<1>3. h[g] = bytes \o q
  BY <1>1, <1>2 DEF Way
<1>4. \A k \in g..c : h[k] \in Seq(Byte)
  BY <1>2, ConcatProperties
<1>5. ASSUME NEW k \in g + 1..c PROVE h[k - 1] = Frame(msgs[k]) \o h[k]
  <2>1. k \in g..c /\ k - 1 \in g..c /\ k \in 1..Len(msgs)
    BY <1>1
  <2>2. h[k - 1] = f[k - 1] \o q /\ h[k] = f[k] \o q /\ f[k] \in Seq(Byte)
        /\ f[k - 1] = Frame(msgs[k]) \o f[k]
    BY <2>1, <1>2 DEF Way
  <2>3. Frame(msgs[k]) \in Seq(Byte)
    <3>1. msgs[k] \in Message /\ SerializeMessage(msgs[k]) # <<>>
      BY <2>1, <1>0, LenProperties DEF Sendable
    <3> QED BY <3>1, MessageFrame
  <2>4. (Frame(msgs[k]) \o f[k]) \o q = Frame(msgs[k]) \o (f[k] \o q)
    <3> DEFINE u == Frame(msgs[k])
               v == f[k]
    <3>1. u \in Seq(Byte) /\ v \in Seq(Byte)
      BY <2>2, <2>3
    <3> HIDE DEF u, v
    <3>2. (u \o v) \o q = u \o (v \o q)
      <4>1. u \in Seq(Byte) /\ v \in Seq(Byte) /\ q \in Seq(Byte)
        BY <3>1
      <4> QED BY ONLY <4>1, ByteAssociates
    <3> QED BY <3>2 DEF u, v
  <2> QED BY <2>2, <2>4
<1>6. Way(h, bytes \o q, msgs, g, c) /\ h[c] = f[c] \o q
  BY <1>1, <1>2, <1>3, <1>4, <1>5 DEF Way
<1> QED BY <1>6 DEF h

\* A whole frame behind whole frames.
LEMMA WayExtends ==
    ASSUME NEW f, NEW bytes, NEW msgs, Sendable(msgs), NEW g \in 0..Len(msgs),
           Way(f, bytes, msgs, g, Len(msgs)), f[Len(msgs)] = <<>>,
           NEW m \in Message, SerializeMessage(m) # <<>>
    PROVE  \E h : Way(h, bytes \o Frame(m), Append(msgs, m), g, Len(msgs) + 1) /\ h[Len(msgs) + 1] = <<>>
<1> DEFINE c == Len(msgs)
           more == Append(msgs, m)
           F == Frame(m)
<1>0. msgs \in Seq(Message)
  BY DEF Sendable
<1>1. c \in Nat /\ g \in Nat /\ g <= c /\ c \in g..c /\ g \in g..c
  BY <1>0, LenProperties
<1>2. F \in Seq(Byte)
  BY MessageFrame
<1>3. Len(more) = c + 1 /\ more[c + 1] = m /\ \A k \in 1..c : more[k] = msgs[k]
  BY <1>0, AppendProperties
<1> HIDE DEF c, more, F
<1>4. PICK h : Way(h, bytes \o F, msgs, g, c) /\ h[c] = <<>> \o F
  <2>1. c \in g..Len(msgs) /\ g \in Nat
    BY <1>1 DEF c
  <2>2. Way(f, bytes, msgs, g, c) /\ f[c] = <<>>
    BY DEF c
  <2>3. Way(Grown(f, F, g, c), bytes \o F, msgs, g, c) /\ Grown(f, F, g, c)[c] = f[c] \o F
    BY <1>2, <2>1, <2>2, WayGrows
  <2> QED BY <2>2, <2>3
<1>5. h[c] = F \o <<>>
  BY <1>2, <1>4, ConcatEmptySeq
<1> DEFINE j == [k \in g..c + 1 |-> IF k = c + 1 THEN <<>> ELSE h[k]]
<1>6. j[c + 1] = <<>> /\ \A k \in g..c : j[k] = h[k]
  <2>1. c + 1 \in g..c + 1 /\ \A k \in g..c : k \in g..c + 1 /\ k # c + 1
    BY <1>1
  <2> QED BY <2>1
<1> HIDE DEF j
<1>7. j[g] = bytes \o F
  BY <1>1, <1>4, <1>6 DEF Way
<1>8. ASSUME NEW k \in g..c + 1 PROVE j[k] \in Seq(Byte)
  <2>1. k \in g..c \/ k = c + 1
    BY <1>1
  <2> QED BY <2>1, <1>4, <1>6, EmptySeq DEF Way
<1>9. ASSUME NEW k \in g + 1..c + 1 PROVE j[k - 1] = Frame(more[k]) \o j[k]
  <2>1. CASE k \in g + 1..c
    <3>1. k \in g..c /\ k - 1 \in g..c /\ k \in 1..c
      BY <2>1, <1>1
    <3>2. h[k - 1] = Frame(msgs[k]) \o h[k]
      BY <2>1, <1>4 DEF Way
    <3> QED BY <3>1, <3>2, <1>3, <1>6
  <2>2. CASE k = c + 1
    <3>1. k - 1 = c
      BY <2>2, <1>1
    <3> QED BY <2>2, <3>1, <1>1, <1>3, <1>5, <1>6 DEF F
  <2>3. k \in g + 1..c \/ k = c + 1
    BY <1>1
  <2> QED BY <2>1, <2>2, <2>3
<1>10. Way(j, bytes \o F, more, g, c + 1) /\ j[c + 1] = <<>>
  BY <1>6, <1>7, <1>8, <1>9 DEF Way
<1> QED BY <1>10 DEF c, more, F

\* A stream as two parts.
LEMMA ByteConcat ==
    ASSUME NEW s \in Seq(Byte), NEW t \in Seq(Byte), NEW r, r = s \o t
    PROVE  /\ r \in Seq(Byte) /\ Len(s) \in Nat /\ Len(t) \in Nat /\ Len(r) = Len(s) + Len(t)
           /\ \A i \in 1..Len(s) : r[i] = s[i]
           /\ \A i \in 1..Len(t) : r[Len(s) + i] = t[i]
BY ConcatAt

\* A part of a stream.
LEMMA BytePart ==
    ASSUME NEW s \in Seq(Byte), NEW i \in Nat, NEW j \in Nat, 1 <= i, i <= j + 1, j <= Len(s),
           NEW r, r = SubSeq(s, i, j)
    PROVE  /\ r \in Seq(Byte) /\ Len(r) = j - i + 1
           /\ \A k \in 1..j - i + 1 : r[k] = s[i + k - 1]
<1>1. Len(s) \in Nat
  BY LenProperties
<1>2. i \in 1..Len(s) + 1 /\ j \in i - 1..Len(s)
  BY <1>1
<1> QED BY <1>2, PartTyped

\* The part of a stream that a length tells.
LEMMA PayloadPart ==
    ASSUME NEW s \in Seq(Byte), NEW n \in Nat, n + 4 <= Len(s), NEW r, r = SubSeq(s, 5, n + 4)
    PROVE  r \in Seq(Byte) /\ Len(r) = n /\ \A k \in 1..n : r[k] = s[4 + k]
<1>1. \A j \in Nat : 5 <= j + 1 /\ j <= Len(s) /\ r = SubSeq(s, 5, j) =>
         r \in Seq(Byte) /\ Len(r) = j - 5 + 1 /\ \A k \in 1..j - 5 + 1 : r[k] = s[5 + k - 1]
  BY BytePart
<1>2. n + 4 \in Nat /\ 5 <= n + 4 + 1
  OBVIOUS
<1>3. r \in Seq(Byte) /\ Len(r) = n + 4 - 5 + 1 /\ \A k \in 1..n + 4 - 5 + 1 : r[k] = s[5 + k - 1]
  BY <1>1, <1>2
<1>4. n + 4 - 5 + 1 = n /\ \A k \in 1..n : 5 + k - 1 = 4 + k
  OBVIOUS
<1> QED BY <1>3, <1>4

\* P is the next payload of the stream of which b was read and w not yet, and rest follows.
IsNext(P, rest, b, w) ==
    /\ Len(P) + 4 <= Len(b) + Len(w)
    /\ Len(b) >= 4 => ReadBigEndianLength(b) = Len(P)
    /\ Len(P) + 4 <= Len(b) => /\ SubSeq(b, 5, Len(P) + 4) = P
                               /\ SubSeq(b, Len(P) + 5, Len(b)) \in Seq(Byte)
                               /\ SubSeq(b, Len(P) + 5, Len(b)) \o w = rest

\* What TryReadFrame finds when the bytes it has were taken from a stream that begins with
\* a frame.
LEMMA NextFrame ==
    ASSUME NEW P \in Seq(Byte), Len(P) \in 4..MaxPayloadBytes, NEW rest \in Seq(Byte),
           NEW b \in Seq(Byte), NEW w \in Seq(Byte),
           NEW F, F = EncodeFrame(P), NEW s, s = b \o w, s = F \o rest
    PROVE  IsNext(P, rest, b, w)
<1>1. /\ F \in Seq(Byte) /\ Len(F) = Len(P) + 4
      /\ \A k \in 1..Len(P) : F[4 + k] = P[k]
  BY FrameBytes
<1>2. /\ s \in Seq(Byte) /\ Len(b) \in Nat /\ Len(w) \in Nat /\ Len(s) = Len(b) + Len(w)
      /\ \A k \in 1..Len(b) : s[k] = b[k]
      /\ \A k \in 1..Len(w) : s[Len(b) + k] = w[k]
  <2>1. b \in Seq(Byte) /\ w \in Seq(Byte) /\ s = b \o w
    OBVIOUS
  <2> QED BY ONLY <2>1, ByteConcat
<1>3. /\ Len(rest) \in Nat /\ Len(s) = Len(F) + Len(rest)
      /\ \A k \in 1..Len(F) : s[k] = F[k]
      /\ \A k \in 1..Len(rest) : s[Len(F) + k] = rest[k]
  <2>1. F \in Seq(Byte) /\ rest \in Seq(Byte) /\ s = F \o rest
    BY <1>1
  <2> QED BY ONLY <2>1, ByteConcat
<1> DEFINE n == Len(P)
           B == Len(b)
           W == Len(w)
<1>4. n \in Nat /\ n >= 4 /\ B \in Nat /\ W \in Nat /\ n <= MaxPayloadBytes
  BY LenProperties
<1>5. /\ Len(s) = B + W
      /\ \A k \in 1..B : s[k] = b[k]
      /\ \A k \in 1..W : s[B + k] = w[k]
  BY <1>2
<1>6. /\ Len(s) = n + 4 + Len(rest)
      /\ \A k \in 1..n + 4 : s[k] = F[k]
      /\ \A k \in 1..Len(rest) : s[n + 4 + k] = rest[k]
  BY <1>1, <1>3
<1> HIDE DEF n, B, W
<1>7. n + 4 <= B + W /\ B + W = n + 4 + Len(rest)
  BY <1>3, <1>4, <1>5, <1>6
<1>8. ASSUME B >= 4 PROVE ReadBigEndianLength(b) = n
  <2>1. ASSUME NEW k \in 1..4 PROVE b[k] = F[k]
    <3>1. k \in 1..B /\ k \in 1..n + 4
      BY <1>4, <1>8
    <3> QED BY <3>1, <1>5, <1>6
  <2> QED BY <2>1, <1>4, LengthRead DEF n
<1>9. ASSUME n + 4 <= B
      PROVE  /\ SubSeq(b, 5, n + 4) = P /\ SubSeq(b, n + 5, B) \in Seq(Byte)
             /\ SubSeq(b, n + 5, B) \o w = rest
  <2> DEFINE a == SubSeq(b, 5, n + 4)
             r == SubSeq(b, n + 5, B)
             t == r \o w
  <2>1. a \in Seq(Byte) /\ Len(a) = n /\ \A k \in 1..n : a[k] = b[4 + k]
    <3>1. n + 4 <= Len(b)
      BY <1>9 DEF B
    <3> QED BY <3>1, <1>4, PayloadPart
  <2>2. r \in Seq(Byte) /\ Len(r) = B - (n + 5) + 1 /\ \A k \in 1..B - (n + 5) + 1 : r[k] = b[n + 5 + k - 1]
    <3>1. n + 5 \in Nat /\ 1 <= n + 5 /\ n + 5 <= B + 1 /\ B <= Len(b)
      BY <1>4, <1>9 DEF B
    <3> QED BY <3>1, <1>4, BytePart
  <2> HIDE DEF a, r
  <2>3. a = P
    <3>1. Len(a) = n
      BY <2>1
    <3>2. ASSUME NEW k \in 1..n PROVE a[k] = P[k]
      <4>1. 4 + k \in 1..B /\ 4 + k \in 1..n + 4
        BY <1>4, <1>9
      <4>2. a[k] = b[4 + k] /\ b[4 + k] = s[4 + k] /\ s[4 + k] = F[4 + k]
        BY <4>1, <2>1, <1>5, <1>6
      <4>3. F[4 + k] = P[k]
        BY <1>1 DEF n
      <4> QED BY <4>2, <4>3
    <3>3. Len(P) = n
      BY DEF n
    <3> QED BY <3>1, <3>2, <3>3, <2>1, SeqEqual
  <2>4. /\ t \in Seq(Byte) /\ Len(t) = Len(r) + W
        /\ \A k \in 1..Len(r) : t[k] = r[k]
        /\ \A k \in 1..W : t[Len(r) + k] = w[k]
    <3>1. /\ t \in Seq(Byte) /\ Len(t) = Len(r) + Len(w)
          /\ \A k \in 1..Len(r) : t[k] = r[k]
          /\ \A k \in 1..Len(w) : t[Len(r) + k] = w[k]
      <4>1. r \in Seq(Byte) /\ w \in Seq(Byte) /\ t = r \o w
        BY <2>2
      <4> HIDE DEF t, r
      <4> QED BY ONLY <4>1, ByteConcat
    <3> QED BY <3>1 DEF W
  <2> HIDE DEF t
  <2>5. Len(r) = B - n - 4 /\ Len(r) \in Nat /\ Len(t) = Len(rest)
    BY <2>2, <2>4, <1>3, <1>4, <1>7, <1>9
  <2>6. ASSUME NEW k \in 1..Len(t) PROVE t[k] = rest[k]
    <3>1. s[n + 4 + k] = rest[k]
      BY <2>5, <1>6
    <3>2. CASE k <= Len(r)
      <4>1. k \in 1..Len(r) /\ k \in 1..B - (n + 5) + 1 /\ n + 5 + k - 1 = n + 4 + k /\ n + 4 + k \in 1..B
        BY <3>2, <2>5, <1>3, <1>4, <1>9
      <4>2. t[k] = r[k] /\ r[k] = b[n + 4 + k] /\ s[n + 4 + k] = b[n + 4 + k]
        BY <4>1, <2>2, <2>4, <1>5
      <4> QED BY <4>2, <3>1
    <3>3. CASE ~ (k <= Len(r))
      <4> DEFINE i == k - Len(r)
      <4>1. i \in 1..W /\ Len(r) + i = k /\ B + i = n + 4 + k
        <5>1. Len(t) = Len(r) + W /\ Len(r) = B - n - 4 /\ Len(r) \in Nat /\ W \in Nat /\ B \in Nat /\ n \in Nat
          BY <2>4, <2>5, <1>4
        <5> QED BY <5>1, <3>3, <2>6
      <4> HIDE DEF i
      <4>2. t[Len(r) + i] = w[i] /\ s[B + i] = w[i]
        BY <4>1, <2>4, <1>5
      <4> QED BY <4>1, <4>2, <3>1
    <3> QED BY <3>2, <3>3
  <2>7. t = rest
    BY <2>4, <2>5, <2>6, SeqEqual
  <2> QED BY <2>2, <2>3, <2>7 DEF a, r, t
<1> QED BY <1>7, <1>8, <1>9 DEF IsNext, n, B, W

\* The bytes are the frames of the messages behind the g-th, and behind them nothing, or
\* anything behind a send that failed.
Lies(bytes, msgs, g, whole) ==
    \E f : /\ Way(f, bytes, msgs, g, Len(msgs))
           /\ whole => f[Len(msgs)] = <<>>

LEMMA LiesNothing == Lies(<<>>, <<>>, 0, TRUE)
<1> DEFINE f == [k \in 0..0 |-> <<>>]
           none == <<>>
<1>1. f[0] = <<>> /\ <<>> \in Seq(Byte) /\ (\A k \in 0..0 : k = 0) /\ (\A k \in 0 + 1..0 : FALSE)
  BY EmptySeq
<1>2. Len(none) = 0 /\ 0 \in 0..0
  OBVIOUS
<1> HIDE DEF f, none
<1>3. Way(f, <<>>, none, 0, 0)
  BY <1>1 DEF Way
<1>4. Lies(<<>>, none, 0, TRUE)
  BY <1>1, <1>2, <1>3 DEF Lies
<1> QED BY <1>4 DEF none

\* A message whose frame is sent whole, as all were before it.
LEMMA LiesWhole ==
    ASSUME NEW msgs, Sendable(msgs), NEW g \in 0..Len(msgs), NEW bytes,
           Lies(bytes, msgs, g, TRUE), NEW m \in Message, SerializeMessage(m) # <<>>
    PROVE  Sendable(Append(msgs, m)) /\ Lies(bytes \o Frame(m), Append(msgs, m), g, TRUE)
<1> DEFINE more == Append(msgs, m)
           F == Frame(m)
<1>0. msgs \in Seq(Message) /\ Len(msgs) \in Nat /\ g \in Nat /\ g <= Len(msgs)
  BY LenProperties DEF Sendable
<1>1. /\ more \in Seq(Message) /\ Len(more) = Len(msgs) + 1 /\ more[Len(msgs) + 1] = m
      /\ \A k \in 1..Len(msgs) : more[k] = msgs[k]
  BY <1>0, AppendProperties
<1>2. Sendable(more)
  <2>1. ASSUME NEW k \in 1..Len(msgs) + 1 PROVE SerializeMessage(more[k]) # <<>>
    <3>1. k \in 1..Len(msgs) \/ k = Len(msgs) + 1
      BY <1>0
    <3> QED BY <3>1, <1>1 DEF Sendable
  <2> QED BY <2>1, <1>1 DEF Sendable
<1>3. PICK f : Way(f, bytes, msgs, g, Len(msgs)) /\ f[Len(msgs)] = <<>>
  BY DEF Lies
<1>4. PICK h : Way(h, bytes \o F, more, g, Len(msgs) + 1) /\ h[Len(msgs) + 1] = <<>>
  BY <1>3, WayExtends
<1> HIDE DEF more, F
<1>5. Way(h, bytes \o F, more, g, Len(more)) /\ h[Len(more)] = <<>>
  BY <1>4, <1>1
<1>6. Lies(bytes \o F, more, g, TRUE)
  BY <1>5 DEF Lies
<1> QED BY <1>6, <1>2 DEF more, F

\* Anything that comes behind the messages from a send that failed on.
LEMMA LiesMore ==
    ASSUME NEW msgs, Sendable(msgs), NEW g \in 0..Len(msgs), NEW bytes, NEW whole \in BOOLEAN,
           Lies(bytes, msgs, g, whole), NEW q \in Seq(Byte)
    PROVE  Lies(bytes \o q, msgs, g, FALSE)
<1>1. PICK f : Way(f, bytes, msgs, g, Len(msgs))
  BY DEF Lies
<1> DEFINE c == Len(msgs)
<1>2. g \in Nat /\ c \in g..Len(msgs)
  BY LenProperties DEF Sendable
<1>3. Way(f, bytes, msgs, g, c)
  BY <1>1
<1> HIDE DEF c
<1>4. Way(Grown(f, q, g, c), bytes \o q, msgs, g, c)
  BY <1>2, <1>3, WayGrows
<1>5. Way(Grown(f, q, g, c), bytes \o q, msgs, g, Len(msgs))
  BY <1>4 DEF c
<1> QED BY <1>5 DEF Lies

\* What the receiver finds with the bytes b when w are still on their way and it waits for
\* the message behind the g-th: that message.
FindsMessage(b, w, msgs, g, whole) ==
    LET P == SerializeMessage(msgs[g + 1])
    IN  /\ g < Len(msgs) /\ Len(P) \in 4..MaxPayloadBytes /\ Len(P) + 4 <= Len(b) + Len(w)
        /\ Len(b) >= 4 => ReadBigEndianLength(b) = Len(P)
        /\ Len(P) + 4 <= Len(b) =>
              /\ DeserializeMessage(SubSeq(b, 5, Len(P) + 4)).ok
              /\ DeserializeMessage(SubSeq(b, 5, Len(P) + 4)).message = msgs[g + 1]
              /\ SubSeq(b, Len(P) + 5, Len(b)) \in Seq(Byte)
              /\ Lies(SubSeq(b, Len(P) + 5, Len(b)) \o w, msgs, g + 1, whole)

LEMMA LiesRead ==
    ASSUME NEW msgs, Sendable(msgs), NEW g \in 0..Len(msgs), NEW whole \in BOOLEAN,
           NEW b \in Seq(Byte), NEW w \in Seq(Byte), Lies(b \o w, msgs, g, whole)
    PROVE  \/ FindsMessage(b, w, msgs, g, whole)
           \/ g = Len(msgs) /\ (whole => Len(b) = 0 /\ Len(w) = 0)
<1> DEFINE s == b \o w
           c == Len(msgs)
<1>0. c \in Nat /\ g \in Nat /\ g <= c /\ msgs \in Seq(Message) /\ c = Len(msgs)
  BY LenProperties DEF Sendable
<1>2. PICK f : Way(f, s, msgs, g, c) /\ (whole => f[c] = <<>>)
  BY DEF Lies
<1>3. s = b \o w
  OBVIOUS
<1> HIDE DEF s, c
<1>4. CASE c = g
  <2>1. f[c] = s
    BY <1>2, <1>4 DEF Way
  <2>2. ASSUME whole PROVE Len(b) = 0 /\ Len(w) = 0
    <3>1. s = <<>>
      BY <2>1, <2>2, <1>2
    <3>2. Len(s) = Len(b) + Len(w) /\ Len(b) \in Nat /\ Len(w) \in Nat
      BY <1>3, ByteConcat
    <3>3. Len(s) = 0
      BY <3>1
    <3> DEFINE B == Len(b)
               W == Len(w)
    <3>4. B + W = 0 /\ B \in Nat /\ W \in Nat
      BY <3>2, <3>3
    <3> HIDE DEF B, W
    <3>5. B = 0 /\ W = 0
      BY <3>4
    <3> QED BY <3>5 DEF B, W
  <2> QED BY <2>2, <1>0, <1>4
<1>5. CASE c # g
  <2> DEFINE m == msgs[g + 1]
             P == SerializeMessage(m)
             rest == f[g + 1]
  <2>1. g + 1 \in g + 1..c /\ g + 1 \in g..c /\ g + 1 \in 1..c /\ g < c /\ g + 1 - 1 = g
        /\ g + 1 \in Nat
    BY <1>0, <1>5
  <2>2. m \in Message /\ P # <<>>
    BY <2>1, <1>0, LenProperties DEF Sendable
  <2>3. s = Frame(m) \o rest /\ rest \in Seq(Byte)
    <3> HIDE DEF m, rest
    <3> DEFINE k == g + 1
    <3>1. f[g] = s /\ (\A i \in g..c : f[i] \in Seq(Byte))
      BY <1>2 DEF Way
    <3>2. \A i \in g + 1..c : f[i - 1] = Frame(msgs[i]) \o f[i]
      BY <1>2 DEF Way
    <3>3. k \in g + 1..c /\ k - 1 = g /\ k \in g..c
      BY <2>1
    <3>4. m = msgs[k] /\ rest = f[k]
      BY DEF m, rest
    <3> HIDE DEF k
    <3>5. f[k - 1] = Frame(msgs[k]) \o f[k]
      BY <3>2, <3>3
    <3> QED BY <3>1, <3>3, <3>4, <3>5
  <2>4. Way(f, rest, msgs, g + 1, c)
    <3>1. \A k \in g + 1..c : k \in g..c
      BY <1>0
    <3>2. \A k \in g + 1 + 1..c : k \in g + 1..c
      BY <1>0
    <3> QED BY <3>1, <3>2, <1>2 DEF Way
  <2>5. Lies(rest, msgs, g + 1, whole)
    BY <2>4, <1>2 DEF Lies, c
  <2>6. m \in Messages /\ P \in Seq(Byte) /\ Len(P) \in 4..MaxPayloadBytes
    BY <2>2, MessageFrame
  <2>7. DeserializeMessage(P).ok /\ DeserializeMessage(P).message = m
    BY <2>2, <2>6, RoundTrip
  <2> HIDE DEF m, P, rest
  <2>8. Frame(m) = EncodeFrame(P)
    BY DEF Frame, P
  <2>9. IsNext(P, rest, b, w)
    <3>1. P \in Seq(Byte) /\ rest \in Seq(Byte) /\ b \in Seq(Byte) /\ w \in Seq(Byte)
      BY <2>3, <2>6
    <3> DEFINE F == EncodeFrame(P)
    <3>2. Len(P) \in 4..MaxPayloadBytes /\ s = b \o w /\ F = EncodeFrame(P) /\ s = F \o rest
      BY <2>3, <2>6, <2>8, <1>3
    <3> HIDE DEF F
    <3> QED BY ONLY <3>1, <3>2, NextFrame
  <2>10. FindsMessage(b, w, msgs, g, whole)
    BY <2>1, <2>5, <2>6, <2>7, <2>9, <1>0 DEF FindsMessage, IsNext, m, P
  <2> QED BY <2>10
<1> QED BY <1>4, <1>5

\* Of the bytes w the first n, which are u, were put behind b, and v is left.
IsTaken(b, w, n, u, v) ==
    /\ v \in Seq(Byte) /\ b \o u \in Seq(Byte) /\ Len(b \o u) = Len(b) + n
    /\ (b \o u) \o v = b \o w

LEMMA Taken ==
    ASSUME NEW b \in Seq(Byte), NEW w \in Seq(Byte), NEW n \in 1..Len(w),
           NEW u, u = SubSeq(w, 1, n), NEW v, v = SubSeq(w, n + 1, Len(w))
    PROVE  IsTaken(b, w, n, u, v)
<1>1. Len(w) \in Nat /\ n \in Nat /\ n >= 1 /\ n <= Len(w)
  BY LenProperties
<1>2. u \in Seq(Byte) /\ Len(u) = n /\ \A k \in 1..n : u[k] = w[k]
  <2>1. u \in Seq(Byte) /\ Len(u) = n - 1 + 1 /\ \A k \in 1..n - 1 + 1 : u[k] = w[1 + k - 1]
    <3> DEFINE i == 1
    <3>1. /\ w \in Seq(Byte) /\ i \in Nat /\ n \in Nat /\ 1 <= i /\ i <= n + 1 /\ n <= Len(w)
          /\ u = SubSeq(w, i, n)
      BY <1>1
    <3> HIDE DEF i
    <3>2. u \in Seq(Byte) /\ Len(u) = n - i + 1 /\ \A k \in 1..n - i + 1 : u[k] = w[i + k - 1]
      BY ONLY <3>1, BytePart
    <3> QED BY ONLY <3>2 DEF i
  <2>2. n - 1 + 1 = n /\ \A k \in 1..n : 1 + k - 1 = k
    BY <1>1
  <2> QED BY ONLY <2>1, <2>2
<1>3. v \in Seq(Byte) /\ Len(v) = Len(w) - n /\ \A k \in 1..Len(w) - n : v[k] = w[n + k]
  <2> DEFINE i == n + 1
             j == Len(w)
  <2>1. i \in Nat /\ j \in Nat /\ 1 <= i /\ i <= j + 1 /\ j <= Len(w) /\ v = SubSeq(w, i, j)
    BY <1>1
  <2>2. j - i + 1 = j - n /\ \A k \in 1..j - n : i + k - 1 = n + k
    BY <1>1
  <2> HIDE DEF i, j
  <2>3. v \in Seq(Byte) /\ Len(v) = j - i + 1 /\ \A k \in 1..j - i + 1 : v[k] = w[i + k - 1]
    <3>1. w \in Seq(Byte)
      OBVIOUS
    <3> QED BY ONLY <3>1, <2>1, BytePart
  <2>4. v \in Seq(Byte) /\ Len(v) = j - n /\ \A k \in 1..j - n : v[k] = w[n + k]
    BY <2>2, <2>3
  <2> QED BY <2>4 DEF j
<1> DEFINE r == u \o v
<1>4. /\ r \in Seq(Byte) /\ Len(r) = Len(u) + Len(v)
      /\ \A k \in 1..Len(u) : r[k] = u[k]
      /\ \A k \in 1..Len(v) : r[Len(u) + k] = v[k]
  <2>1. u \in Seq(Byte) /\ v \in Seq(Byte)
    BY <1>2, <1>3
  <2>2. r = u \o v
    OBVIOUS
  <2> HIDE DEF r
  <2> QED BY ONLY <2>1, <2>2, ByteConcat
<1> HIDE DEF r
<1>5. r = w
  <2>1. Len(r) = Len(w)
    BY <1>1, <1>2, <1>3, <1>4
  <2>2. ASSUME NEW k \in 1..Len(r) PROVE r[k] = w[k]
    <3>1. CASE k <= n
      <4>1. k \in 1..n /\ k \in 1..Len(u)
        BY <3>1, <1>1, <1>2
      <4> QED BY <4>1, <1>2, <1>4
    <3>2. CASE ~ (k <= n)
      <4> DEFINE i == k - n
      <4>1. i \in 1..Len(w) - n /\ n + i = k /\ i \in 1..Len(v) /\ Len(u) + i = k
        <5>1. /\ Len(r) = Len(w) /\ Len(w) \in Nat /\ n \in Nat
              /\ Len(u) = n /\ Len(v) = Len(w) - n
          BY <2>1, <1>1, <1>2, <1>3
        <5> QED BY <5>1, <3>2, <2>2
      <4> HIDE DEF i
      <4>2. v[i] = w[n + i] /\ r[Len(u) + i] = v[i]
        BY <4>1, <1>3, <1>4
      <4> QED BY <4>1, <4>2
    <3> QED BY <3>1, <3>2
  <2> QED BY <2>1, <2>2, <1>4, SeqEqual
<1>6. b \o u \in Seq(Byte) /\ Len(b \o u) = Len(b) + n
  <2> DEFINE t == b \o u
  <2>1. t \in Seq(Byte) /\ Len(t) = Len(b) + Len(u)
    BY <1>2, ByteConcat
  <2> QED BY <2>1, <1>2
<1>7. (b \o u) \o v = b \o (u \o v)
  <2>1. b \in Seq(Byte) /\ u \in Seq(Byte) /\ v \in Seq(Byte)
    BY <1>2, <1>3
  <2> QED BY ONLY <2>1, ByteAssociates
<1> QED BY <1>3, <1>5, <1>6, <1>7 DEF IsTaken, r

-----------------------------------------------------------------------------
(* The inductive invariant.                                                  *)

\* What was given to the receiver so far is what was sent, as long as it was not given
\* everything; behind that only a send that failed can have given it anything.
Within ==
    /\ got \in Seq(Message) /\ Len(got) <= Len(sent)
    /\ \A k \in 1..Len(got) : got[k] = sent[k]
Beyond ==
    /\ \E S : got \in Seq(S)
    /\ Len(sent) < Len(got)
    /\ \A k \in 1..Len(sent) : got[k] = sent[k]
Served == Sendable(sent) /\ (Within \/ (cuts # 0 /\ Beyond))

Bounds ==
    /\ calls \in 0..MaxSends /\ cuts \in 0..MaxCuts /\ Len(sent) + cuts <= calls
    /\ wire \in Seq(Byte) /\ buffer \in Seq(Byte) /\ Len(buffer) <= MaxPayloadBytes + 4
    /\ receiver \in {"reading", "closed", "error"}

\* What it was not given yet lies in its buffer and on the wire.
Whole == cuts = 0
OnTheWay == receiver # "error" /\ Within => Lies(buffer \o wire, sent, Len(got), Whole)

FramesInv == Served /\ Bounds /\ OnTheWay /\ GivesUpOnlyOverLongFrames

LEMMA StreamFacts ==
    ASSUME FramesInv
    PROVE  /\ Sendable(sent) /\ sent \in Seq(Message) /\ Len(sent) \in Nat /\ Len(got) \in Nat
           /\ Within => got \in Seq(Message) /\ Len(got) \in 0..Len(sent)
           /\ Within => \A k \in 1..Len(got) : got[k] = sent[k]
           /\ Within /\ receiver # "error" => Lies(buffer \o wire, sent, Len(got), Whole)
           /\ ~ Within => cuts # 0 /\ Beyond
           /\ wire \in Seq(Byte) /\ buffer \in Seq(Byte) /\ Len(wire) \in Nat /\ Len(buffer) \in Nat
           /\ Whole \in BOOLEAN /\ MaxPayloadBytes \in Nat /\ ReceiveBytes \in 1..MaxPayloadBytes
           /\ MaxSends \in Nat /\ MaxCuts \in Nat
<1>1. /\ Sendable(sent) /\ sent \in Seq(Message) /\ wire \in Seq(Byte) /\ buffer \in Seq(Byte)
      /\ Within \/ (cuts # 0 /\ Beyond)
      /\ Within /\ receiver # "error" => Lies(buffer \o wire, sent, Len(got), Whole)
  BY DEF FramesInv, Served, Bounds, OnTheWay, Sendable
<1>2. Len(sent) \in Nat /\ Len(wire) \in Nat /\ Len(buffer) \in Nat
  BY <1>1, LenProperties
<1>3. Len(got) \in Nat
  <2>1. PICK S : got \in Seq(S)
    BY <1>1 DEF Within, Beyond
  <2> QED BY <2>1, LenProperties
<1>4. Within => /\ got \in Seq(Message) /\ Len(got) \in 0..Len(sent)
                /\ \A k \in 1..Len(got) : got[k] = sent[k]
  BY <1>2, <1>3 DEF Within
<1>5. Whole \in BOOLEAN
  BY DEF Whole
<1>6. MaxPayloadBytes \in Nat /\ ReceiveBytes \in 1..MaxPayloadBytes /\ MaxSends \in Nat /\ MaxCuts \in Nat
  BY LimitsAreNat, StreamLimits
<1> QED BY <1>1, <1>2, <1>3, <1>4, <1>5, <1>6

LEMMA StreamStarts == ASSUME StreamInit PROVE FramesInv
<1> DEFINE none == <<>>
<1>1. none = <<>> /\ Len(none) = 0 /\ none \in Seq(Byte) /\ none \in Seq(Message)
  BY EmptySeq
<1>2. sent = none /\ wire = none /\ buffer = none /\ got = none /\ calls = 0 /\ cuts = 0
      /\ receiver = "reading"
  BY DEF StreamInit
<1>3. Lies(none, none, 0, TRUE)
  BY LiesNothing
<1>4. none \o none = none
  BY ConcatEmptySeq
<1> HIDE DEF none
<1>5. Served
  BY <1>1, <1>2 DEF Served, Within, Sendable
<1>6. Bounds
  BY <1>1, <1>2, LimitsAreNat, StreamLimits DEF Bounds
<1>7. Whole = TRUE
  BY <1>2 DEF Whole
<1>8. OnTheWay
  BY <1>1, <1>2, <1>3, <1>4, <1>7 DEF OnTheWay
<1>9. GivesUpOnlyOverLongFrames
  BY <1>2 DEF GivesUpOnlyOverLongFrames
<1> QED BY <1>5, <1>6, <1>8, <1>9 DEF FramesInv

\* More bytes behind a send that failed, or from it on, change nothing for the messages
\* before it.
LEMMA SpoiltKeeps ==
    ASSUME FramesInv, NEW q \in Seq(Byte), wire' = wire \o q, sent' = sent, got' = got,
           buffer' = buffer, receiver' = receiver, cuts' # 0, cuts' \in 0..MaxCuts,
           calls' \in 0..MaxSends, Len(sent) + cuts' <= calls'
    PROVE  FramesInv'
<1> DEFINE g == Len(got)
<1>1. /\ Sendable(sent) /\ wire \in Seq(Byte) /\ buffer \in Seq(Byte) /\ Whole \in BOOLEAN
      /\ Within => g \in 0..Len(sent)
      /\ Within /\ receiver # "error" => Lies(buffer \o wire, sent, g, Whole)
  BY StreamFacts
<1>2. Within' = Within /\ Beyond' = Beyond
  BY DEF Within, Beyond
<1>3. Served'
  BY <1>2 DEF FramesInv, Served
<1>4. Bounds'
  <2>1. wire' \in Seq(Byte)
    BY <1>1, ByteConcat
  <2> QED BY <2>1 DEF Bounds, FramesInv
<1>5. OnTheWay'
  <2>1. (buffer \o wire) \o q = buffer \o (wire \o q)
    BY <1>1, ByteAssociates
  <2>2. Whole' = FALSE
    BY DEF Whole
  <2>3. SUFFICES ASSUME receiver' # "error", Within' PROVE Lies(buffer' \o wire', sent', Len(got'), Whole')
    BY DEF OnTheWay
  <2> DEFINE all == Whole
             bytes == buffer \o wire
  <2>4. /\ Sendable(sent) /\ g \in 0..Len(sent) /\ all \in BOOLEAN /\ Lies(bytes, sent, g, all)
        /\ q \in Seq(Byte)
    BY <1>1, <1>2, <2>3
  <2> HIDE DEF g, all, bytes
  <2>5. Lies(bytes \o q, sent, g, FALSE)
    BY ONLY <2>4, LiesMore
  <2> QED BY <2>1, <2>2, <2>5 DEF g, bytes
<1>6. GivesUpOnlyOverLongFrames'
  BY DEF GivesUpOnlyOverLongFrames
<1> QED BY <1>3, <1>4, <1>5, <1>6 DEF FramesInv

LEMMA SendKeeps ==
    ASSUME FramesInv, NEW m \in Message, Send(m)
    PROVE  FramesInv'
<1> DEFINE P == SerializeMessage(m)
           F == Frame(m)
           g == Len(got)
<1>1. /\ Sendable(sent) /\ sent \in Seq(Message) /\ Len(sent) \in Nat /\ g \in Nat
      /\ Within => g \in 0..Len(sent)
      /\ Within => \A k \in 1..g : got[k] = sent[k]
      /\ wire \in Seq(Byte) /\ buffer \in Seq(Byte) /\ Whole \in BOOLEAN
      /\ Within /\ receiver # "error" => Lies(buffer \o wire, sent, g, Whole)
      /\ ~ Within => cuts # 0 /\ Beyond
  BY StreamFacts
<1>2. /\ calls \in 0..MaxSends /\ cuts \in 0..MaxCuts /\ Len(sent) + cuts <= calls
      /\ MaxSends \in Nat /\ MaxCuts \in Nat
  BY StreamFacts DEF FramesInv, Bounds
<1>3. /\ calls < MaxSends /\ calls' = calls + 1
      /\ buffer' = buffer /\ got' = got /\ receiver' = receiver
  BY DEF Send
<1>4. EncodeFrame(P) = F
  BY DEF Frame
<1>10. calls' \in 0..MaxSends
  BY <1>2, <1>3
<1>5. CASE P = <<>>
  <2>1. sent' = sent /\ cuts' = cuts /\ wire' = wire
    BY <1>5 DEF Send
  <2>6. Within' = Within /\ Beyond' = Beyond
    BY <1>3, <2>1 DEF Within, Beyond
  <2>2. Served'
    BY <2>1, <2>6 DEF Served, FramesInv
  <2>3. Bounds'
    <3>1. Len(sent) + cuts <= calls'
      BY <1>1, <1>2, <1>3
    <3> QED BY <3>1, <1>3, <1>10, <2>1 DEF Bounds, FramesInv
  <2>4. OnTheWay'
    BY <1>3, <2>1, <2>6 DEF OnTheWay, Whole, FramesInv
  <2>5. GivesUpOnlyOverLongFrames'
    BY <1>3, <2>1 DEF GivesUpOnlyOverLongFrames, FramesInv
  <2> QED BY <2>2, <2>3, <2>4, <2>5 DEF FramesInv
<1>6. ASSUME P # <<>>, wire' = wire \o F, cuts = 0, sent' = Append(sent, m), cuts' = cuts
      PROVE  FramesInv'
  <2>1. F \in Seq(Byte)
    BY <1>6, MessageFrame
  <2>2. /\ sent' \in Seq(Message) /\ Len(sent') = Len(sent) + 1
        /\ \A k \in 1..Len(sent) : sent'[k] = sent[k]
    BY <1>1, <1>6, AppendProperties
  <2>9. Within /\ Whole = TRUE
    BY <1>1, <1>6 DEF Whole
  <2>10. g \in 0..Len(sent) /\ got \in Seq(Message) /\ \A k \in 1..g : got[k] = sent[k]
    BY <1>1, <2>9 DEF Within
  <2>3. receiver # "error" =>
           Sendable(Append(sent, m)) /\ Lies((buffer \o wire) \o F, Append(sent, m), g, TRUE)
    <3> DEFINE bytes == buffer \o wire
    <3>1. receiver # "error" => Lies(bytes, sent, g, TRUE)
      BY <1>1, <2>9
    <3> HIDE DEF bytes, g
    <3>2. receiver # "error" => Sendable(Append(sent, m)) /\ Lies(bytes \o F, Append(sent, m), g, TRUE)
      BY <3>1, <1>1, <1>6, <2>10, LiesWhole
    <3> QED BY <3>2 DEF bytes
  <2>4. Sendable(sent')
    <3>1. ASSUME NEW k \in 1..Len(sent') PROVE SerializeMessage(sent'[k]) # <<>>
      <4>1. k \in 1..Len(sent) \/ k = Len(sent) + 1
        BY <1>1, <2>2
      <4>2. sent'[Len(sent) + 1] = m
        BY <1>1, <1>6, AppendProperties
      <4> QED BY <4>1, <4>2, <2>2, <1>1, <1>6 DEF Sendable
    <3> QED BY <3>1, <2>2 DEF Sendable
  <2>5. Served'
    <3>1. got' \in Seq(Message) /\ Len(got') <= Len(sent')
      BY <1>1, <1>3, <2>2, <2>10
    <3>2. ASSUME NEW k \in 1..Len(got') PROVE got'[k] = sent'[k]
      <4>1. k \in 1..g /\ k \in 1..Len(sent)
        BY <1>1, <1>3, <2>10
      <4> QED BY <4>1, <1>3, <2>2, <2>10
    <3> QED BY <3>1, <3>2, <2>4 DEF Served, Within
  <2>6. Bounds'
    <3>1. Len(sent') + cuts' <= calls' /\ cuts' \in 0..MaxCuts
      BY <1>1, <1>2, <1>3, <1>6, <2>2
    <3>2. wire' \in Seq(Byte)
      BY <1>1, <1>6, <2>1, ByteConcat
    <3> QED BY <3>1, <3>2, <1>3, <1>10 DEF Bounds, FramesInv
  <2>7. OnTheWay'
    <3>1. (buffer \o wire) \o F = buffer \o (wire \o F)
      <4>1. buffer \in Seq(Byte) /\ wire \in Seq(Byte) /\ F \in Seq(Byte)
        BY <1>1, <2>1
      <4> HIDE DEF F
      <4> QED BY ONLY <4>1, ByteAssociates
    <3>2. Whole' = TRUE
      BY <1>6 DEF Whole
    <3> HIDE DEF F
    <3>3. receiver # "error" => Lies(buffer' \o wire', sent', Len(got'), Whole')
      BY <2>3, <3>1, <3>2, <1>3, <1>6
    <3> QED BY <3>3, <1>3 DEF OnTheWay
  <2>8. GivesUpOnlyOverLongFrames'
    <3>1. SUFFICES ASSUME receiver' = "error", cuts' = 0
                   PROVE  \E k \in 1..Len(sent') :
                             Len(SerializeMessage(sent'[k])) > MaxPayloadBytes + 1 - ReceiveBytes
      BY DEF GivesUpOnlyOverLongFrames
    <3>2. PICK k \in 1..Len(sent) :
             Len(SerializeMessage(sent[k])) > MaxPayloadBytes + 1 - ReceiveBytes
      BY <3>1, <1>3, <1>6 DEF FramesInv, GivesUpOnlyOverLongFrames
    <3>3. k \in 1..Len(sent') /\ sent'[k] = sent[k]
      BY <1>1, <2>2
    <3> QED BY <3>2, <3>3
  <2> QED BY <2>5, <2>6, <2>7, <2>8 DEF FramesInv
<1>7. ASSUME NEW q \in Seq(Byte), wire' = wire \o q, sent' = sent,
             \/ cuts' = cuts /\ cuts # 0
             \/ cuts < MaxCuts /\ cuts' = cuts + 1
      PROVE  FramesInv'
  <2>1. cuts' # 0 /\ cuts' \in 0..MaxCuts /\ Len(sent) + cuts' <= calls'
    BY <1>1, <1>2, <1>3, <1>7
  <2> QED BY <2>1, <1>3, <1>7, <1>10, SpoiltKeeps
<1>8. \/ P = <<>>
      \/ P # <<>> /\ wire' = wire \o F /\ cuts = 0 /\ sent' = Append(sent, m) /\ cuts' = cuts
      \/ P # <<>> /\ wire' = wire \o F /\ cuts # 0 /\ sent' = sent /\ cuts' = cuts
      \/ P # <<>> /\ cuts < MaxCuts /\ cuts' = cuts + 1 /\ sent' = sent
         /\ \E n \in 0..Len(P) + 3 : wire' = wire \o SubSeq(F, 1, n)
  BY <1>4 DEF Send
<1>9. P # <<>> => F \in Seq(Byte) /\ \A n \in 0..Len(P) + 3 : SubSeq(F, 1, n) \in Seq(Byte)
  BY MessageFrame
<1> HIDE DEF F
<1> QED BY <1>5, <1>6, <1>7, <1>8, <1>9

LEMMA ReadFrameKeeps ==
    ASSUME FramesInv, ReadFrame
    PROVE  FramesInv'
<1> DEFINE g == Len(got)
           length == ReadBigEndianLength(buffer)
           parsed == DeserializeMessage(SubSeq(buffer, 5, length + 4))
           rest == SubSeq(buffer, length + 5, Len(buffer))
<1>1. /\ Sendable(sent) /\ sent \in Seq(Message) /\ Len(sent) \in Nat /\ g \in Nat
      /\ Within => got \in Seq(Message) /\ g \in 0..Len(sent)
      /\ Within => \A k \in 1..g : got[k] = sent[k]
      /\ ~ Within => cuts # 0 /\ Beyond
      /\ Len(buffer) \in Nat /\ MaxPayloadBytes \in Nat
      /\ wire \in Seq(Byte) /\ buffer \in Seq(Byte) /\ Whole \in BOOLEAN
      /\ Within /\ receiver # "error" => Lies(buffer \o wire, sent, g, Whole)
  BY StreamFacts
<1>2. /\ receiver = "reading" /\ ~ NeedsMore
      /\ sent' = sent /\ calls' = calls /\ cuts' = cuts /\ wire' = wire
  BY DEF ReadFrame, sender
<1>3. Len(buffer) >= 4 /\ ~ (length <= MaxPayloadBytes /\ Len(buffer) < length + 4)
  BY <1>2 DEF NeedsMore
<1>4. /\ length > MaxPayloadBytes => receiver' = "error" /\ buffer' = <<>> /\ got' = got
      /\ ~ (length > MaxPayloadBytes) =>
            /\ buffer' = rest
            /\ parsed.ok => got' = Append(got, parsed.message) /\ receiver' = receiver
            /\ ~ parsed.ok => got' = got /\ receiver' = "error"
  BY DEF ReadFrame
<1>5. \/ Within /\ FindsMessage(buffer, wire, sent, g, Whole)
      \/ cuts # 0 /\ (Within => g = Len(sent))
  <2> DEFINE all == Whole
  <2>1. CASE Within
    <3>1. /\ Sendable(sent) /\ g \in 0..Len(sent) /\ all \in BOOLEAN /\ buffer \in Seq(Byte)
          /\ wire \in Seq(Byte) /\ Lies(buffer \o wire, sent, g, all)
      BY <2>1, <1>1, <1>2
    <3>2. ~ all => cuts # 0
      BY DEF Whole
    <3>3. Len(buffer) # 0
      BY <1>3
    <3> HIDE DEF g, all
    <3>4. \/ FindsMessage(buffer, wire, sent, g, all)
          \/ g = Len(sent) /\ (all => Len(buffer) = 0 /\ Len(wire) = 0)
      BY ONLY <3>1, LiesRead
    <3>5. FindsMessage(buffer, wire, sent, g, all) \/ (cuts # 0 /\ g = Len(sent))
      BY ONLY <3>2, <3>3, <3>4
    <3> QED BY <3>5, <2>1 DEF all
  <2> QED BY <2>1, <1>1
<1>10. length \in Nat
  <2>1. \A k \in 1..4 : k \in 1..Len(buffer)
    BY <1>1, <1>3
  <2>2. \A k \in 1..Len(buffer) : buffer[k] \in Byte
    BY <1>1, LenProperties
  <2> QED BY <2>1, <2>2, LengthTyped
<1>11. ~ (length > MaxPayloadBytes) => length + 4 <= Len(buffer)
  BY <1>1, <1>3, <1>10
<1> HIDE DEF parsed, rest, length
\* In any case the buffer holds less.
<1>6. Bounds'
  <2>1. ASSUME ~ (length > MaxPayloadBytes)
        PROVE  rest \in Seq(Byte) /\ Len(rest) <= MaxPayloadBytes + 4
    <3> DEFINE i == length + 5
               j == Len(buffer)
    <3>1. i \in Nat /\ j \in Nat /\ 1 <= i /\ i <= j + 1 /\ j <= Len(buffer) /\ rest = SubSeq(buffer, i, j)
          /\ buffer \in Seq(Byte)
      BY <1>1, <1>10, <1>11, <2>1 DEF rest, length
    <3>2. j - i + 1 <= MaxPayloadBytes + 4
      BY <1>1, <1>10 DEF FramesInv, Bounds
    <3> HIDE DEF i, j
    <3>3. rest \in Seq(Byte) /\ Len(rest) = j - i + 1
      BY ONLY <3>1, BytePart
    <3> QED BY <3>2, <3>3
  <2>2. buffer' \in Seq(Byte) /\ Len(buffer') <= MaxPayloadBytes + 4
    <3> DEFINE none == <<>>
    <3>1. none \in Seq(Byte) /\ Len(none) = 0 /\ (length > MaxPayloadBytes => buffer' = none)
      BY <1>4, EmptySeq
    <3> HIDE DEF none
    <3>2. CASE length > MaxPayloadBytes
      <4>1. buffer' = none
        BY <3>1, <3>2
      <4> QED BY <4>1, <3>1, <1>1
    <3>3. CASE ~ (length > MaxPayloadBytes)
      <4>1. buffer' = rest
        BY <3>3, <1>4
      <4> QED BY <4>1, <3>3, <2>1
    <3> QED BY <3>2, <3>3
  <2>3. receiver' \in {"reading", "error"}
    BY <1>2, <1>4
  <2> QED BY <2>2, <2>3, <1>2 DEF Bounds, FramesInv
<1>8. CASE Within /\ FindsMessage(buffer, wire, sent, g, Whole)
  <2> DEFINE m == sent[g + 1]
             P == SerializeMessage(m)
  <2>1. /\ g < Len(sent) /\ Len(P) \in 4..MaxPayloadBytes /\ length = Len(P)
        /\ Len(P) + 4 <= Len(buffer) =>
              /\ DeserializeMessage(SubSeq(buffer, 5, Len(P) + 4)).ok
              /\ DeserializeMessage(SubSeq(buffer, 5, Len(P) + 4)).message = m
              /\ Lies(SubSeq(buffer, Len(P) + 5, Len(buffer)) \o wire, sent, g + 1, Whole)
    BY <1>3, <1>8 DEF FindsMessage, length
  <2> HIDE DEF m, P
  <2>2. length \in Nat /\ length <= MaxPayloadBytes /\ length + 4 <= Len(buffer) /\ Len(P) + 4 <= Len(buffer)
    BY <2>1, <1>1, <1>3
  <2>3. parsed.ok /\ parsed.message = m /\ Lies(rest \o wire, sent, g + 1, Whole)
    BY <2>1, <2>2 DEF parsed, rest, length
  <2>4. buffer' = rest /\ got' = Append(got, m) /\ receiver' = "reading"
    BY <2>2, <2>3, <1>1, <1>2, <1>4
  <2>5. m \in Message /\ g + 1 \in 1..Len(sent)
    <3>1. g + 1 \in 1..Len(sent)
      BY <2>1, <1>1
    <3> QED BY <3>1, <1>1, LenProperties DEF m
  <2>6. /\ got' \in Seq(Message) /\ Len(got') = g + 1 /\ got'[g + 1] = m
        /\ \A k \in 1..g : got'[k] = got[k]
    BY <2>4, <2>5, <1>1, <1>8, AppendProperties
  <2>7. Served'
    <3>1. ASSUME NEW k \in 1..Len(got') PROVE got'[k] = sent'[k]
      <4>1. k \in 1..g \/ k = g + 1
        BY <2>6, <1>1
      <4>2. \A i \in 1..g : got[i] = sent[i]
        BY <1>1, <1>8
      <4> QED BY <4>1, <4>2, <2>6, <1>2 DEF m
    <3>2. Len(got') <= Len(sent')
      BY <2>1, <2>6, <1>1, <1>2
    <3> QED BY <3>1, <3>2, <2>6, <1>1, <1>2 DEF Served, Within
  <2>9. OnTheWay'
    <3>1. Whole' = Whole
      BY <1>2 DEF Whole
    <3>2. Lies(buffer' \o wire', sent', Len(got'), Whole')
      BY <3>1, <2>3, <2>4, <2>6, <1>2
    <3> QED BY <3>2 DEF OnTheWay
  <2>10. GivesUpOnlyOverLongFrames'
    BY <2>4 DEF GivesUpOnlyOverLongFrames
  <2> QED BY <2>7, <2>9, <2>10, <1>6 DEF FramesInv
<1>9. CASE cuts # 0 /\ (Within => g = Len(sent))
  <2>4. GivesUpOnlyOverLongFrames'
    BY <1>2, <1>9 DEF GivesUpOnlyOverLongFrames
  <2>1. CASE got' = got
    <3>1. Within' = Within /\ Beyond' = Beyond
      BY <2>1, <1>2 DEF Within, Beyond
    <3>2. receiver' = "error"
      <4>1. parsed.ok /\ ~ (length > MaxPayloadBytes) => Len(got') = g + 1
        <5>1. PICK S : got \in Seq(S)
          BY <1>1 DEF Within, Beyond
        <5>2. got \in Seq(S \cup {parsed.message})
          BY <5>1
        <5> QED BY <5>2, <1>4, AppendProperties
      <4> QED BY <4>1, <2>1, <1>1, <1>4
    <3>3. Served'
      BY <3>1, <1>1, <1>2, <1>9 DEF Served
    <3>4. OnTheWay'
      BY <3>2 DEF OnTheWay
    <3> QED BY <3>3, <3>4, <2>4, <1>6 DEF FramesInv
  <2>2. CASE got' = Append(got, parsed.message)
    <3> DEFINE m == parsed.message
    <3>1. PICK S : got \in Seq(S)
      BY <1>1 DEF Within, Beyond
    <3> DEFINE T == S \cup {m}
    <3>2. got \in Seq(T) /\ m \in T
      BY <3>1
    <3> HIDE DEF T, m
    <3>3. /\ got' \in Seq(T) /\ Len(got') = g + 1
          /\ \A k \in 1..g : got'[k] = got[k]
      BY <3>2, <2>2, AppendProperties DEF m
    <3>4. Len(sent) <= g /\ \A k \in 1..Len(sent) : got[k] = sent[k]
      <4>1. CASE Within
        BY <4>1, <1>1, <1>9
      <4>2. CASE ~ Within
        BY <4>2, <1>1 DEF Beyond
      <4> QED BY <4>1, <4>2
    <3>5. Len(sent') < Len(got') /\ \A k \in 1..Len(sent') : got'[k] = sent'[k]
      BY <3>3, <3>4, <1>1, <1>2
    <3>6. Beyond'
      BY <3>3, <3>5 DEF Beyond
    <3>7. ~ Within'
      BY <3>3, <3>4, <1>1, <1>2 DEF Within
    <3>8. Served'
      BY <3>6, <1>1, <1>2, <1>9 DEF Served
    <3>9. OnTheWay'
      BY <3>7 DEF OnTheWay
    <3> QED BY <3>8, <3>9, <2>4, <1>6 DEF FramesInv
  <2> QED BY <2>1, <2>2, <1>4
<1> QED BY <1>5, <1>8, <1>9

LEMMA ReceiveKeeps ==
    ASSUME FramesInv, Receive
    PROVE  FramesInv'
<1> DEFINE g == Len(got)
<1>1. /\ Sendable(sent) /\ Len(sent) \in Nat /\ g \in Nat
      /\ Within => g \in 0..Len(sent)
      /\ ~ Within => cuts # 0
      /\ Len(wire) \in Nat /\ Len(buffer) \in Nat /\ MaxPayloadBytes \in Nat
      /\ wire \in Seq(Byte) /\ buffer \in Seq(Byte) /\ Whole \in BOOLEAN
      /\ ReceiveBytes \in 1..MaxPayloadBytes
      /\ Within /\ receiver # "error" => Lies(buffer \o wire, sent, g, Whole)
  BY StreamFacts
<1>2. /\ receiver = "reading" /\ NeedsMore
      /\ sent' = sent /\ calls' = calls /\ cuts' = cuts /\ got' = got
  BY DEF Receive, sender
<1>3. PICK n \in 1..ReceiveBytes :
         /\ n <= Len(wire)
         /\ wire' = SubSeq(wire, n + 1, Len(wire))
         /\ IF Len(buffer) + n > MaxPayloadBytes + 4
              THEN buffer' = <<>> /\ receiver' = "error"
              ELSE buffer' = buffer \o SubSeq(wire, 1, n) /\ UNCHANGED receiver
  BY DEF Receive
<1>4. n \in Nat /\ n >= 1 /\ n <= ReceiveBytes /\ n \in 1..Len(wire) /\ ReceiveBytes \in Nat
      /\ ReceiveBytes <= MaxPayloadBytes
  BY <1>1, <1>3
<1>5. Within => Lies(buffer \o wire, sent, g, Whole)
  BY <1>1, <1>2
<1> DEFINE u == SubSeq(wire, 1, n)
<1>6. /\ wire' \in Seq(Byte) /\ buffer \o u \in Seq(Byte) /\ Len(buffer \o u) = Len(buffer) + n
      /\ (buffer \o u) \o wire' = buffer \o wire
  <2>1. buffer \in Seq(Byte) /\ wire \in Seq(Byte) /\ n \in 1..Len(wire) /\ u = SubSeq(wire, 1, n)
    BY <1>1, <1>3, <1>4
  <2> DEFINE v == SubSeq(wire, n + 1, Len(wire))
  <2>2. v = SubSeq(wire, n + 1, Len(wire)) /\ wire' = v
    BY <1>3
  <2> HIDE DEF u, v
  <2>3. IsTaken(buffer, wire, n, u, v)
    BY ONLY <2>1, <2>2, Taken
  <2> QED BY <2>2, <2>3 DEF IsTaken
<1>11. Within' = Within /\ Beyond' = Beyond
  BY <1>2 DEF Within, Beyond
<1>7. Served'
  BY <1>2, <1>11 DEF FramesInv, Served
<1>8. Whole' = Whole
  BY <1>2 DEF Whole
<1>9. CASE Len(buffer) + n > MaxPayloadBytes + 4
  <2>1. buffer' = <<>> /\ receiver' = "error"
    BY <1>3, <1>9
  <2>2. Bounds'
    <3> DEFINE none == <<>>
    <3>1. buffer' = none /\ none \in Seq(Byte) /\ Len(none) = 0
      BY <2>1, EmptySeq
    <3> HIDE DEF none
    <3>2. buffer' \in Seq(Byte) /\ Len(buffer') <= MaxPayloadBytes + 4
      BY <3>1, <1>1
    <3> QED BY <3>2, <2>1, <1>2, <1>6 DEF FramesInv, Bounds
  <2>3. OnTheWay'
    BY <2>1 DEF OnTheWay
  <2>4. GivesUpOnlyOverLongFrames'
    <3>1. SUFFICES ASSUME cuts' = 0
                   PROVE  \E k \in 1..Len(sent) :
                             Len(SerializeMessage(sent[k])) > MaxPayloadBytes + 1 - ReceiveBytes
      BY <1>2 DEF GivesUpOnlyOverLongFrames
    <3>2. Whole /\ Within
      BY <3>1, <1>1, <1>2 DEF Whole
    <3>3. \/ FindsMessage(buffer, wire, sent, g, Whole)
          \/ Len(wire) = 0
      <4> DEFINE all == Whole
      <4>1. /\ Sendable(sent) /\ g \in 0..Len(sent) /\ all \in BOOLEAN /\ buffer \in Seq(Byte)
            /\ wire \in Seq(Byte) /\ Lies(buffer \o wire, sent, g, all)
        BY <1>1, <1>5, <3>2
      <4>2. all
        BY <3>2
      <4> HIDE DEF g, all
      <4>3. \/ FindsMessage(buffer, wire, sent, g, all)
            \/ g = Len(sent) /\ (all => Len(buffer) = 0 /\ Len(wire) = 0)
        BY ONLY <4>1, LiesRead
      <4>4. FindsMessage(buffer, wire, sent, g, all) \/ Len(wire) = 0
        BY ONLY <4>2, <4>3
      <4> QED BY ONLY <4>4 DEF all
    <3>4. FindsMessage(buffer, wire, sent, g, Whole)
      BY <3>3, <1>4
    <3> DEFINE P == SerializeMessage(sent[g + 1])
    <3>5. /\ g < Len(sent) /\ Len(P) \in 4..MaxPayloadBytes
          /\ Len(buffer) >= 4 => ReadBigEndianLength(buffer) = Len(P)
      BY <3>4 DEF FindsMessage
    <3> HIDE DEF P
    <3>6. Len(buffer) >= 4
      BY <1>1, <1>4, <1>9
    <3>7. Len(buffer) < Len(P) + 4
      BY <3>5, <3>6, <1>2 DEF NeedsMore
    <3>8. Len(P) > MaxPayloadBytes + 1 - ReceiveBytes
      <4>1. Len(P) \in Nat
        BY <3>5
      <4> QED BY <4>1, <3>7, <1>1, <1>4, <1>9
    <3>9. g + 1 \in 1..Len(sent)
      BY <3>5, <1>1
    <3> QED BY <3>8, <3>9 DEF P
  <2> QED BY <2>2, <2>3, <2>4, <1>7 DEF FramesInv
<1>10. CASE ~ (Len(buffer) + n > MaxPayloadBytes + 4)
  <2>1. buffer' = buffer \o u /\ receiver' = "reading"
    BY <1>2, <1>3, <1>10
  <2> HIDE DEF u
  <2>2. Bounds'
    <3>1. buffer' \in Seq(Byte) /\ Len(buffer') <= MaxPayloadBytes + 4
      BY <2>1, <1>1, <1>4, <1>6, <1>10
    <3> QED BY <3>1, <2>1, <1>2, <1>6 DEF FramesInv, Bounds
  <2>3. OnTheWay'
    <3>1. Within => Lies(buffer' \o wire', sent', Len(got'), Whole')
      BY <2>1, <1>2, <1>5, <1>6, <1>8
    <3> QED BY <3>1, <1>11 DEF OnTheWay
  <2>4. GivesUpOnlyOverLongFrames'
    BY <2>1 DEF GivesUpOnlyOverLongFrames
  <2> QED BY <2>2, <2>3, <2>4, <1>7 DEF FramesInv
<1> QED BY <1>9, <1>10

LEMMA ClosedKeeps ==
    ASSUME FramesInv, Closed
    PROVE  FramesInv'
<1>1. /\ receiver = "reading" /\ receiver' = "closed" /\ sent' = sent /\ calls' = calls
      /\ cuts' = cuts /\ wire' = wire /\ buffer' = buffer /\ got' = got
  BY DEF Closed, sender
<1>5. Within' = Within /\ Beyond' = Beyond
  BY <1>1 DEF Within, Beyond
<1>2. Served' /\ Bounds'
  BY <1>1, <1>5 DEF FramesInv, Served, Bounds
<1>3. OnTheWay'
  BY <1>1, <1>5 DEF FramesInv, OnTheWay, Whole
<1>4. GivesUpOnlyOverLongFrames'
  BY <1>1 DEF GivesUpOnlyOverLongFrames
<1> QED BY <1>2, <1>3, <1>4 DEF FramesInv

\* A bound of the buffer, and the counters of the sender.
LEMMA InvIsTyped == ASSUME FramesInv PROVE StreamTypeOK
BY DEF FramesInv, Bounds, Served, Sendable, StreamTypeOK

LEMMA PrefixIs ==
    ASSUME NEW S, NEW s \in Seq(S), NEW T, NEW t \in Seq(T), Len(s) <= Len(t),
           \A k \in 1..Len(s) : s[k] = t[k]
    PROVE  OnSeq!IsPrefix(s, t)
<1> DEFINE n == Len(s)
           a == SubSeq(s, 1, n)
           b == SubSeq(t, 1, n)
<1>1. n \in Nat /\ Len(t) \in Nat /\ n <= Len(t)
  BY LenProperties
<1>2. a = s
  BY <1>1
<1>3. b = s
  <2>1. b \in Seq(T) /\ Len(b) = n /\ \A k \in 1..n : b[k] = t[k]
    BY <1>1
  <2> HIDE DEF b
  <2> QED BY <2>1, <1>1, SeqEqual
<1> QED BY <1>1, <1>2, <1>3 DEF OnSeq!IsPrefix

LEMMA InvIsOrdered == ASSUME FramesInv PROVE DeliveredInOrder
<1>1. sent \in Seq(Message) /\ Len(sent) \in Nat /\ cuts \in Nat /\ (~ Within => cuts # 0 /\ Beyond)
  BY StreamFacts DEF FramesInv, Bounds
<1>2. CASE Within
  <2>1. OnSeq!IsPrefix(got, sent)
    BY <1>1, <1>2, PrefixIs DEF Within
  <2> QED BY <2>1 DEF DeliveredInOrder
<1>3. CASE ~ Within
  <2>1. PICK S : got \in Seq(S)
    BY <1>1, <1>3 DEF Beyond
  <2>2. Len(got) \in Nat
    BY <2>1, LenProperties
  <2>3. Len(sent) <= Len(got) /\ \A k \in 1..Len(sent) : sent[k] = got[k]
    BY <2>2, <1>1, <1>3 DEF Beyond
  <2>4. OnSeq!IsPrefix(sent, got)
    BY <2>1, <2>3, <1>1, PrefixIs
  <2>5. cuts > 0
    BY <1>1, <1>3
  <2> QED BY <2>4, <2>5 DEF DeliveredInOrder
<1> QED BY <1>2, <1>3

\* Nothing is left: as long as a message is missing its whole frame is in the buffer, and
\* then no more bytes are needed.
LEMMA InvLeavesNothing == ASSUME FramesInv PROVE NothingLeftBehind
<1> DEFINE g == Len(got)
<1>1. SUFFICES ASSUME wire = <<>>, cuts = 0, receiver # "error", NeedsMore PROVE got = sent
  BY DEF NothingLeftBehind
<1>8. Within /\ Whole
  BY <1>1, StreamFacts DEF Whole
<1>2. /\ Sendable(sent) /\ sent \in Seq(Message) /\ got \in Seq(Message) /\ Len(sent) \in Nat
      /\ g \in Nat /\ g \in 0..Len(sent) /\ Len(buffer) \in Nat /\ MaxPayloadBytes \in Nat
      /\ wire \in Seq(Byte) /\ buffer \in Seq(Byte) /\ Whole \in BOOLEAN
      /\ receiver # "error" => Lies(buffer \o wire, sent, g, Whole)
  BY <1>8, StreamFacts
<1>3. Whole /\ Lies(buffer \o wire, sent, g, Whole)
  BY <1>1, <1>2, <1>8
<1>4. FindsMessage(buffer, wire, sent, g, Whole) \/ g = Len(sent)
  <2> DEFINE all == Whole
  <2>1. /\ Sendable(sent) /\ g \in 0..Len(sent) /\ all \in BOOLEAN /\ buffer \in Seq(Byte)
        /\ wire \in Seq(Byte) /\ Lies(buffer \o wire, sent, g, all)
    BY <1>2, <1>3
  <2>2. all
    BY <1>3
  <2> HIDE DEF g, all
  <2>3. \/ FindsMessage(buffer, wire, sent, g, all)
        \/ g = Len(sent) /\ (all => Len(buffer) = 0 /\ Len(wire) = 0)
    BY ONLY <2>1, LiesRead
  <2>4. FindsMessage(buffer, wire, sent, g, all) \/ g = Len(sent)
    BY ONLY <2>2, <2>3
  <2> QED BY ONLY <2>4 DEF all
<1>5. ~ FindsMessage(buffer, wire, sent, g, Whole)
  <2>1. SUFFICES ASSUME FindsMessage(buffer, wire, sent, g, Whole) PROVE FALSE
    OBVIOUS
  <2> DEFINE P == SerializeMessage(sent[g + 1])
  <2>2. /\ Len(P) \in 4..MaxPayloadBytes /\ Len(P) + 4 <= Len(buffer) + Len(wire)
        /\ Len(buffer) >= 4 => ReadBigEndianLength(buffer) = Len(P)
    BY <2>1 DEF FindsMessage
  <2> HIDE DEF P
  <2>3. Len(wire) = 0
    BY <1>1
  <2>4. Len(P) \in Nat /\ Len(buffer) >= 4 /\ Len(buffer) >= Len(P) + 4
    BY <2>2, <2>3, <1>2
  <2>5. Len(buffer) < Len(P) + 4
    BY <2>2, <2>4, <1>1 DEF NeedsMore
  <2> QED BY <2>4, <2>5, <1>2
<1>6. g = Len(sent)
  BY <1>4, <1>5
<1>7. \A k \in 1..g : got[k] = sent[k]
  BY <1>8 DEF Within
<1> QED BY <1>2, <1>6, <1>7, SeqEqual

\* Send, TryReadFrame and recv keep it true that buffer and wire begin with the frames of the
\* messages not yet received, and hold nothing else unless a send failed.
THEOREM StreamInductive == StreamSpec => []FramesInv
<1>1. StreamInit => FramesInv
  BY StreamStarts
<1>2. FramesInv /\ [StreamNext]_streamVars => FramesInv'
  <2>1. SUFFICES ASSUME FramesInv, [StreamNext]_streamVars PROVE FramesInv'
    OBVIOUS
  <2>2. CASE \E m \in Message : Send(m)
    BY <2>1, <2>2, SendKeeps
  <2>3. CASE ReadFrame
    BY <2>1, <2>3, ReadFrameKeeps
  <2>4. CASE Receive
    BY <2>1, <2>4, ReceiveKeeps
  <2>5. CASE Closed
    BY <2>1, <2>5, ClosedKeeps
  <2>6. CASE UNCHANGED streamVars
    <3>1. /\ sent' = sent /\ calls' = calls /\ cuts' = cuts /\ wire' = wire
          /\ buffer' = buffer /\ got' = got /\ receiver' = receiver
      BY <2>6 DEF streamVars
    <3> QED BY <3>1, <2>1 DEF FramesInv, Served, Within, Beyond, Bounds, OnTheWay, Whole, GivesUpOnlyOverLongFrames
  <2> QED BY <2>1, <2>2, <2>3, <2>4, <2>5, <2>6 DEF StreamNext
<1> QED BY <1>1, <1>2, PTL DEF StreamSpec

\* The buffer of the decoder never holds more than one largest frame, whatever is sent and
\* whichever sends fail.
THEOREM StreamTypeCorrect == StreamSpec => []StreamTypeOK
<1>1. FramesInv => StreamTypeOK
  BY InvIsTyped
<1> QED BY <1>1, StreamInductive, PTL

\* For any messages and sizes: what was sent is received as it was and in its order, wherever
\* recv cuts the stream, up to the first send that fails.
THEOREM StreamDelivers == StreamSpec => []DeliveredInOrder
<1>1. FramesInv => DeliveredInOrder
  BY InvIsOrdered
<1> QED BY <1>1, StreamInductive, PTL

\* For any messages and sizes: without a failed send, only a frame that is nearly as long
\* as allowed makes the receiver give up.
THEOREM StreamGivesUp == StreamSpec => []GivesUpOnlyOverLongFrames
<1>1. FramesInv => GivesUpOnlyOverLongFrames
  BY DEF FramesInv
<1> QED BY <1>1, StreamInductive, PTL

\* For any messages and sizes: no frame stays behind in the buffer of the decoder.
THEOREM StreamIsEmptied == StreamSpec => []NothingLeftBehind
<1>1. FramesInv => NothingLeftBehind
  BY InvLeavesNothing
<1> QED BY <1>1, StreamInductive, PTL
===============================================================================
