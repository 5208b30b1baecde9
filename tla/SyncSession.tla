---------------------------- MODULE SyncSession ------------------------------
(***************************************************************************)
(* A shared document on the LAN path: the host's window, its SyncServer    *)
(* (document, revision and the thread of the one session), the TCP         *)
(* connection, and the guest's SyncClient and window.                      *)
(*                                                                         *)
(* A change typed on either side becomes DELETE/INSERT operations.  The    *)
(* server applies each under mutex_, gives it the next revision and sends  *)
(* an APPLY.  The host applies its own operations by a call into the       *)
(* server and learns of the guest's from an event queue; the guest edits   *)
(* optimistically and learns of everything from the wire.                  *)
(*                                                                         *)
(* Two threads of the host write the wire: the window thread broadcasts    *)
(* host changes, the session thread sends everything else.  Each of their  *)
(* steps between two lock operations or sends is an action here.  Two      *)
(* sends at once write one after the other.  A send may fail while the     *)
(* connection stays up (SerializeMessage refuses a lone surrogate or more  *)
(* than 64 KiB of UTF-8, send times out): where the code ignores it, the   *)
(* frame is missing or cut short.  Behind a cut the guest reads nothing    *)
(* more; that its decoder might make one message of the halves of two      *)
(* (FrameStream) is left out.  Where the code ends the session instead,    *)
(* the connection breaks.  Admission (join codes, a second client) and the *)
(* client's worker threads are not modelled here.                          *)
(***************************************************************************)
EXTENDS EditorDiff, SyncReceiver, Functions

CONSTANTS
    MaxInsertChars,     \* kMaxInsertChars: the longest INSERT the server accepts
    SyncChunkChars,     \* kSyncChunkChars: characters of the document per SYNC_RESPONSE
    MaxEdits,           \* bound on the changes typed by both users together
    MaxFailures,        \* bound on broken connections and failed sends together
    OpeningTexts,       \* texts either editor may hold before the room is made
    TurnTaking          \* users only type when nothing of the other is under way

ASSUME SessionAssumption ==
    /\ MaxInsertChars \in Nat
    /\ SyncChunkChars \in Nat \ {0}
    /\ MaxEdits \in Nat
    /\ OpeningTexts \subseteq Text
    /\ MaxFailures \in Nat
    /\ TurnTaking \in BOOLEAN

VARIABLES
    document,       \* document_, guarded by mutex_
    revision,       \* revision_, guarded by mutex_
    sessionPc,      \* where the session thread (HandleClient) is
    sessionApply,   \* the APPLY it has committed and not yet sent
    snapshot,       \* the copy SendSyncResponse is sending, and the next chunk
    serverEvents,   \* event_queue_ of the SyncServer
    hostPc,         \* where the host's window thread is
    hostText,       \* text in the host's editor
    hostKnown,      \* last_known_text_ of the host
    hostRev,        \* current_revision_ of the host
    hostTyped,      \* current_text, the local of ProcessEditorChange
    hostOps,        \* operations of that change still to apply
    hostApply,      \* the APPLY to broadcast
    hostCopy        \* text, the local of RequestFullSync

hostVars    == <<hostPc, hostText, hostKnown, hostRev, hostTyped, hostOps, hostApply, hostCopy>>
sessionVars == <<sessionPc, sessionApply, snapshot>>

VARIABLES
    guestPc,        \* the SyncClient: "joined" is connected_ inside Connect
    guestRole,      \* sync_role_: "Offline" until the first join succeeded
    guestText,      \* text in the guest's editor, which is its last_known_text_
    guestRev,       \* current_revision_ of the guest
    guestChunks,    \* sync_response_revision_ and the chunks received of it
    backlog         \* events of earlier connections the guest has not handled

VARIABLES
    linkUp,         \* the TCP connection carries frames
    toServer,       \* frames from the guest, not yet received by the session thread
    toGuest,        \* frames to the guest, not yet handled by its window
    edits,          \* changes typed so far
    failures,       \* connections broken and sends failed so far
    committed,      \* history: the APPLY of each revision
    history,        \* history: history[r + 1] is the document at revision r
    unsent          \* history: whether a send failed while its connection stayed up: of
                    \* an "operation", or in a frame so that the "rest" is not read

guestVars == <<guestPc, guestRole, guestText, guestRev, guestChunks, backlog>>
linkVars  == <<linkUp, toServer, toGuest>>
logVars   == <<committed, history, unsent>>
vars == <<document, revision, sessionVars, serverEvents, hostVars, guestVars, linkVars,
          edits, failures, logVars>>
-----------------------------------------------------------------------------
(* Messages and small operators. *)

ApplyMessage  == [type : {"APPLY"}, rev : Nat, client : {"A", "B"}, op : Operation]
SyncChunk     == [type : {"SYNC_RESPONSE"}, rev : Nat, index : Nat, count : Nat,
                  text : Seq(Char)]
Notice        == [type : {"JOIN_OK", "ERROR"}]
ServerMessage == ApplyMessage \cup SyncChunk \cup Notice

EditMessage   == [type : {"EDIT"}, op : Operation]
SyncRequest   == [type : {"SYNC_REQUEST"}]
ClientMessage == EditMessage \cup SyncRequest

\* The copy SendSyncResponse works on, and the chunk it sends next.
Snapshot == [type : {"SNAPSHOT"}, text : Text, rev : Nat, next : Nat]

NoApply    == [type |-> "NONE"]
NoSnapshot == [type |-> "NONE"]
NoChunks   == [rev |-> 0, parts |-> <<>>]

\* A frame written to a broken connection is lost.
Transmit(wire, message) == IF linkUp THEN Append(wire, message) ELSE wire

\* A frame sent behind one that was cut is not read.
ToGuest(message) == IF unsent = "rest" THEN toGuest ELSE Transmit(toGuest, message)

\* A send whose result the code ignores: the frame is sent, or it is not, or only a part.
SendIgnoringFailure(message) ==
    \/ toGuest' = ToGuest(message) /\ UNCHANGED <<failures, unsent>>
    \/ /\ linkUp /\ failures < MaxFailures
       /\ failures' = failures + 1
       /\ unsent' \in {IF unsent = "rest" THEN "rest" ELSE "operation", "rest"}
       /\ UNCHANGED toGuest

\* The checks of ApplyMessageToDocument under mutex_.
ServerStatus(op) ==
    CASE op.pos > Len(document)                                  -> "invalid_position"
      [] /\ op.pos <= Len(document) /\ op.type = "INSERT"
         /\ Len(op.text) > MaxInsertChars                        -> "insert_too_large"
      [] OTHER                                                   -> ApplyStatus(document, op)

\* A slip: the revision is given out before it is counted.
CommitMessageBeforeCount(client, op) ==
    [type |-> "APPLY", rev |-> revision, client |-> client, op |-> op]

\* The APPLY that commits op as the next revision.
CommitMessage(client, op) ==
    [type |-> "APPLY", rev |-> revision + 1, client |-> client, op |-> op]

\* What ApplyMessageToDocument changes once the checks passed.
Commit(client, op) ==
    /\ document' = Applied(document, op)
    /\ revision' = revision + 1
    /\ committed' = Append(committed, CommitMessage(client, op))
    /\ history' = Append(history, Applied(document, op))
    /\ UNCHANGED unsent

\* SendSyncResponse cuts a document into chunks; an empty document is one chunk.
ChunkCount(text) ==
    IF text = <<>> THEN 1 ELSE (Len(text) + SyncChunkChars - 1) \div SyncChunkChars

ChunkEnd(text, index) ==
    IF (index + 1) * SyncChunkChars < Len(text) THEN (index + 1) * SyncChunkChars ELSE Len(text)

Chunk(text, index) == SubSeq(text, index * SyncChunkChars + 1, ChunkEnd(text, index))

ChunkMessage(text, rev, index) ==
    [type |-> "SYNC_RESPONSE", rev |-> rev, index |-> index,
     count |-> ChunkCount(text), text |-> Chunk(text, index)]
-----------------------------------------------------------------------------
(* The users.  Under TurnTaking each types only when nothing of the other is on *)
(* its way and no full synchronisation is, and nobody joins while the host is   *)
(* in the middle of a change.                                                   *)

IsOwnApply(message) == message.type = "APPLY" /\ message.client = "B"

HostTurn ==
    /\ toServer = <<>> /\ sessionPc \in {"none", "receive"}
    /\ serverEvents = <<>>
    /\ guestPc \notin {"connecting", "joined"}

GuestTurn ==
    /\ hostPc = "idle"
    /\ sessionPc # "chunks" /\ guestPc \notin {"connecting", "joined"}
    /\ \A m \in Range(toServer) : m.type # "SYNC_REQUEST"
    /\ \A m \in Range(toGuest) \cup Range(backlog) : IsOwnApply(m)

-----------------------------------------------------------------------------
(* The host's window thread. *)

Init ==
    /\ document \in OpeningTexts
    /\ revision = 0
    /\ sessionPc = "none" /\ sessionApply = NoApply /\ snapshot = NoSnapshot
    /\ serverEvents = <<>>
    /\ hostPc = "idle" /\ hostText = document /\ hostKnown = document /\ hostRev = 0
    /\ hostTyped = <<>> /\ hostOps = <<>> /\ hostApply = NoApply /\ hostCopy = <<>>
    /\ guestPc = "offline" /\ guestRole = "Offline" /\ guestText \in OpeningTexts
    /\ guestRev = 0 /\ guestChunks = NoChunks /\ backlog = <<>>
    /\ linkUp = FALSE /\ toServer = <<>> /\ toGuest = <<>>
    /\ edits = 0 /\ failures = 0
    /\ committed = <<>> /\ history = <<document>> /\ unsent = "nothing"

\* The host's editor changes to text: OnEditorChanged and the diff of ProcessEditorChange.
HostTypes(text) ==
    /\ hostPc = "idle" /\ edits < MaxEdits
    /\ text # hostText
    /\ TurnTaking => HostTurn
    /\ edits' = edits + 1
    /\ hostText' = text
    /\ IF text = hostKnown
       THEN UNCHANGED <<hostPc, hostTyped, hostOps>>
       ELSE /\ hostPc' = "apply"
            /\ hostTyped' = text
            /\ hostOps' = ComputeEditorDiff(hostKnown, text)
    /\ UNCHANGED <<document, revision, sessionVars, serverEvents, hostKnown, hostRev,
                   hostApply, hostCopy, guestVars, linkVars, failures, logVars>>

\* ApplyLocalOperation up to the unlock: the server commits the next operation.
HostCommits ==
    /\ hostPc = "apply" /\ hostOps # <<>>
    /\ ServerStatus(Head(hostOps)) = "applied"
    /\ Commit("A", Head(hostOps))
    /\ hostApply' = CommitMessage("A", Head(hostOps))
    /\ hostPc' = "broadcast"
    /\ UNCHANGED <<sessionVars, serverEvents, hostText, hostKnown, hostRev, hostTyped,
                   hostOps, hostCopy, guestVars, linkVars, edits, failures>>

\* ApplyLocalOperation refused: SendLocalOperations calls RequestFullSync.
HostRefused ==
    /\ hostPc = "apply" /\ hostOps # <<>>
    /\ ServerStatus(Head(hostOps)) # "applied"
    /\ hostPc' = "copyDocument"
    /\ UNCHANGED <<document, revision, sessionVars, serverEvents, hostText, hostKnown,
                   hostRev, hostTyped, hostOps, hostApply, hostCopy, guestVars, linkVars,
                   edits, failures, logVars>>

\* BroadcastApply, after the lock was released, and the new current_revision_, which the
\* caller takes whether or not anything was sent.
HostBroadcasts ==
    /\ hostPc = "broadcast"
    /\ IF sessionPc = "none" THEN UNCHANGED <<toGuest, failures, unsent>>
                             ELSE SendIgnoringFailure(hostApply)
    /\ hostRev' = hostApply.rev
    /\ hostApply' = NoApply
    /\ hostOps' = Tail(hostOps)
    /\ hostPc' = "apply"
    /\ UNCHANGED <<document, revision, sessionVars, serverEvents, hostText, hostKnown,
                   hostTyped, hostCopy, guestVars, linkUp, toServer, edits, committed, history>>

\* The end of ProcessEditorChange.
HostFinishesChange ==
    /\ hostPc = "apply" /\ hostOps = <<>>
    /\ hostKnown' = hostTyped
    /\ hostTyped' = <<>>
    /\ hostPc' = "idle"
    /\ UNCHANGED <<document, revision, sessionVars, serverEvents, hostText, hostRev,
                   hostOps, hostApply, hostCopy, guestVars, linkVars, edits, failures, logVars>>

\* RequestFullSync of the host: document() and revision() lock mutex_ one after the other.
HostCopiesDocument ==
    /\ hostPc = "copyDocument"
    /\ hostCopy' = document
    /\ hostPc' = "copyRevision"
    /\ UNCHANGED <<document, revision, sessionVars, serverEvents, hostText, hostKnown,
                   hostRev, hostTyped, hostOps, hostApply, guestVars, linkVars, edits,
                   failures, logVars>>

HostCopiesRevision ==
    /\ hostPc = "copyRevision"
    /\ hostRev' = revision
    /\ hostText' = hostCopy /\ hostKnown' = hostCopy
    /\ hostCopy' = <<>>
    /\ hostPc' = IF hostOps = <<>> THEN "drain" ELSE "apply"
    /\ hostOps' = IF hostOps = <<>> THEN <<>> ELSE Tail(hostOps)
    /\ UNCHANGED <<document, revision, sessionVars, serverEvents, hostTyped, hostApply,
                   guestVars, linkVars, edits, failures, logVars>>

\* A slip: the window is only woken by an event that finds the queue empty.
HostStartsDrainAtFirst ==
    /\ hostPc = "idle" /\ Len(serverEvents) = 1
    /\ hostPc' = "drain"
    /\ UNCHANGED <<document, revision, sessionVars, serverEvents, hostText, hostKnown,
                   hostRev, hostTyped, hostOps, hostApply, hostCopy, guestVars, linkVars,
                   edits, failures, logVars>>

\* DrainSyncEvents handles events until the queue is empty; the user cannot type between.
HostStartsDrain ==
    /\ hostPc = "idle" /\ serverEvents # <<>>
    /\ hostPc' = "drain"
    /\ UNCHANGED <<document, revision, sessionVars, serverEvents, hostText, hostKnown,
                   hostRev, hostTyped, hostOps, hostApply, hostCopy, guestVars, linkVars,
                   edits, failures, logVars>>

HostFinishesDrain ==
    /\ hostPc = "drain" /\ serverEvents = <<>>
    /\ hostPc' = "idle"
    /\ UNCHANGED <<document, revision, sessionVars, serverEvents, hostText, hostKnown,
                   hostRev, hostTyped, hostOps, hostApply, hostCopy, guestVars, linkVars,
                   edits, failures, logVars>>

\* ApplySyncApply on an APPLY of the guest's edit.
HostHandlesEvent ==
    /\ hostPc = "drain" /\ serverEvents # <<>>
    /\ serverEvents' = Tail(serverEvents)
    /\ LET message == Head(serverEvents)
           outcome == ApplyOutcome(message, "A", hostRev, hostText)
       IN  /\ hostRev' = IF outcome \in {"own", "apply"} THEN message.rev ELSE hostRev
           /\ hostText' = IF outcome = "apply" THEN Applied(hostText, message.op) ELSE hostText
           /\ hostKnown' = IF outcome = "apply" THEN hostText' ELSE hostKnown
           /\ hostPc' = IF outcome = "resync" THEN "copyDocument" ELSE "drain"
    /\ UNCHANGED <<document, revision, sessionVars, hostTyped, hostOps, hostApply, hostCopy,
                   guestVars, linkVars, edits, failures, logVars>>
-----------------------------------------------------------------------------
(* The session thread of the server: HandleClient. *)

sessionRest == <<hostVars, guestVars, edits, failures>>

\* The peer slot is taken; JOIN_OK is sent only after mutex_ was released.
SessionAdmits ==
    /\ sessionPc = "none" /\ guestPc = "connecting" /\ linkUp
    /\ sessionPc' = "joinOk"
    /\ UNCHANGED <<document, revision, sessionApply, snapshot, serverEvents, sessionRest,
                   linkVars, logVars>>

SessionSendsJoinOk ==
    /\ sessionPc = "joinOk" /\ linkUp
    /\ toGuest' = ToGuest([type |-> "JOIN_OK"])
    /\ sessionPc' = "receive"
    /\ UNCHANGED <<document, revision, sessionApply, snapshot, serverEvents, sessionRest,
                   linkUp, toServer, logVars>>

\* A slip: the guest's edit is not reported to the host's window.
SessionCommitsSilently ==
    /\ sessionPc = "receive" /\ toServer # <<>>
    /\ Head(toServer).type = "EDIT"
    /\ ServerStatus(Head(toServer).op) = "applied"
    /\ Commit("B", Head(toServer).op)
    /\ sessionApply' = CommitMessage("B", Head(toServer).op)
    /\ toServer' = Tail(toServer)
    /\ sessionPc' = "sendApply"
    /\ UNCHANGED <<snapshot, serverEvents, sessionRest, linkUp, toGuest>>

\* HandleEditMessage up to the unlock of ApplyMessageToDocument.
SessionCommits ==
    /\ sessionPc = "receive" /\ toServer # <<>>
    /\ Head(toServer).type = "EDIT"
    /\ ServerStatus(Head(toServer).op) = "applied"
    /\ Commit("B", Head(toServer).op)
    /\ sessionApply' = CommitMessage("B", Head(toServer).op)
    /\ toServer' = Tail(toServer)
    /\ sessionPc' = "push"
    /\ UNCHANGED <<snapshot, serverEvents, sessionRest, linkUp, toGuest>>

\* A refused edit is answered by ERROR and forgotten; SendError's result is ignored.
SessionRefuses ==
    /\ sessionPc = "receive" /\ toServer # <<>>
    /\ Head(toServer).type = "EDIT"
    /\ ServerStatus(Head(toServer).op) # "applied"
    /\ SendIgnoringFailure([type |-> "ERROR"])
    /\ toServer' = Tail(toServer)
    /\ UNCHANGED <<document, revision, sessionVars, serverEvents, hostVars, guestVars, edits,
                   linkUp, committed, history>>

SessionPushesEvent ==
    /\ sessionPc = "push"
    /\ serverEvents' = Append(serverEvents, sessionApply)
    /\ sessionPc' = "sendApply"
    /\ UNCHANGED <<document, revision, sessionApply, snapshot, sessionRest, linkVars, logVars>>

\* A slip: the revision is read again after mutex_ was released.
SessionSendsApplyRereading ==
    /\ sessionPc = "sendApply"
    /\ toGuest' = ToGuest([sessionApply EXCEPT !.rev = revision])
    /\ sessionApply' = NoApply
    /\ sessionPc' = "receive"
    /\ UNCHANGED <<document, revision, snapshot, serverEvents, sessionRest, linkUp, toServer,
                   logVars>>

SessionSendsApply ==
    /\ sessionPc = "sendApply"
    /\ toGuest' = ToGuest(sessionApply)
    /\ sessionApply' = NoApply
    /\ sessionPc' = "receive"
    /\ UNCHANGED <<document, revision, snapshot, serverEvents, sessionRest, linkUp, toServer,
                   logVars>>

\* SendSyncResponse copies the document and its revision under mutex_ ...
SessionTakesSnapshot ==
    /\ sessionPc = "receive" /\ toServer # <<>>
    /\ Head(toServer).type = "SYNC_REQUEST"
    /\ snapshot' = [type |-> "SNAPSHOT", text |-> document, rev |-> revision, next |-> 0]
    /\ toServer' = Tail(toServer)
    /\ sessionPc' = "chunks"
    /\ UNCHANGED <<document, revision, sessionApply, serverEvents, sessionRest, linkUp, toGuest,
                   logVars>>

\* ... and sends the copy chunk by chunk without the lock.
SessionSendsChunk ==
    /\ sessionPc = "chunks"
    /\ toGuest' = ToGuest(ChunkMessage(snapshot.text, snapshot.rev, snapshot.next))
    /\ IF snapshot.next + 1 < ChunkCount(snapshot.text)
       THEN /\ snapshot' = [snapshot EXCEPT !.next = @ + 1]
            /\ UNCHANGED sessionPc
       ELSE /\ snapshot' = NoSnapshot
            /\ sessionPc' = "receive"
    /\ UNCHANGED <<document, revision, sessionApply, serverEvents, sessionRest, linkUp, toServer,
                   logVars>>

\* A failed receive or send ends the session and frees the peer slot.  A frame the
\* session thread still had to push is pushed first; it holds no lock while it sends.
SessionEnds ==
    /\ ~ linkUp
    /\ \/ sessionPc = "receive" /\ toServer = <<>>
       \/ sessionPc \in {"joinOk", "sendApply", "chunks"}
    /\ sessionPc' = "none"
    /\ sessionApply' = NoApply /\ snapshot' = NoSnapshot
    /\ toServer' = <<>>
    /\ UNCHANGED <<document, revision, serverEvents, sessionRest, linkUp, toGuest, logVars>>

-----------------------------------------------------------------------------
(* The connection and the guest. *)

serverAndHost == <<document, revision, sessionVars, serverEvents, hostVars>>
guestRest     == <<document, revision, sessionVars, serverEvents, hostVars, logVars>>

\* A connection breaks: on the way, or closed by a thread whose own send failed, as
\* SendSyncResponse does.  Frames already received on either side are still handled:
\* the session thread's from its decoder, the guest's from its event queue.
LinkBreaks ==
    /\ linkUp /\ failures < MaxFailures
    /\ failures' = failures + 1
    /\ linkUp' = FALSE
    /\ \E k \in 0..Len(toServer) : toServer' = SubSeq(toServer, 1, k)
    /\ IF guestPc \in {"joined", "online"}
       THEN \E k \in 0..Len(toGuest) : backlog' = backlog \o SubSeq(toGuest, 1, k)
       ELSE UNCHANGED backlog
    /\ toGuest' = <<>>
    /\ UNCHANGED <<guestRest, guestPc, guestRole, guestText, guestRev, guestChunks, edits>>

\* Connect, by the join button or an attempt of ReconnectLoop, on a stream of its own.
\* Until the server has noticed the end of the previous session it answers room_full: a
\* failed attempt.  Nothing says that there is another attempt, or one that succeeds.
GuestConnects ==
    /\ guestPc = "offline" /\ ~ linkUp /\ sessionPc = "none"
    /\ TurnTaking => hostPc = "idle"
    /\ guestPc' = "connecting"
    /\ linkUp' = TRUE
    /\ unsent' = IF unsent = "rest" THEN "operation" ELSE unsent
    /\ UNCHANGED <<serverAndHost, committed, history, guestRole, guestText, guestRev,
                   guestChunks, backlog, toServer, toGuest, edits, failures>>

\* ReadJoinResponse got JOIN_OK.  Its decoder is local: frames that arrived in the same
\* recv are lost.  connected_ is set: edits are sent from here on.
GuestJoins ==
    /\ guestPc = "connecting" /\ toGuest # <<>> /\ Head(toGuest).type = "JOIN_OK"
    /\ \E lost \in 0..Len(toGuest) - 1 : toGuest' = SubSeq(toGuest, lost + 2, Len(toGuest))
    /\ guestPc' = "joined"
    /\ UNCHANGED <<guestRest, guestRole, guestText, guestRev, guestChunks, backlog, linkUp,
                   toServer, edits, failures>>

\* A slip: Connect does not ask for the document.
GuestStartsUnsynced ==
    /\ guestPc = "joined"
    /\ guestPc' = "online" /\ guestRole' = "Guest"
    /\ guestRev' = IF guestRole = "Guest" THEN guestRev ELSE 0
    /\ UNCHANGED <<guestRest, guestText, guestChunks, backlog, linkVars, edits, failures>>

\* Connect starts the workers and asks for the document; only HandleJoinRoom, not
\* ReconnectLoop, resets the revision.
GuestStarts ==
    /\ guestPc = "joined"
    /\ guestPc' = "online" /\ guestRole' = "Guest"
    /\ guestRev' = IF guestRole = "Guest" THEN guestRev ELSE 0
    /\ toServer' = Transmit(toServer, [type |-> "SYNC_REQUEST"])
    /\ UNCHANGED <<guestRest, guestText, guestChunks, backlog, linkUp, toGuest, edits, failures>>

\* An APPLY broadcast before JOIN_OK is an "unexpected join response": Connect fails.
GuestJoinFails ==
    /\ guestPc = "connecting" /\ toGuest # <<>> /\ Head(toGuest).type # "JOIN_OK"
    /\ guestPc' = "offline"
    /\ linkUp' = FALSE /\ toGuest' = <<>>
    /\ UNCHANGED <<guestRest, guestRole, guestText, guestRev, guestChunks, backlog, toServer,
                   edits, failures>>

\* ReceiveLoop, or Connect itself, finds the connection gone and says so.  It need not: a
\* loss that SendLoop finds first may never reach the window (ClientLoss.cfg).
GuestNoticesLoss ==
    /\ guestPc \in {"connecting", "online"} /\ ~ linkUp
    /\ guestPc' = "offline"
    /\ UNCHANGED <<guestRest, guestRole, guestText, guestRev, guestChunks, backlog, linkVars,
                   edits, failures>>

\* The frames SendLocalOperations enqueues for a change.
EditFrames(old, new) ==
    LET ops == ComputeEditorDiff(old, new)
    IN  [i \in 1..Len(ops) |-> [type |-> "EDIT", op |-> ops[i]]]

\* A slip: the guest counts a revision for every operation it sends.
GuestTypesCounting(text) ==
    /\ guestRole = "Guest" /\ edits < MaxEdits
    /\ text # guestText
    /\ TurnTaking => GuestTurn
    /\ edits' = edits + 1
    /\ guestText' = text
    /\ guestRev' = guestRev + Len(EditFrames(guestText, text))
    /\ toServer' = IF guestPc \in {"joined", "online"} /\ linkUp
                   THEN toServer \o EditFrames(guestText, text) ELSE toServer
    /\ UNCHANGED <<guestRest, guestPc, guestRole, guestChunks, backlog, linkUp, toGuest, failures>>

\* EnqueueMessage refuses an INSERT that cannot be serialised; a DELETE before it, of the
\* same change, is sent all the same.
WithoutInsert(frames) ==
    IF frames # <<>> /\ frames[Len(frames)].op.type = "INSERT"
    THEN SubSeq(frames, 1, Len(frames) - 1) ELSE frames

\* The guest's editor changes to text.  The change is shown at once; it is sent unless the
\* client knows that it is disconnected or cannot serialise it.
GuestTypes(text) ==
    /\ guestRole = "Guest" /\ edits < MaxEdits
    /\ text # guestText
    /\ TurnTaking => GuestTurn
    /\ edits' = edits + 1
    /\ guestText' = text
    /\ IF guestPc \in {"joined", "online"} /\ linkUp
       THEN \/ /\ toServer' = toServer \o EditFrames(guestText, text)
               /\ UNCHANGED <<failures, unsent>>
            \/ /\ failures < MaxFailures
               /\ failures' = failures + 1
               /\ toServer' = toServer \o WithoutInsert(EditFrames(guestText, text))
               /\ unsent' = IF unsent = "rest" THEN "rest" ELSE "operation"
       ELSE UNCHANGED <<toServer, failures, unsent>>
    /\ UNCHANGED <<serverAndHost, committed, history, guestPc, guestRole, guestRev,
                   guestChunks, backlog, linkUp, toGuest>>
-----------------------------------------------------------------------------
(* The guest's window handles an event: HandleSyncEvent. *)

\* RequestFullSync of the guest.
SendSyncRequest(needed) ==
    toServer' = IF needed /\ guestPc \in {"joined", "online"}
                THEN Transmit(toServer, [type |-> "SYNC_REQUEST"]) ELSE toServer

\* ApplySyncApply.
GuestHandlesApply(message) ==
    LET outcome == ApplyOutcome(message, "B", guestRev, guestText)
    IN  /\ guestRev' = IF outcome \in {"own", "apply"} THEN message.rev ELSE guestRev
        /\ guestText' = IF outcome = "apply" THEN Applied(guestText, message.op) ELSE guestText
        /\ SendSyncRequest(outcome = "resync")
        /\ UNCHANGED guestChunks

\* The chunks of ApplySyncResponse, with message's among them; a chunk of another
\* revision or of a response of another length starts over.
ChunksWith(message) ==
    LET empty == [i \in 1..message.count |-> <<>>]
        kept  == IF guestChunks.rev = message.rev /\ Len(guestChunks.parts) = message.count
                 THEN guestChunks.parts ELSE empty
    IN  [rev |-> message.rev, parts |-> [kept EXCEPT ![message.index + 1] = <<message.text>>]]

Complete(chunks) == \A i \in 1..Len(chunks.parts) : chunks.parts[i] # <<>>

\* A slip: the first chunk is left out.
MergedWithoutFirst(chunks) ==
    LET merged[n \in 1..Len(chunks.parts)] ==
            IF n = 1 THEN <<>> ELSE merged[n - 1] \o chunks.parts[n][1]
    IN  merged[Len(chunks.parts)]

\* The received chunks put together.
Merged(chunks) ==
    LET merged[n \in 0..Len(chunks.parts)] ==
            IF n = 0 THEN <<>> ELSE merged[n - 1] \o chunks.parts[n][1]
    IN  merged[Len(chunks.parts)]

\* ApplySyncResponse and ApplyFullSyncDocument.
GuestHandlesChunk(message) ==
    /\ UNCHANGED toServer
    /\ IF message.count = 1
       THEN /\ guestText' = message.text /\ guestRev' = message.rev
            /\ guestChunks' = [guestChunks EXCEPT !.parts = <<>>]
       ELSE IF Complete(ChunksWith(message))
       THEN /\ guestText' = Merged(ChunksWith(message)) /\ guestRev' = message.rev
            /\ guestChunks' = [rev |-> message.rev, parts |-> <<>>]
       ELSE /\ guestChunks' = ChunksWith(message)
            /\ UNCHANGED <<guestText, guestRev>>

GuestHandles(message) ==
    \/ message.type = "APPLY" /\ GuestHandlesApply(message)
    \/ message.type = "SYNC_RESPONSE" /\ GuestHandlesChunk(message)
    \* An ERROR is only shown in the status line.
    \/ message.type = "ERROR" /\ UNCHANGED <<guestText, guestRev, guestChunks, toServer>>

\* Events of earlier connections come first: no queue is cleared by Connect.
GuestHandlesBacklog ==
    /\ guestRole = "Guest" /\ backlog # <<>>
    /\ GuestHandles(Head(backlog))
    /\ backlog' = Tail(backlog)
    /\ UNCHANGED <<guestRest, guestPc, guestRole, linkUp, toGuest, edits, failures>>

GuestHandlesEvent ==
    /\ guestPc = "online" /\ backlog = <<>> /\ toGuest # <<>>
    /\ GuestHandles(Head(toGuest))
    /\ toGuest' = Tail(toGuest)
    /\ UNCHANGED <<guestRest, guestPc, guestRole, backlog, linkUp, edits, failures>>

-----------------------------------------------------------------------------
Host ==
    \/ HostCommits \/ HostRefused \/ HostBroadcasts \/ HostFinishesChange
    \/ HostCopiesDocument \/ HostCopiesRevision
    \/ HostStartsDrain \/ HostHandlesEvent \/ HostFinishesDrain

SessionServes ==
    \/ SessionAdmits \/ SessionSendsJoinOk
    \/ SessionCommits \/ SessionRefuses \/ SessionPushesEvent \/ SessionSendsApply
    \/ SessionTakesSnapshot \/ SessionSendsChunk

Session == SessionServes \/ SessionEnds

GuestHandlesFrames == GuestJoins \/ GuestStarts \/ GuestHandlesBacklog \/ GuestHandlesEvent

Guest == GuestHandlesFrames \/ GuestConnects \/ GuestJoinFails \/ GuestNoticesLoss

Users == \E text \in Text : HostTypes(text) \/ GuestTypes(text)

Next == Users \/ Host \/ Session \/ Guest \/ LinkBreaks

Spec == Init /\ [][Next]_vars

\* Each thread goes on with what has arrived.  Users need not type, connections need not
\* break, and nobody need notice that one did, or connect again.
Fairness == WF_vars(Host) /\ WF_vars(SessionServes) /\ WF_vars(GuestHandlesFrames)

FairSpec == Spec /\ Fairness

-----------------------------------------------------------------------------
\* Every variable keeps its type; in particular the host's editor, the document and every
\* text on record stay within the document limit whoever edits at the same time.
TypeOK ==
    /\ document \in Text /\ revision \in Nat
    /\ sessionPc \in {"none", "joinOk", "receive", "push", "sendApply", "chunks"}
    /\ sessionApply \in ApplyMessage \cup {NoApply}
    /\ snapshot \in Snapshot \cup {NoSnapshot}
    /\ serverEvents \in Seq(ApplyMessage)
    /\ hostPc \in {"idle", "apply", "broadcast", "copyDocument", "copyRevision", "drain"}
    /\ hostText \in Text /\ hostKnown \in Text /\ hostTyped \in Text /\ hostCopy \in Text
    /\ hostRev \in Nat /\ hostOps \in Seq(Operation)
    /\ hostApply \in ApplyMessage \cup {NoApply}
    /\ guestPc \in {"offline", "connecting", "joined", "online"}
    /\ guestRole \in {"Offline", "Guest"}
    /\ guestText \in Seq(Char) /\ guestRev \in Nat
    /\ guestChunks \in [rev : Nat, parts : Seq(Seq(Seq(Char)))]
    /\ backlog \in Seq(ServerMessage)
    /\ linkUp \in BOOLEAN
    /\ toServer \in Seq(ClientMessage) /\ toGuest \in Seq(ServerMessage)
    /\ edits \in Nat /\ failures \in Nat
    /\ committed \in Seq(ApplyMessage) /\ history \in Seq(Text)
    /\ unsent \in {"nothing", "operation", "rest"}

\* Every APPLY under way anywhere: about to be sent by either thread, queued for the
\* host's window, on the wire, or kept by the guest from an earlier connection.
AppliesUnderWay ==
    {m \in {hostApply, sessionApply} \cup Range(serverEvents)
              \cup Range(toGuest) \cup Range(backlog) : m.type = "APPLY"}

\* The server's log: each revision was given to one operation, and that operation is
\* what turned the document of the revision before into the document of this one.
\* (ApplyMessageToDocument does both under mutex_, for two threads.)
LogExplainsDocument ==
    /\ revision = Len(committed) /\ Len(history) = revision + 1
    /\ history[revision + 1] = document
    /\ \A r \in 1..revision :
         /\ committed[r].rev = r
         /\ history[r + 1] = Applied(history[r], committed[r].op)

\* Whatever APPLY a window is ever going to see is the one committed under its revision:
\* two threads never send the same revision for different operations.
AppliesMatchLog ==
    \A m \in AppliesUnderWay : m.rev \in 1..revision /\ committed[m.rev] = m

\* No edit of the guest is dropped between the server and the host's window: one that the
\* host's revision has not passed is queued or about to be pushed by the session thread,
\* unless the window is reloading the document.
GuestEditsReachHostQueue ==
    \A r \in hostRev + 1..revision :
        committed[r].client = "B" /\ hostPc \notin {"copyDocument", "copyRevision"} =>
            \/ sessionPc = "push" /\ sessionApply = committed[r]
            \/ committed[r] \in Range(serverEvents)

\* No window shows a revision the server has not given out.
WindowsNeverAhead == hostRev <= revision /\ guestRev <= revision

\* The host's window never goes back to an earlier revision.
HostRevisionMonotone == [][hostRev' >= hostRev]_vars

\* The guest's window handles this chunk of a full synchronisation.
HandlesChunk(message) ==
    /\ message.type = "SYNC_RESPONSE" /\ UNCHANGED <<guestPc, linkUp>>
    /\ \/ backlog # <<>> /\ message = Head(backlog) /\ backlog' = Tail(backlog)
       \/ toGuest # <<>> /\ message = Head(toGuest) /\ toGuest' = Tail(toGuest)

\* A chunk leaves the guest's editor as it is while others are missing, and the one that
\* completes a full synchronisation puts exactly the server's document of the revision it
\* names there: whatever the guest showed and counted before, and whatever is committed,
\* broadcast or asked for again while the chunks are sent.
FullSyncInstallsServerText ==
    [][\A message \in Range(backlog) \cup Range(toGuest) :
          HandlesChunk(message) =>
             IF guestChunks'.parts = <<>>
             THEN guestRev' = message.rev /\ guestText' = history[message.rev + 1]
             ELSE UNCHANGED <<guestRev, guestText>>]_vars

\* The host's window has handled everything the server has for it.
HostSettled == hostPc = "idle" /\ serverEvents = <<>> /\ sessionPc # "push"

\* So has the guest's, and nothing the guest typed is on its way.
GuestSettled ==
    /\ guestPc = "online" /\ linkUp /\ sessionPc = "receive"
    /\ hostPc = "idle" /\ toServer = <<>> /\ toGuest = <<>> /\ backlog = <<>>

\* Once nothing is under way for the host, its editor shows the server's document.
\* (ApplyLocalOperation, PushEvent, ApplySyncApply and RequestFullSync together.)
HostShowsServerDocument == HostSettled => hostText = document /\ hostRev = revision

\* Once nothing is under way for the guest, its editor shows the server's document, also
\* after it rejoined and after edits made while the connection was down, unless a send
\* failed on a connection that stayed up.
GuestShowsServerDocument ==
    GuestSettled /\ unsent = "nothing" => guestText = document /\ guestRev = revision

\* As long as the guest stays in the room and nothing fails to be sent, both windows come
\* to show the server's document and stay so: no thread waits for a message that never
\* comes, and no full synchronisation asks for another one for ever.
WindowsConverge ==
    <>[](linkUp /\ guestPc = "online" /\ unsent = "nothing")
        => <>[](/\ hostText = document /\ hostRev = revision
                /\ guestText = document /\ guestRev = revision)

\* ApplySyncApply of the guest takes revisions one after the other: an APPLY it accepts is
\* the next one, and one that skips a revision is not.
AppliesTakenInOrder ==
    [][toGuest # <<>> /\ toGuest' = Tail(toGuest) /\ Head(toGuest).type = "APPLY"
          => guestRev' \in {guestRev, guestRev + 1}]_vars

\* RequestFullSync of the host takes the document and the number of one revision.
HostReloadsOneRevision ==
    [][hostPc = "copyRevision" /\ hostPc' # "copyRevision"
          => hostText' = history[hostRev' + 1]]_vars

\* A guest for which nothing is under way has every operation, also one whose APPLY could
\* not be sent.
GuestNeverLeftBehind == GuestSettled => guestRev = revision

\* The guest's window never goes back to an earlier revision, not even by a full
\* synchronisation.
GuestRevisionMonotone == [][guestRev' >= guestRev]_vars
=============================================================================
