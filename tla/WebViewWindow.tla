---------------------------- MODULE WebViewWindow -----------------------------
(*****************************************************************************)
(* The window that shows the page of src/ui in a WebView2 (WebViewWindow):   *)
(* the page's text, the messages between page and program, current.txt, and  *)
(* the room the program opens or joins for the page.                         *)
(*                                                                           *)
(* The program's window thread handles one message or event at a time; the   *)
(* page runs in a process of its own. Both directions are queues. The page   *)
(* posts its text 0.7 s after the last change; the program works out what    *)
(* changed against last_known_text_, passes that on to the room, and saves.  *)
(* What others change is posted to the page as a whole new document.         *)
(*                                                                           *)
(* The page parses a document into blocks of Markdown and writes its text    *)
(* from them, and some texts come back altered ("10. b" as "1. b"): Written  *)
(* says which and how (RelayPages), nothing else is assumed of it.           *)
(*                                                                           *)
(* One handler is one action here, though a host's room may change between   *)
(* two calls into the server; how the server and its client serve a room     *)
(* step by step is the subject of SyncSession, and so are frames that are    *)
(* cut short: a send fails here as a whole. All saves of one handler fail    *)
(* or none (NativeTabs has their steps). The page has one tab here: of a     *)
(* page with several the active one's text is posted. The page that is       *)
(* shipped never asks for a room over this interface, which docs/15 lists.   *)
(*                                                                           *)
(* polite is TRUE when nobody types, opens a room or joins one while         *)
(* anything is under way. MaxEdits, MaxRooms and MaxFailures bound the       *)
(* changes, the rooms asked for, and failing accesses to current.txt, sends  *)
(* and connections.                                                          *)
(*****************************************************************************)
EXTENDS EditorDiff, SyncReceiver

OnSeq == INSTANCE SequencesExt

CONSTANTS MaxInsertChars,    \* kMaxInsertChars: the longest INSERT a server accepts
          SyncChunkChars,    \* kSyncChunkChars
          OpeningTexts,      \* what current.txt and a room may hold at first
          TypedTexts,        \* the texts users type
          Written,           \* what the page makes of the texts it does not write back as given
          MaxEdits, MaxRooms, MaxFailures

ASSUME WebAssumption ==
    /\ MaxInsertChars \in Nat
    /\ SyncChunkChars \in Nat \ {0} /\ OpeningTexts \subseteq Text
    /\ \A text \in DOMAIN Written : Written[text] \in Seq(Char)
    /\ TypedTexts \subseteq UNION {[1..n -> Char] : n \in 0..MaxDocumentChars + 1}
    /\ MaxEdits \in Nat /\ MaxRooms \in Nat /\ MaxFailures \in Nat

VARIABLES
    polite,
    page, timer,          \* the page: its text, and whether its save timer is set
    loading,              \* NavigationCompleted is still to come
    toNative, toPage,     \* messages to the program; documents to the page
    role, known, rev,     \* sync_role_, last_known_text_, current_revision_
    chunks,               \* sync_response_revision_ and the chunks received of it
    disk,                 \* current.txt
    unsaved, unread,      \* history: the last save failed; current.txt could not be read,
                          \* and no save was tried since
    document, revision,   \* of the room's server, which is the program's own if it hosts
    up,                   \* the server runs, or the connection to it is up
    toHost,               \* frames of the guest to the host
    serverEvents,         \* event_queue_ of SyncServer
    clientEvents,         \* event_queue_ of SyncClient, and what is on the wire to it
    carried,              \* history: no operation was refused or left unsent while the
                          \* room went on, and no room began over the limit
    edits, rooms, failures

pageVars == <<page, timer, loading>>
nativeVars == <<role, known, rev, chunks>>
diskVars == <<disk, unsaved, unread>>
roomVars == <<document, revision, up, toHost, serverEvents, clientEvents>>
bounds == <<polite, edits, rooms, failures>>
vars == <<bounds, pageVars, toNative, toPage, nativeVars, diskVars, roomVars, carried>>

NoChunks == [rev |-> 0, parts |-> <<>>]
Channels == <<toNative, toPage, toHost, serverEvents, clientEvents>>
Quiet == ~loading /\ \A k \in 1..Len(Channels) : Channels[k] = <<>>

\* The page posts uiReady when it is loaded.
Init ==
    /\ polite \in BOOLEAN
    /\ page = <<>> /\ timer = FALSE /\ loading = TRUE
    /\ toNative = <<[type |-> "uiReady"]>> /\ toPage = <<>>
    /\ role = "Offline" /\ known = <<>> /\ rev = 0 /\ chunks = NoChunks
    /\ disk \in OpeningTexts /\ unsaved = TRUE /\ unread = FALSE
    /\ document = <<>> /\ revision = 0 /\ up = FALSE
    /\ toHost = <<>> /\ serverEvents = <<>> /\ clientEvents = <<>>
    /\ carried = TRUE /\ edits = 0 /\ rooms = 0 /\ failures = 0

-----------------------------------------------------------------------------
(* The page.                                                                 *)

\* scheduleAutosave
Types(text) ==
    /\ polite => Quiet
    /\ edits < MaxEdits /\ edits' = edits + 1
    /\ text # page /\ page' = text /\ timer' = TRUE
    /\ UNCHANGED <<polite, rooms, failures, loading, toNative, toPage, nativeVars, diskVars, roomVars, carried>>

Posts(message) == toNative' = Append(toNative, message)

SaveTimer ==
    /\ timer /\ timer' = FALSE
    /\ Posts([type |-> "editorChanged", text |-> page])
    /\ UNCHANGED <<bounds, page, loading, toPage, nativeVars, diskVars, roomVars, carried>>

AsksForRoom(type) ==
    /\ ~loading /\ (polite => Quiet /\ ~timer)
    /\ rooms < MaxRooms /\ rooms' = rooms + 1
    /\ Posts([type |-> type, text |-> page])
    /\ UNCHANGED <<polite, edits, failures, pageVars, toPage, nativeVars, diskVars, roomVars, carried>>

\* parseMarkdown and serializeEditor: the text of a page that was given this one.
Loaded(text) == IF text \in DOMAIN Written THEN Written[text] ELSE text

\* hydrateDocument: the text is replaced, and a timer that is set goes on.
PageReceives ==
    /\ toPage # <<>>
    /\ page' = Loaded(Head(toPage)) /\ toPage' = Tail(toPage)
    /\ UNCHANGED <<bounds, timer, loading, toNative, nativeVars, diskVars, roomVars, carried>>

-----------------------------------------------------------------------------
(* The program. PostDocument puts a document on toPage; SaveCurrent may fail. *)

\* SaveCurrent(text), with its outcome.
Saves(text, ok) ==
    /\ disk' = IF ok THEN text ELSE disk
    /\ unsaved' = ~ok /\ unread' = FALSE
    /\ ok \/ failures < MaxFailures
    /\ failures' = IF ok THEN failures ELSE failures + 1

\* PostInitialState: LoadCurrent empties its result first, and when it fails that is taken.
PostInitialState ==
    /\ \/ known' = disk /\ unread' = FALSE /\ UNCHANGED failures
       \/ /\ known' = <<>> /\ unread' = TRUE
          /\ failures < MaxFailures /\ failures' = failures + 1
    /\ unsaved' = FALSE /\ toPage' = Append(toPage, known')
    /\ UNCHANGED <<polite, edits, rooms, page, timer, role, rev, chunks, disk, roomVars, carried>>

NavigationCompleted == loading /\ loading' = FALSE /\ PostInitialState /\ UNCHANGED toNative

Message(type) == toNative # <<>> /\ Head(toNative).type = type /\ toNative' = Tail(toNative)

HandleUiReady == Message("uiReady") /\ PostInitialState /\ UNCHANGED loading

\* ApplyMessageToDocument takes the operation.
Accepts(text, op) ==
    /\ op.type = "INSERT" => Len(op.text) <= MaxInsertChars
    /\ ApplyStatus(text, op) = "applied"

\* One operation of a host: ApplyLocalOperation, or RequestFullSync if it is refused. s
\* holds the room, the revision of the window and the documents posted.
HostApplies(s, op) ==
    IF Accepts(s.document, op)
      THEN [s EXCEPT !.document = Applied(s.document, op), !.revision = @ + 1, !.rev = s.revision + 1]
      ELSE [s EXCEPT !.rev = s.revision, !.posts = Append(@, s.document), !.carried = FALSE]

HostAppliesAll(s, ops) ==
    LET after[k \in 0..Len(ops)] == IF k = 0 THEN s ELSE HostApplies(after[k - 1], ops[k])
    IN  after[Len(ops)]

\* EnqueueMessage refuses an INSERT that cannot be serialised (a DELETE always can).
WithoutInsert(ops) ==
    IF ops # <<>> /\ ops[Len(ops)].type = "INSERT" THEN SubSeq(ops, 1, Len(ops) - 1) ELSE ops

\* SendLocalOperations: a host's go into its server, a guest's into the queue of its
\* client, which refuses them when it is not connected.
SendLocalOperations(ops) ==
    LET before == [document |-> document, revision |-> revision, rev |-> rev, posts |-> toPage,
                   carried |-> carried]
        after == HostAppliesAll(before, ops)
    IN  \/ /\ role = "Host"
           /\ document' = after.document /\ revision' = after.revision
           /\ rev' = after.rev /\ toPage' = after.posts /\ carried' = after.carried
           /\ UNCHANGED toHost
        \/ /\ role = "Guest" /\ up
           /\ \E sent \in {ops, WithoutInsert(ops)} :
                  /\ toHost' = toHost \o [k \in 1..Len(sent) |-> [type |-> "EDIT", op |-> sent[k]]]
                  /\ carried' = (carried /\ sent = ops)
           /\ UNCHANGED <<document, revision, rev, toPage>>
        \/ /\ role = "Offline" \/ (role = "Guest" /\ ~up)
           /\ UNCHANGED <<document, revision, rev, toPage, toHost, carried>>

\* editorChanged: a text over the limit is taken back; otherwise last_known_text_ becomes
\* the page's text whatever became of its operations.
HandleEditorChanged(ok) ==
    /\ Message("editorChanged")
    /\ LET text == Head(toNative).text
       IN  IF Len(text) > MaxDocumentChars
             THEN /\ toPage' = Append(toPage, known)
                  /\ ok /\ UNCHANGED <<bounds, nativeVars, diskVars, roomVars, carried>>
             ELSE /\ SendLocalOperations(ComputeEditorDiff(known, text))
                  /\ known' = text /\ Saves(text, ok)
                  /\ UNCHANGED <<polite, edits, rooms, role, chunks, up, serverEvents, clientEvents>>
    /\ UNCHANGED pageVars

\* HandleCreateRoom: any room is left, and the events of it stay queued. The limit of a
\* document is not checked.
HandleCreateRoom(ok, started) ==
    /\ Message("createRoom")
    /\ LET text == Head(toNative).text
       IN  /\ known' = text /\ Saves(text, ok) /\ document' = text
           /\ carried' = (carried /\ Len(text) <= MaxDocumentChars)
    /\ revision' = 0 /\ rev' = 0 /\ chunks' = NoChunks /\ toHost' = <<>>
    /\ up' = started /\ role' = IF started THEN "Host" ELSE "Offline"
    /\ UNCHANGED <<polite, edits, rooms, pageVars, toPage, serverEvents, clientEvents>>

\* HandleJoinRoom of a code that is found: the room is left first; if the connection
\* fails, sync_role_ stays. A new guest asks for the document.
HandleJoinRoom(text) ==
    /\ Message("joinRoom")
    /\ \/ /\ role' = "Guest" /\ rev' = 0 /\ chunks' = NoChunks /\ up' = TRUE
          /\ document' = text /\ revision' = 0
          /\ toHost' = <<[type |-> "SYNC_REQUEST"]>>
          /\ UNCHANGED failures
       \/ /\ failures < MaxFailures /\ failures' = failures + 1
          /\ up' = FALSE /\ toHost' = <<>>
          /\ UNCHANGED <<role, rev, chunks, document, revision>>
    /\ UNCHANGED <<polite, edits, rooms, pageVars, toPage, known, diskVars, serverEvents, clientEvents,
                   carried>>

\* DiscoveryClient::Find finds no room.
FindsNoRoom ==
    /\ Message("joinRoom")
    /\ UNCHANGED <<bounds, pageVars, toPage, nativeVars, diskVars, roomVars, carried>>

-----------------------------------------------------------------------------
(* DrainSyncEvents: the server's events before the client's.                 *)

LocalId == IF role = "Guest" THEN "B" ELSE "A"

\* A slip: the new text is shown and not saved.
ShowUnsaved(text, revisionNow, ok) ==
    /\ known' = text /\ rev' = revisionNow
    /\ ok /\ UNCHANGED <<diskVars, failures>>
    /\ toPage' = Append(toPage, text)

\* ApplyFullSyncDocument, and the end of ApplySyncApply.
Show(text, revisionNow, ok) ==
    /\ known' = text /\ rev' = revisionNow
    /\ Saves(text, ok)
    /\ toPage' = Append(toPage, text)

\* No document is installed.
Keep(ok) == ok /\ UNCHANGED <<known, diskVars, failures, toPage>>

\* A guest asks the host for the document, a host takes its server's.
RequestFullSync(ok) ==
    CASE role = "Guest" -> /\ toHost' = IF up THEN Append(toHost, [type |-> "SYNC_REQUEST"]) ELSE toHost
                           /\ Keep(ok) /\ UNCHANGED rev
      [] role = "Host" -> Show(document, revision, ok) /\ UNCHANGED toHost
      [] OTHER -> Keep(ok) /\ UNCHANGED <<rev, toHost>>

ApplySyncApply(m, ok) ==
    LET outcome == ApplyOutcome(m, LocalId, rev, known)
    IN  /\ CASE outcome = "ignore" -> Keep(ok) /\ UNCHANGED <<rev, toHost>>
             [] outcome = "own" -> rev' = m.rev /\ Keep(ok) /\ UNCHANGED toHost
             [] outcome = "resync" -> RequestFullSync(ok)
             [] outcome = "apply" -> Show(Applied(known, m.op), m.rev, ok) /\ UNCHANGED toHost
        /\ UNCHANGED chunks

\* The chunks collected, with this one.
Collected(m) ==
    LET kept == IF chunks.rev = m.rev /\ Len(chunks.parts) = m.count
                  THEN chunks.parts ELSE [k \in 1..m.count |-> <<>>]
    IN  [rev |-> m.rev, parts |-> [kept EXCEPT ![m.index] = <<m.text>>]]

\* A slip: the last chunk is taken for the document.
ApplySyncResponseOfLast(m, ok) ==
    /\ IF \A k \in 1..m.count : Collected(m).parts[k] # <<>>
         THEN Show(m.text, m.rev, ok) /\ chunks' = [chunks EXCEPT !.parts = <<>>]
         ELSE Keep(ok) /\ UNCHANGED rev /\ chunks' = Collected(m)
    /\ UNCHANGED toHost

\* The document is shown when all its chunks are there.
ApplySyncResponse(m, ok) ==
    /\ IF \A k \in 1..m.count : Collected(m).parts[k] # <<>>
         THEN /\ Show(OnSeq!FlattenSeq([k \in 1..m.count |-> Collected(m).parts[k][1]]), m.rev, ok)
              /\ chunks' = [chunks EXCEPT !.parts = <<>>]
         ELSE Keep(ok) /\ UNCHANGED rev /\ chunks' = Collected(m)
    /\ UNCHANGED toHost

\* HandleSyncEvent. Disconnected is only shown in the status line, and so is ERROR.
HandleSyncEvent(m, ok) ==
    /\ CASE m.type = "APPLY" -> ApplySyncApply(m, ok)
         [] m.type = "SYNC_RESPONSE" -> ApplySyncResponse(m, ok)
         [] OTHER -> Keep(ok) /\ UNCHANGED <<rev, chunks, toHost>>
    /\ UNCHANGED <<polite, edits, rooms, pageVars, toNative, role, document, revision, up, carried>>

DrainSyncEvents(ok) ==
    \/ /\ serverEvents # <<>> /\ HandleSyncEvent(Head(serverEvents), ok)
       /\ serverEvents' = Tail(serverEvents) /\ UNCHANGED clientEvents
    \/ /\ serverEvents = <<>> /\ clientEvents # <<>> /\ HandleSyncEvent(Head(clientEvents), ok)
       /\ clientEvents' = Tail(clientEvents) /\ UNCHANGED serverEvents

-----------------------------------------------------------------------------
(* The other side of the room, and the connection.                           *)

Announces(apply) ==
    IF role = "Host" THEN serverEvents' = Append(serverEvents, apply) /\ UNCHANGED clientEvents
                     ELSE clientEvents' = Append(clientEvents, apply) /\ UNCHANGED serverEvents

\* ApplyMessageToDocument of an operation it accepts.
Commits(client, op) ==
    /\ document' = Applied(document, op) /\ revision' = revision + 1
    /\ Announces([type |-> "APPLY", rev |-> revision + 1, client |-> client, op |-> op])

\* The other participant changes the document in one operation. A host ignores it when
\* the APPLY of its own operation cannot be sent to the guest.
PeerEdits(text) ==
    /\ up /\ role # "Offline" /\ (polite => Quiet /\ ~timer)
    /\ edits < MaxEdits /\ edits' = edits + 1
    /\ LET ops == ComputeEditorDiff(document, text)
       IN  /\ Len(ops) = 1 /\ Accepts(document, ops[1])
           /\ \/ Commits(IF role = "Host" THEN "B" ELSE "A", ops[1]) /\ UNCHANGED <<failures, carried>>
              \/ /\ role = "Guest" /\ failures < MaxFailures /\ failures' = failures + 1
                 /\ document' = Applied(document, ops[1]) /\ revision' = revision + 1
                 /\ carried' = FALSE /\ UNCHANGED <<serverEvents, clientEvents>>
    /\ UNCHANGED <<polite, rooms, pageVars, toNative, toPage, nativeVars, diskVars, up, toHost>>

\* The document in chunks.
Response == LET count == IF document = <<>> THEN 1 ELSE (Len(document) + SyncChunkChars - 1) \div SyncChunkChars
            IN  [k \in 1..count |->
                    [type |-> "SYNC_RESPONSE", rev |-> revision, index |-> k, count |-> count,
                     text |-> SubSeq(document, (k - 1) * SyncChunkChars + 1,
                                     IF k < count THEN k * SyncChunkChars ELSE Len(document))]]

\* The host this guest is connected to takes a frame: an edit it refuses is an ERROR.
HostServes ==
    /\ up /\ role = "Guest" /\ toHost # <<>>
    /\ toHost' = Tail(toHost)
    /\ LET frame == Head(toHost)
       IN  IF frame.type = "SYNC_REQUEST"
             THEN /\ clientEvents' = clientEvents \o Response
                  /\ UNCHANGED <<document, revision, serverEvents, carried>>
             ELSE IF Accepts(document, frame.op) THEN Commits("B", frame.op) /\ UNCHANGED carried
             ELSE /\ clientEvents' = Append(clientEvents, [type |-> "ERROR"])
                  /\ carried' = FALSE
                  /\ UNCHANGED <<document, revision, serverEvents>>
    /\ UNCHANGED <<bounds, pageVars, toNative, toPage, nativeVars, diskVars, up>>

\* The connection of a guest is lost, or closed by a host that could not send an answer,
\* or a part of one; with it goes what is on its way to the host, and some of what is on
\* its way from there.
LosesHost ==
    /\ up /\ role = "Guest" /\ failures < MaxFailures /\ failures' = failures + 1
    /\ up' = FALSE /\ toHost' = <<>>
    /\ \E kept \in 0..Len(clientEvents) :
          clientEvents' = Append(SubSeq(clientEvents, 1, kept), [type |-> "Disconnected"])
    /\ UNCHANGED <<polite, edits, rooms, pageVars, toNative, toPage, nativeVars, diskVars,
                   document, revision, serverEvents, carried>>

Next ==
    \/ \E text \in TypedTexts : Types(text)
    \/ SaveTimer
    \/ \E type \in {"createRoom", "joinRoom"} : AsksForRoom(type)
    \/ PageReceives
    \/ NavigationCompleted \/ HandleUiReady
    \/ \E ok \in BOOLEAN : \/ HandleEditorChanged(ok) \/ DrainSyncEvents(ok)
                           \/ \E started \in BOOLEAN : HandleCreateRoom(ok, started)
    \/ \E text \in OpeningTexts : HandleJoinRoom(text)
    \/ FindsNoRoom
    \/ \E text \in TypedTexts \cap Text : PeerEdits(text)
    \/ HostServes \/ LosesHost

Spec == Init /\ [][Next]_vars

-----------------------------------------------------------------------------
(* Properties.                                                               *)

Request == [type : {"uiReady"}]
               \cup [type : {"editorChanged", "createRoom", "joinRoom"}, text : Seq(Char)]
Frame == [type : {"SYNC_REQUEST"}] \cup [type : {"EDIT"}, op : Operation]
Event == [type : {"APPLY"}, rev : Nat, client : {"A", "B"}, op : Operation]
             \cup {m \in [type : {"SYNC_RESPONSE"}, rev : Nat, index : Nat, count : Nat, text : Seq(Char)] :
                      m.index \in 1..m.count}
             \cup [type : {"ERROR", "Disconnected"}]

\* A page may hold more than a document, and HandleCreateRoom takes that as it is.
TypeOK ==
    /\ {page, known, disk, document} \subseteq Seq(Char)
    /\ {polite, timer, loading, unsaved, unread, up, carried} \subseteq BOOLEAN
    /\ role \in {"Offline", "Host", "Guest"} /\ {rev, revision} \subseteq Nat
    /\ toNative \in Seq(Request) /\ toPage \in Seq(Seq(Char)) /\ toHost \in Seq(Frame)
    /\ {serverEvents, clientEvents} \subseteq Seq(Event)
    /\ chunks \in [rev : Nat, parts : Seq(Seq(Seq(Char)))]

\* What the program takes for the document is what current.txt holds, unless the last
\* save failed: on every path that changes it, through rooms that are opened, joined and
\* lost, refused operations and documents sent in parts. Only when current.txt could not
\* be read it is the empty text, until something is saved over it.
DiskFollowsKnown == IF unread THEN known = <<>> ELSE unsaved \/ disk = known

\* As long as everybody is polite and every operation is carried, the page, the program
\* and the room agree as soon as nothing is under way: whatever was typed, saved or not,
\* taken back or sent in parts, and whichever rooms came before. The page then shows the
\* document, or what it makes of it. Without that the code does not promise it: a document
\* on its way to the page and a text on its way to the program cross, and the text of a
\* change of which the server refuses a part stays what the program takes for shared.
PoliteAgree ==
    polite /\ carried /\ Quiet /\ ~timer =>
        /\ page \in {known, Loaded(known)}
        /\ role # "Offline" /\ up => known = document /\ rev = revision

\* Polite users agree whatever the server refuses. The code does not promise that, and
\* WebViewRefused.cfg finds it violated: a host's long insertion is refused, its page gets
\* the document back, and what the program takes for shared stays the text refused.
PoliteAgreeAnyway ==
    polite /\ Quiet /\ ~timer =>
        /\ page \in {known, Loaded(known)}
        /\ role # "Offline" /\ up => known = document /\ rev = revision
=============================================================================
