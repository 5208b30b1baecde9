# ShareNotepad: a formal model

ShareNotepad is a text editor for Windows whose document two people can edit together: over the
LAN, with a C++ server inside the host's program and a C++ client inside the guest's, or over the
Internet, with a relay server written in Go and the synchronisation in the web UI. This directory
holds TLA+ modules that model the parts of it in which concurrency, ordering and failure matter,
TLC configurations that check them on small instances, and TLAPS proofs for every instance.

    tlc -workers 2 -config SyncTurns.cfg MCSyncSession     # a run: see the table in section 4
    tlapm SyncSessionProofs.tla                             # a module of proofs

Paths below are relative to `src/`; code is in `client/` unless another directory is given.

## 1. Inventory

| Component | State it keeps | Operations | Interacts with |
|---|---|---|---|
| Document operations (`document_model.cpp`, `editor_diff.cpp`) | none | apply INSERT / DELETE with checks; diff two texts into at most a DELETE and an INSERT; move a selection | used by server and windows |
| `SyncServer` (`sync_server.cpp`) | `document_`, `revision_`, `event_queue_`, the one peer slot, join failures | Start, Stop, ApplyLocalOperation, accept, HandleClient (JOIN, EDIT, SYNC_REQUEST, PING), BroadcastApply | called by the host's window; its own accept and session threads; TCP |
| `SyncClient` (`sync_client.cpp`) | `connected_`, `stopping_`, socket, `send_queue_`, `event_queue_` | Connect, Disconnect, EnqueueMessage, SendLoop, ReceiveLoop, HeartbeatLoop | called by the guest's window and by the reconnect thread; TCP |
| Native window (`window.cpp`) | editor, `last_known_text_`, `current_revision_`, role, chunks of a full sync, `reconnecting_` | ProcessEditorChange, DrainSyncEvents, ApplySyncApply, RequestFullSync, joining, leaving, ReconnectLoop | server or client through calls and event queues |
| WebView window (`webview_window.cpp`) | a copy of the window's synchronisation state | the same, without selection and reconnect | the same, and the web UI |
| Wire protocol (`protocol.cpp`, send and receive loops of server and client) | `FrameDecoder::buffer_` | encode and decode JSON messages, frames with a length, SendAll, recv | server, client; TCP |
| Relay server (`relay-server/main.go`) | table of rooms, rooms, peers, connection count, rate limits | CREATE, JOIN, RELAY, LEAVE, PING, expiry | its goroutines; WebSocket |
| Relay client (`ui/app.js`) | `relayLastText`, `relayRevision`, document of the host's page | create, join, diff, PEER_OP, APPLY, full sync | relay server; the editor |
| Storage (`storage.cpp`) and autosave | `current.txt`, `current.tmp` | load, save by write and replace | windows |
| Tabs of the native editor (`window.cpp`) | `tabs_`, `active_tab_index_`, `dirty_`, the autosave timer | new tab, switch, save, close | storage |
| Room discovery (`discovery.cpp`) | the announcement sent | announce, find | windows, server; UDP |
| Text encoding (`text_encoding.cpp`) | none | UTF-16 to UTF-8 and back | storage, protocol |
| Markdown and appearance (`ui/app.js`, `window.cpp`) | blocks of the page's editor | parseMarkdown, serializeEditor, shortcuts, formats | the editors: a text the page is given may come back altered |
| Configuration, start-up and self-installation, logging and paths | files, registry | sequential calls | the operating system |

What is hard, and what makes each part correct:

* **Document operations.** Positions and the limit of the document meet at their boundaries; what
  one side typed must replay on the other. *Correct when* no operation of a diff is refused on a
  replica in step, the replica catches up, and a selection stays between the same characters.
* **LAN session** (server, connection, both windows). Two threads of the host write the wire; the
  guest edits before the server has answered; a snapshot is copied under a lock and sent after it;
  connections break in the middle of all this. *Correct when* each revision is one operation and
  explains the document, every message names the revision it belongs to, no edit is lost on its
  way to a window, and the windows come to agree.
* **Rooms** (`SyncServer` Start and Stop, the handshake, discovery). One thread per connection, one
  slot, a counter of failures, and a window that closes all of it at any time. *Correct when* the slot
  is taken exactly as long as its peer is served, each handle is closed once, nobody gets in without
  the code, and closing ends.
* **Client threads.** Connect and Disconnect hold no lock and are called by two threads; three
  workers share flags, a socket and a queue. *Correct when* calls exclude each other, no worker and
  no frame outlives its connection, a loss is noticed, and leaving ends.
* **Wire.** TCP cuts frames anywhere and a send may fail inside one. *Correct when* messages arrive
  whole, in order and as they were, and the receiver gives up only when it must.
* **Relay server.** A goroutine per peer to read and one to write, goroutines that close, a table
  of rooms by code while peers point at rooms directly. *Correct when* table, rooms and peers agree,
  counts are given back, and no message is dropped for a peer that stays.
* **Relay client.** A second protocol for the same purpose, with the host's page as the server, and
  with unsent typing, compositions and timers between the editor and what is shared. The editor is
  made of blocks of Markdown, and writes some texts otherwise than it was given them. *Correct when*
  what the host sends is its history, a reader follows it, and users who wait for each other agree.
* **WebView window.** The page is a process of its own; its text, the program's and the room's are
  three copies with queues between them. *Correct when* the file follows the program's copy and the
  copies agree once all is quiet.
* **Storage and tabs.** A save may fail or the program die at each call; only one of the tabs belongs
  to the file. *Correct when* a start always reads one whole document, and no unsaved text lacks the
  flag that makes it be saved.

`PROJECT.json` lists every component, also those that are not modelled, and under `hazards` each
hard place at its line.

## 2. Plan

In the order of importance; all of these modules exist.

| Order | Modules | Content | Abstract view |
|---|---|---|---|
| 1 | `DocumentModel`, `EditorDiff`, `EditorSelection` | pure operators | the reference: applying the diff gives the new text |
| 2 | `EditReplay` | one author, one replica | "the replica is a prefix of the author's changes" |
| 3 | `SyncSession`, with `SyncReceiver` | the LAN session; composes 1 | the server's log (`committed`, `history`) |
| 4 | `ClientWorkers` | threads of the guest | |
| 5 | `RelayHub` | the relay server | what is `owed` to each peer |
| 6 | `DurableDocument`, `DocumentStorage`, `NativeTabs`, `TwoPrograms` | saving, tabs, crashes | `DurableDocument`, which `NativeTabs` implements |
| 7 | `RoomAdmission` | rooms, handshake, peer slot, discovery, Start and Stop | |
| 8 | `ProtocolJson`, `FrameStream` | messages over a byte stream | the sequence of messages sent |
| 9 | `WebViewWindow` | page, program, file and room; composes 1 and `SyncReceiver` | one document in three places |
| 10 | `RelayPages` | the protocol of `ui/app.js` over the channel that `NothingOwedIsLost` promises; composes 1 | the host's `history` |

Left to do: a document that takes one operation at a time as an abstract specification for `SyncSession`
with turns and for `RelayPages` of polite users; two tabs and a lost host in `RelayPages`.

## 3. Modules and code

**`DocumentModel`** is `document_model.cpp`: `ApplyStatus` is the order of the checks of
`ApplyInsertToContent` and `ApplyDeleteToContent`, `Applied` what they do. A text is a sequence of
members of `Char`; the limit of 5 Mi characters is `MaxDocumentChars`. **`EditorDiff`** is
`ComputeEditorDiff`: common prefix, common suffix of the rest, a DELETE before an INSERT.
**`EditorSelection`** is `AdjustSelectionFor...` and `ClampSelectionToText` of `window.cpp`.
**`EditReplay`** puts them together: `Change` diffs and appends to `pending`, `ApplyNext` applies
the head to `replica` and moves the selection, `Select` is the user.

**`SyncSession`**. State: `document`, `revision`, `serverEvents` of `SyncServer`; `sessionPc`,
`sessionApply`, `snapshot` the locals of its session thread between two locks or sends; `hostText`
(the editor), `hostKnown` (`last_known_text_`), `hostRev` and the locals of the host's window
thread; `guestText`, `guestRev`, `guestChunks`, `guestRole` of the guest's window, `guestPc` of its
client; `linkUp`, `toServer`, `toGuest` the connection. Actions: `HostTypes` to
`HostFinishesChange` are ProcessEditorChange and SendLocalOperations, one step for each lock taken
or message sent; `HostStartsDrain` to `HostFinishesDrain` are DrainSyncEvents with ApplySyncApply,
`HostCopies...` RequestFullSync; `Session...` are HandleClient, HandleEditMessage and
SendSyncResponse, one step per critical section and per frame; `Guest...` are joining, the change
handler and HandleSyncEvent; `LinkBreaks` loses what was on the wire towards the server and leaves
to the guest what it had received (`backlog`). A send may fail while the connection stays up, because
SerializeMessage refuses the message (over 64 KiB of UTF-8, an unpaired surrogate) or because it times
out. Where the code ignores that (BroadcastApply of the host's changes, SendError) it is
`SendIgnoringFailure`: nothing of the frame is on the wire, or a part, behind which the guest reads no
more. EnqueueMessage of the guest refuses an INSERT (`WithoutInsert`). Where the code ends the session
(the answer to an EDIT, a part of a document, such as one cut inside a surrogate pair) it is
`LinkBreaks`. `committed`, `history` and `unsent` (whether a send failed on a live connection) are
history variables. SendAll of two threads can interleave inside a frame only when the socket's buffer
is full, which is not modelled.

**`ClientWorkers`**. One program counter per thread: `sendPc`, `receivePc`, `beatPc` the workers,
`windowPc` the window thread, `reconnectPc` ReconnectLoop, and `calls` says where each of the last
two is in Connect or Disconnect. `send_mutex_` matters once: SendLoop tests its predicate under it
and goes to sleep (`SendTests`, `SendSleeps`), while `CallSetsFlags` and `CallNotifies` do not take
it. The wire is up, closed (its end is seen) or silent. Frames carry the number of the connection
they were queued for, a history value.

**`RelayHub`**. A peer is a connection; as it is in at most one room in its life a room is named by
the peer that created it. `rooms`, `members`, `code` are the table and the rooms, `peerRoom` and
`peerId` the peer's own fields, `handler`, `writer` and `closer` its goroutines, `send`, `closed` and
`open` its channel and socket. `stale` abstracts the clock. Each critical section of `hub.mu` is one
action; `Post` is sendRaw for each receiver, with the goroutine it starts when a channel is full.
`ReadReplies` stands for every request that is refused, for PING and for unknown types. `owed` and
`expired` are history variables.

**`DurableDocument`** is what saving promises: a process asks for a text to be saved, and then the
document either stays as it was or becomes one of the texts being saved, whole. **`DocumentStorage`**
is `storage.cpp`: `LoadCurrent`, and SaveCurrent with one step per system call (`BeginSave` is the
check that the text can be encoded, `OpenTemp`, `WriteTemp`, `ReplaceCurrent`), each of which may be
the last one (`FailSave`: a failure or a crash, with any part of the text written). A file is its form
and its body. `Durable` maps `saved` to what LoadCurrent would return and `pending` to the text of the
SaveCurrent under way. **`NativeTabs`** adds the window: `Edit` is ProcessEditorChange, `Receive` what a
room shows, `SwitchToTab` and `NewTab` the handlers of these names, `Autosave` WM_TIMER, `SaveCommand`,
`Close` WM_CLOSE, `Saved` and `NotSaved` what follows SaveCurrent in SaveEditorContent, `Start`
LoadInitialDocument and InitializeTabs, also when LoadCurrent fails (`unread`, a history variable, is
then TRUE until a save succeeds), `Crash` the end at any point. **`TwoPrograms`** is
`DocumentStorage` with several programs on one directory.

**`RoomAdmission`**. `window` walks through HandleCreateRoom, HandleLeaveRoom and Stop (flags, sockets,
join of the accepting thread, join of the others); `accepting` is AcceptLoop; `pc[c]` is the thread of
connection c in HandleClient, one step between two critical sections or calls: hello and join awaited,
IsJoinBlocked, the comparison of the code, the slot, JOIN_OK, the session, and its end. `joined`,
`peer` and `failed` are the members under `mutex_`. `air` keeps every announcement that was sent, as a
datagram may arrive late; a guest goes to the port of one (`Finds`) or types one (`TypesPort`). `far`
is the other end of a connection, which may close or vanish.

**`ProtocolJson`** is SerializeMessage and DeserializeMessage over the characters the code tells
apart, the parser as an automaton that takes them one by one (`ReadByte`, `Parses`); **`FrameStream`** is EncodeFrame, SendAll,
FrameDecoder and the receive loop over a wire of bytes, `Receive` taking any number of them. A byte of
a length is the character it is in JSON where it is one (`LengthByte`: 22 is a quotation mark, 7D a
brace), and `sent` holds the messages sent until a send first failed. `Json`
writes the three common fields and then the texts and numbers, which the messages differ in. Blanks and
the escapes SerializeMessage never writes are left out.

**`WebViewWindow`**. `page` and `timer` are the page, `toNative` and `toPage` the messages between it
and the program, `known`, `rev`, `role`, `chunks` members of WebViewWindow, `disk` is `current.txt`,
`document` and `revision` those of the room's server. Each message of the page is one action
(`HandleUiReady`, `HandleEditorChanged`, `HandleCreateRoom`, `HandleJoinRoom`), each queued event one
`DrainSyncEvents`, whose handlers are those of `window.cpp` written a second time (`SyncReceiver` is
the decision both share). The room's other side is `PeerEdits`, `HostServes`, `LosesHost`; a server
refuses what `Accepts` does not take, `kMaxInsertChars` included. The page parses a text it is given
into blocks of Markdown and writes its own text from them ("10. b" becomes "1. b", "* a" becomes "- a",
"-----" becomes "---", a code fence loses its language): `Loaded`, which is any function that `Written`
gives. LoadCurrent may fail in `PostInitialState`, and the empty text is then taken (`unread`).
`carried` is a history variable: FALSE from the first operation on that a server refused, or that was
not sent while its connection stayed up, or a room opened with a text over the limit.

**`RelayPages`**. A page is a record: `editor`, `last` (`relayLastText`), `rev` (`relayRevision`),
`timer` (`relayTimer`), `composing`, `pending` (`pendingRelayDocument`), `deferred` (documents that wait
for `setTimeout(..., 0)`), `chunks`. `HostHandles` and `GuestHandles` are handleRelayMessage;
`HostFlushes` and `GuestFlushes` flushRelayLocalChange; `...GoesOn` is the end of a composition, the
timer it sets, or `relayTimer`; `HubRelays` is the relay, which refuses long texts. `Shown` is
applyRelayDocument: the editor holds afterwards what it makes of the text (`Loaded`, as above), while
relayLastText is the text itself. `history`, `polite` and `follows` are history variables, and so is
`asGiven` of a page: TRUE until its editor altered a text it was given.

Operators introduced by a comment "A slip: ..." are no part of a specification. Each is the
definition after it with a plausible mistake; replacing the one by the other violates a property,
which shows that the property depends on that code.

## 4. Runs

| Run | Module, configuration | What it asks |
|---|---|---|
| `edit_replay` | MCEditReplay, EditReplay.cfg | Is an operation of a diff ever refused by a replica that applied all earlier ones? Does the replica catch up, does the selection keep its place? |
| `sync_concurrent` | MCSyncSession, SyncConcurrent.cfg | What holds when both type at any time and the connection breaks? |
| `sync_turns` | MCSyncSession, SyncTurns.cfg | Do both windows show the server's document when users take turns, and converge? |
| `sync_host_skips` | MCSyncSession, SyncHostSkips.cfg | *violation*: does the host's editor always show the document once all is handled? |
| `client_workers` | MCClientWorkers, ClientWorkers.cfg | Are workers and frames of two connections kept apart in every order of joins, losses and leaves? |
| `relay_hub` | MCRelayHub, RelayHub.cfg | Do table, rooms and peers agree, are connections counted, is anything dropped? |
| `relay_closing` | MCRelayHub, RelayClosing.cfg | Is a peer that is to be closed removed, with its goroutines? |
| `native_tabs` | MCNativeTabs, NativeTabs.cfg | Is unsaved text of the first tab always marked? Does saving implement `DurableDocument`, whatever fails and whenever the program dies? |
| `rooms` | MCRoomAdmission, RoomAdmission.cfg | Who gets into which room, whose is the slot, who closes which handle, does closing a room end? |
| `frame_stream` | MCFrameStream, FrameStream.cfg | Do messages arrive whole and in order through a stream that is cut anywhere? When does the receiver give up? |
| `webview` | MCWebView, WebView.cfg | Do page, program, file and room agree? |
| `relay_pages` | MCRelayPages, RelayPages.cfg | Is what the host sends its history, does a reader follow it, do users who wait for each other agree? |

What they show:

* With users typing at the same time (`sync_concurrent`) the server's side is sound: one operation
  per revision, messages that agree with the log, full synchronisations that install the text of one
  revision, no guest edit lost before the host's window. The windows are not: `sync_host_skips` (the
  host takes the revision of its own operation, which may be past a guest's that is still queued, and
  then ignores that one as old), and two of the traces of section 5.
* With users taking turns (`sync_turns`: nobody types while the other's change is under way) the
  host's window shows the server's document whenever nothing is under way, and the guest's does too as
  long as no send failed on a connection that stayed up, also after a lost connection and a rejoin. A
  guest that stays in the room comes to that point. So the windows' code is right for the case it was
  written for; the divergences are what concurrency and ignored failures add (SyncLostApply.cfg).
* The guest's threads keep connections apart (`client_workers`), with two reservations in section 5.
* The relay server keeps its promises (`relay_hub`, `relay_closing`), with one reservation that
  `LiveRoomReachable` states: peers of an expired room stay in it until they leave, and the last one
  deletes whatever room has the code by then.
* A start that can read the file reads the document as it was or a whole saved text (`native_tabs`),
  and the first tab is never unsaved without a flag. After a start that could not read it the window
  shows an empty document without one, until a save. The flag alone does not save it: see section 7.
* One guest at a time is served, nobody gets in without the code of the room that is open, each
  handle is closed once and closing the room ends (`rooms`), although the slot is freed in three
  places by two threads, and announcements and threads outlast their room.
* Messages arrive in order and as they were (`frame_stream`), wherever recv cuts the stream. A send
  that fails inside a frame spoils nothing of what was sent before. What follows it is read as the rest
  of that frame, which nearly always is an error that ends the connection; but a length may be 22 7D,
  the end of a text and an object, so nothing is claimed of it. The receiver gives up without such a
  failure only next to a frame of nearly the largest size.
* `current.txt` follows the program's copy on every path of the WebView window; when it could not be
  read that copy is empty until a save. Polite users end up with one text in program and room, which
  the page shows as it writes it, as long as every operation is accepted and sent (`webview`); a refused
  one leaves them apart (WebViewRefused.cfg).
* Over the relay the host's stream is its history under every interruption, and a reader follows it
  (`relay_pages`) as long as its editor gives texts back as it got them; RelayMarkdown.cfg is the trace
  of one that does not. Agreement also needs users who wait for each other: both pages replace or pass
  over what their own user typed and did not send yet.

### Bounds

| Run | Bounds | Distinct states | Why they are enough |
|---|---|---|---|
| `edit_replay` | two letters, texts of up to 3, 3 pending operations | 45,245 | prefix and suffix overlap, a full document is replaced, an operation meets a selection on every side |
| `sync_*` | opening text of two letters, documents of up to 2, one character to a chunk, 2 changes, 1 broken connection or failed send (2 in turns, none in the violations) | 6,855,511 concurrent, 1,023,234 in turns | a change of two operations, a full synchronisation of two frames that other steps separate, a change of each user under way at once, a rejoin with edits made offline, a failed send and a loss after it |
| `client_workers` | 2 attempts, 3 failures, 2 queued frames, 3 joins and leaves | 577,223 | a failed and a successful reconnect, a loss during a reconnect, leaving and joining again |
| `relay_hub` | 3 connections, one code, channels of 1, 4 requests | 5,019,545 | a third peer takes a place or a code; a channel is full after one message; a room expires with peers inside and its code is used again |
| `relay_closing` | 2 connections, 3 requests, 1 write that times out | 161,254 | the writer dies first, or the closer, or the handler |
| `native_tabs` | 4 texts with and without a mark and an unpaired surrogate, 4 files to start with, 3 tabs, 3 starts | 697,304 | a refused, a failed and a cut save; a start that cannot read the file; a crash in each step with a start after it, twice; an edit whose timer runs out in another tab and in a third one |
| `rooms` | 2 connections at a time, used again and again, 2 rooms, 2 ports, the first failure blocks | 1,875,773 | a guest of the first room and one of the second at once; a second guest meets the taken slot; Stop meets each step of two threads |
| `frame_stream` | 2 of 9 messages, frames of up to 46 bytes, reads of up to 6, 1 send that fails half way | 177,309 | one frame just at the limit and one behind it, one inside a broken frame, every escape and a character of several bytes cut at each place, a number at its limit |
| `webview` | texts of up to 2 letters and one too long, one character to an INSERT, 2 changes, 2 rooms, 1 failure; a page that makes a longer text of one and another letter of a second | 2,427,554 | a room after another with events left, a change that crosses another, a host's operation that is refused, a read, a save or a send that fails, a document the page shows altered |
| `relay_pages` | texts of up to 2, one character to a chunk and to a relayed insertion, 3 changes, compositions or saves, 1 lost connection; editors that alter one text | 6,366,026 | a snapshot in two parts that others separate, two documents during one composition, typing that is not sent when one arrives, a refused payload, a second join with an old synchronisation on its way |

`MaxEdits`, `MaxPending`, `MaxFailures`, `MaxQueue`, `MaxCommands`, `MaxRequests`,
`MaxFaults`, `MaxStarts`, `MaxSends`, `MaxCuts`, `MaxSilent`, `MaxLosses` and `MaxSaves` bound the
runs and nothing in the code, and so does `MaxRooms` in `RoomAdmission` and `WebViewWindow`; the
theorems hold for all their values. `relay_hub` uses symmetry of the connections, which is sound
because no definition distinguishes them. Runs of systems that may stop (users need not act) do not
look for deadlock; what must not stop is stated as a liveness property instead.

### Fairness

`SyncSession`: the host's window, the session thread and the guest each go on with what has arrived,
which needs no more than that threads run. Users need not type and connections need not break. Nobody
need notice that one did (SendLoop may keep it to itself, ClientLoss.cfg), a session need not end, and
nobody need join again (ReconnectLoop gives up after its last attempt): so `WindowsConverge` speaks of
behaviours in which the guest stays in the room from some time on, and no send failed on a connection
that stayed up. `ClientWorkers`: each thread keeps running. A condition variable may wake up unasked, which the
standard allows and does not promise: `SendWakesUnasked` has no fairness. Time out of a recv is a
step back to the top of the loop; 15 seconds without PONG pass on a silent wire. `RelayHub`:
goroutines keep running and a read on a connection the server closed returns; clients need not
send, read or leave. `RoomAdmission`: the threads of the program run on. Each of their calls returns:
recv and send have timeouts of a second, the handshake is given up after five (sync_server.cpp:94-114),
and accept returns when Stop has closed the listening socket. Guests and announcements have no
fairness, and neither has the window until somebody leaves the room.

## 5. Counterexamples on demand

These configurations are not among the listed runs. Each checks one sentence of the documents that
the code does not keep, and TLC ends with the trace.

| Configuration, module | Property | The sentence | What happens |
|---|---|---|---|
| SyncGuestSkips.cfg, MCSyncSession | `AppliesTakenInOrder` | docs/01-protocol.md:210 | the guest takes its own APPLY even when it skips a revision |
| SyncStaleSnapshot.cfg, MCSyncSession | `GuestRevisionMonotone` | docs/09-error-scenarios.md:63 | SYNC_RESPONSE is sent after the lock is given up; a newer APPLY overtakes it and is then undone |
| SyncLostApply.cfg, MCSyncSession | `GuestNeverLeftBehind` | docs/12-development-checklist.md:345 | an APPLY that could not be sent on a live connection is not sent again (sync_server.cpp:230), and the guest learns of it only by the next one |
| SyncTornReload.cfg, MCSyncSession | `HostReloadsOneRevision` | docs/12-development-checklist.md:311 | RequestFullSync of the host reads document() and revision() under two locks (window.cpp:2005); an edit of the guest between them is counted and not shown |
| WebViewRefused.cfg, MCWebView | `PoliteAgreeAnyway` | docs/13-required-skills.md:305 | a refused insertion of the host: the page gets the document back, the program keeps the refused text (webview_window.cpp:440-441) |
| RelayMarkdown.cfg, MCRelayPages | `GuestSeesDocument` | docs/12-development-checklist.md:311 | the guest's editor writes a pasted line otherwise than the host sent it (app.js:561, 762-805, 936-966) |
| SyncRefusedInsert.cfg, MCSyncSession | `HostShowsServerDocument` | docs/13-required-skills.md:305 | the server refuses an operation of the host; the editor is reloaded and last_known_text_ then set to the refused text |
| ClientLoss.cfg, MCClientWorkers | `LossIsNoticed` | docs/04-threading-and-state.md:95 | a loss first seen by SendLoop is reported by nobody |
| ClientLeave.cfg, MCClientWorkers | `LeavingEnds` | docs/04-threading-and-state.md:5 | a notification between SendLoop's test and its wait is lost, and the window waits for ever |
| RoomHalfOpen.cfg, MCRoomAdmission | `SilentPeerIsDropped` | docs/07-networking.md:143, docs/01-protocol.md:270 | the server takes a timeout of recv for silence and keeps the slot of a peer that vanished (sync_server.cpp:389-396); only the client counts to fifteen |
| TwoPrograms.cfg, MCTwoPrograms | `CurrentIsOneText` | docs/12-development-checklist.md:119 and 214 | two programs share current.tmp; one moves what the other one has half written (storage.cpp:116) |

## 6. Proofs

All theorems hold for every value of the constants that satisfies the modules' `ASSUME`s.

| Module | Proves | Inductive invariant |
|---|---|---|
| `EditorDiffProofs` | `DiffReplays`: the operations of a diff are accepted one after the other and give the new text; a text cut into pieces is the pieces put together (`PiecesJoin`); what the elements of a queue are after Append, Tail, ... | none (pure) |
| `EditingProofs`, for `EditReplay` | ReplayTypeOK, NoOperationRefused, ReplicaCatchesUp, SelectionKeepsItsPlace | ReplayTypeOK, the pending operations replay from the replica to the author's text, the selection is in the text |
| `EditingProofs`, for `WebViewWindow` | TypeOK, DiskFollowsKnown, PoliteAgree | DiskFollowsKnown; TypeOK with the type of `chunks` (`Typed`), PoliteInv |
| `SyncSessionProofs` | TypeOK, LogExplainsDocument, AppliesMatchLog, WindowsNeverAhead, HostRevisionMonotone, GuestEditsReachHostQueue, FullSyncInstallsServerText; with users who take turns and changes that fit, HostShowsServerDocument and GuestShowsServerDocument (the second says nothing once a send failed on a live connection) | TypeOK, PcOK, RevsOK, LogExplainsDocument, AppliesMatchLog; QueueInv; ChunksInv; for the windows OperationsAccepted, HostFollows, GuestInv |
| `ClientWorkersProofs` | TypeOK, OneCallAtATime and the five safety properties of `client_workers` | TypeOK, CallersOK, FlagsOK, CallsOK, QuietOK, NoFrameAcrossConnections |
| `RelayHubProofs` | TypeOK, NoEmptyRoomInTable and the other four safety properties of `relay_hub` | those, with HandlersOK, RoomsOK, NoChannelNoMessage |
| `NativeTabsProofs` | TypeOK, CleanIsOnDisk and the refinement StorageIsDurable | TextsOK, StepsOK, WindowOK, FlagsOK, SavingOK, CleanIsOnDisk |
| `ConnectionProofs`, for `RoomAdmission` | TypeOK, SlotFollowsSession, HandlesClosedOnce, AdmittedKnowsCode, AnnouncedIsOpen | HostTypes, FlagTypes, ConnTypes, StageOK, SlotFollowsSession, HandlesOK, AdmittedKnowsCode, AirOK |
| `ConnectionProofs`, for `FrameStream` | `RoundTrip`: DeserializeMessage undoes SerializeMessage; StreamTypeOK, DeliveredInOrder, GivesUpOnlyOverLongFrames, NothingLeftBehind | FramesInv: Served, Bounds, OnTheWay, GivesUpOnlyOverLongFrames |
| `RelayPagesProofs` | StreamTellsHistory, ReaderFollows, PoliteAgree | PagesInv, StreamInv, HeldInv; ReaderInv; PoliteInv |

Premises that are not in a module's `ASSUME`s are in the property or in the theorem's statement: users
who take turns and changes that fit (`SyncSession`), users who are polite (`WebViewWindow`,
`RelayPages`), operations that are accepted and sent (`carried`, `unsent`), and in `RelayPages`
editors that give every text back as it was (`AsGiven`). Where the code breaks without a premise a
configuration of section 5 shows it.

*Diff.* Prefix and suffix do not overlap, so the middle parts are well defined; deleting the old
middle leaves prefix and suffix, and inserting the new one gives the new text. As the DELETE comes
first no intermediate text is longer than both. *EditReplay* carries `Replays(replica, pending,
author)` along: a change extends it at the end by `DiffReplays`, a step consumes its head. *SyncSession*:
a commit is the only step that changes document, revision and log, and it appends to all; every
other step moves a message that agrees with the log from one place to another. `PcOK` says what a
thread between two of its steps still holds, and `RevsOK` that no window or message is ahead of the
log. Type correctness is more than typing there: it includes that the document never exceeds its
limit whoever edits. `QueueInv` adds that nothing but the guest's edits is reported to the host's
window, whose revision therefore moves past one of them only when it handles it or reloads; `ChunksInv`
that every chunk on its way, and every part the guest holds under a revision, is cut from that revision's document, so parts
of two synchronisations are never put together, and the chunk that completes one installs that document
whatever the guest showed before. The windows agree with the server only if users take
turns and the server refuses nothing: `HostShowsDocument` and `GuestShowsDocument` assume
`TurnTaking` and that no change inserts more than `MaxInsertChars` at once (`HostChangesFit`,
`GuestChangesFit`). The code needs the second one: an insertion of more than 32 Ki characters is
refused although the document takes 5 Mi (sync_server.cpp:23 and 593), and SyncRefusedInsert.cfg
shows the host's window wrong after it. Every behaviour of `sync_turns` meets both. `HostFollows`
then says that between two changes the host lacks exactly what the queue holds, and that during one
the operations left replay to what was typed; `GuestInv` chains the messages on their way to the
guest, each beginning where the one before it ends, through connecting, joining, asking and being
sent the document. It holds as long as no send failed on a live connection, and speaks of nothing
afterwards. *RelayPages*: the frames between host and guest, those the relay has passed on
before those it has not, are one stream; it is true of history, and no revision in it goes back
(`StreamInv`), also over the lost connection, whose frames the relay drops. The guest holds nothing
newer than that stream (`HeldInv`). For a guest that only reads there is a place in the stream from
which only the host's operations lead, one revision each, to the revision it has now, while the
document they start from is shown already, or each of its chunks is in the page or before that place
(`ReaderInv`, which like `PoliteInv` is about editors that give texts back as they were; what the
editors do otherwise is any function, and the stream is true of history all the same). A change made in an earlier connection cannot break this: it is before PEER_JOINED in
the host's queue, so the host answers with its document afterwards. Of two users
who wait for each other, `PoliteInv` says in which of five phases the guest is: its PEER_JOINED is on
its way and it has nothing of its own (`Waits`); it is going to show the host's document, or composes
over the one it sent itself (`Reads`); its user has typed what is not sent (`Writes`); its operations
go to the host and come back (`Operating`); or the chunks of its document go there (`Sends`). Only in
the last two is a change on its way to the host, and the host is at rest then; a lost connection
leaves of it one change or a part of one, before PEER_JOINED (`Left`). Once nothing is under way and
both pages are at rest, every phase that is still possible says that editor, shared text and revision
are the host's. *ClientWorkers*: who may be inside Connect or Disconnect follows from `reconnecting_`,
`reconnect_stop_` and the joins (`CallersOK`); `FlagsOK` ties `connected_` and
`stopping_` to the workers' counters; together they give that the workers have ended when a socket
is opened, and that the queue stays empty until `connected_` is set again. *RelayHub*: under
`PeersKnowTheirRoom` the members of a room are exactly the peers that point at it; a room is created
once in a peer's life (`RoomsOK`), so a new room has neither members nor an entry; and a room that
expired has left the table, so whoever deletes by its code can only hit a room that the third case of
`LiveRoomReachable` names. What is posted and what is owed are the same messages because of the
first fact. *NativeTabs*: the window waits in SaveCurrent, so a program with a text `wanted` shows
that text in its first tab, and `current.tmp` holds it whole when it is moved (`SavingOK`); of the
programs in `Instance` only this window's saves. Each step of the window is
then a step of `DurableDocument` or leaves `Reading(current)` and `wanted` alone. A start that could
not read the file shows an empty first tab without a mark, and `unread` stays until a save succeeds.
*RoomAdmission*:
whoever is behind the slot in HandleClient is `peer` unless `stopping_` is set, and when the window
leaves Stop no thread runs (`StageOK`); so a room begins without threads of an earlier one, which is what
`AdmittedKnowsCode` rests on. *WebViewWindow*: every step that changes `known` saves it
in the same step, sets `unsaved` if that fails, or takes it from current.txt (`PostInitialState`), or
empties it when that cannot be read: `FileFollowsProgram`. `PoliteInv` is about a user who begins
nothing while anything is under way, and holds while every operation is carried: then what is typed waits for the timer or is the one message to the program, or what the page is going
to show is `known` (`PageInv`); while the user has begun something the room is idle (`Busy`, `Idle`).
A host's window agrees with the server or lacks exactly the operation announced to it (`HostInStep`). A
guest's has still to ask for the document (`Asks`), holds the first k chunks of it and the others are
on their way (`Receives`), waits for its own operations, of which those the host has not seen lead to
what the window shows and the others come back in order (`AwaitsOwn`), lacks one operation of the
host (`AwaitsPeers`), or has lost the room (`GuestAlone`); the events of a loss may stand before all
of these, because a room can be joined before they are handled.

*FrameStream*: a parser that has read a text with its escapes stands behind it with that text, one that
has read the digits of a number with that number (`DecimalReads`, by the digits from the first), and
UTF-8 changes neither; field by field this gives `RoundTrip`, and that no shorter part of a payload is a
whole object. Where no send failed, buffer and wire together are the frames of the messages not yet
received (`Way`), so TryReadFrame finds the length and the payload of the next one wherever recv has cut
them. Once a send has failed, buffer and wire begin with the frames of the messages before it, as far as
they were not received; nothing is said of the bytes behind them. None of this is induction over data: a run of the parser over n bytes is a function on 0..n, and if
something failed it would fail at a least place (`UpTo`).

Only model-checked: the liveness properties (WindowsConverge, ClosingEnds, StopEnds, and two of
section 5), which the prover does not reach, and what the configurations of section 5 refute. Every
invariant and action property of the listed runs is a theorem.

## 7. Not modelled

* **Configuration** is read once before any other part runs, **start-up and self-installation** are
  calls into the operating system one after the other, **logging and paths** pure output. Of **Markdown
  and appearance** the models have one thing, that a text given to the page may come back altered
  (`Loaded`), and none of the rules of parseMarkdown and serializeEditor: which texts do is a constant.
  Shortcuts reach the synchronisation as one more edit, formats and colours not at all.
* The creation of the WebView2 control, what its JSON does to characters, and status texts. Several
  tabs of the page; in `RelayPages` also a lost connection of the host, and the caret.
* PING of `SyncServer` (a reply without a change of state), `session.log`, the second client's id.
* The rate limit, payload checks but the one of an APPLY's text, framing, TLS and HTTP headers of the
  relay: a refusal changes nothing the properties talk about. `owed` shows that refusals disturb
  nobody else.
* `SyncSession` lets a guest read nothing behind a frame that was cut; that its decoder might make one
  message of the halves of two is left out there and left open by `FrameStream`. `WebViewWindow` has no
  part of a frame: a send fails as a whole, or the connection breaks.
* Revisions are natural numbers: a 64-bit revision is not exhausted by typing. Two sends on one
  socket write one after the other, as a blocking Winsock send does; frames of the two threads that
  write to it do not mix inside.

### Met while modelling, without a run of their own

LAN session and rooms:

* `docs/01-protocol.md:284` has the guest show an ERROR and ask for a full synchronisation if it is
  needed; HandleSyncEvent only shows it (`window.cpp:1750-1755`), and `SyncSession` follows the code.
* JOIN_OK always carries revision 0 (`sync_server.cpp:460`, against `docs/01-protocol.md:110`); the
  server does not check a reconnect token (against `docs/07-networking.md:160`).
* ReconnectLoop waits 1, 2, 4, 8 and then 8 seconds, `docs/04-threading-and-state.md:129-132` says 1,
  2, 3, 5; edits made while offline are not queued (line 137), and edits may precede the
  SYNC_REQUEST after a rejoin (line 138).
* A Disconnected event that is handled before ReconnectLoop has reset `reconnecting_` is dropped.
* A connection that is reset before it is accepted ends AcceptLoop (`sync_server.cpp:309-314`,
  `AcceptFails`): the room stays open and announced, and admits nobody. `failed_join_count_` is not
  reset while the room is open, and the threads of ended connections are kept until Stop.

Files and tabs:

* SwitchToTab sets `dirty_` to the flag of the tab it shows. An edit of the first tab whose timer runs
  out in another tab is not saved then, and not by WM_CLOSE either (`window.cpp:2028-2038`, against
  `docs/12-development-checklist.md:112`); only the tab's own flag still knows (`CleanIsOnDisk`).
* A failed autosave is not tried again. A `current.txt` that cannot be read is shown as an empty
  document (`window.cpp:1340-1344`, `webview_window.cpp:773-777`), which the next save puts in its
  place (`unread` in `NativeTabs` and `WebViewWindow`). LoadCurrent never looks at `current.tmp`
  (`storage.cpp:49-85`, against `docs/06-storage-recovery.md:102-113`).
* WM_IME_... messages go to the edit control, so the window's `ime_composing_` is never set.

Frames:

* FrameDecoder::Append refuses what would exceed one largest frame (`protocol.cpp:434-444`), although
  one recv may return the end of one legal frame and the next; `docs/01-protocol.md:22` limits the
  frame only. `GivesUpOnlyOverLongFrames` says how close to the limit a frame must be.
* The first bad frame ends the connection; `docs/01-protocol.md:24-25` ignores five.
* An insertion whose UTF-8 is longer than a frame, or which holds an unpaired surrogate, is committed
  and cannot be sent to the guest; nothing is sent again (SyncLostApply.cfg).
* A document in which a surrogate pair lies across two chunks cannot be sent (`sync_server.cpp:500-515`):
  each SYNC_REQUEST then ends the session. `SyncSession` has that as connections that break.
* What follows a frame that was cut short can be a message nobody sent, if a length happens to be the
  end of a text and an object (a payload of 8829 bytes).

WebView window:

* An operation of a host that is refused makes RequestFullSync install the server's document, and
  last_known_text_ is then set to the page's text (`webview_window.cpp:440-441`). createRoom takes a
  document over the limit.
* With several tabs the page posts the active tab's text, and the program saves that as `current.txt`;
  nothing forbids switching while sharing (against `docs/14`:23, `docs/02`:48, `docs/12`:41).
* The event queues are not cleared between rooms; a failed join after a hosted room leaves the role
  Host; a lost connection is only shown; nothing is saved by closing within 0.7 s of a change.
* The page that is shipped never sends createRoom or joinRoom, which `docs/15`:60 and 83-90 describe.

Relay pages:

* A pasted line that the page writes otherwise ("10. b", "* a", "-----", a fence with a language) makes
  the guest's editor differ from `relayLastText`, and later operations are placed in the altered text
  (`app.js:616-624`).
* The host's unsent typing is replaced by an operation of the guest (`app.js:590-602`); the guest's own
  APPLY moves `relayLastText` over what was typed since, which is then never sent (604-616).
* Of two documents that arrive during a composition only the last one is shown; a snapshot that the
  host receives while it composes is undone by the end of the composition.
* A host's insertion over the relay's limit is refused by the relay, and the guest sees no gap until the
  next APPLY fails to fit.
* The relay's README (line 148) accepts unknown message types; readLoop answers them with an ERROR
  (`relay-server/main.go:317-319`).
