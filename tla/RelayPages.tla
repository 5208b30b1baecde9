------------------------------ MODULE RelayPages ------------------------------
(*****************************************************************************)
(* Two pages of ui/app.js that share a document over the relay: one hosts    *)
(* the room and numbers the revisions, the other is its guest.  The relay    *)
(* between them is RelayHub's promise: what a peer sends reaches the other   *)
(* in order, if the other is in the room when the relay comes to it, and     *)
(* unless the relay refuses the payload.                                     *)
(*                                                                           *)
(* The editor is a page of Markdown blocks: a text is parsed into them and   *)
(* written from them, and some texts come back altered ("10. b" as "1. b",   *)
(* "* a" as "- a", a code fence without its language).  Written says which   *)
(* ones and how; nothing else is assumed of it.                              *)
(*                                                                           *)
(* A page handles one event at a time, to its end.  Its editor may hold more *)
(* than it has shared (relayLastText): changes are sent when a timer runs    *)
(* out or the user saves.  While an IME composes, a document that arrives    *)
(* waits for the end of the composition and is then shown by a timer of its  *)
(* own.                                                                      *)
(*                                                                           *)
(* The room exists from the start and its host stays; a guest joins, loses   *)
(* its connection and joins again.  The program below the page, which saves  *)
(* what the page posts, is WebViewWindow; the page has one tab.              *)
(*                                                                           *)
(* history is the document of every revision.  polite is TRUE as long as     *)
(* nobody types or joins while the other's change is under way and the relay *)
(* refuses nothing.  follows tells whether this connection's guest has only  *)
(* read so far and, if so, whether it got the document already.  MaxEdits    *)
(* bounds the changes, compositions and saves, MaxLosses lost connections.    *)
(*****************************************************************************)
EXTENDS EditorDiff

OnSeq == INSTANCE SequencesExt

CONSTANTS RelayChunkSize,    \* relayChunkSize
          MaxRelayText,      \* maxRelayTextBytes: the relay refuses a longer text
          HostTexts,         \* what the host's editor may hold at first
          GuestTexts,        \* what the guest's may
          TypedTexts,        \* the texts users type
          Written,           \* what the page makes of the texts it does not write back as given
          MaxEdits, MaxLosses

ASSUME RelayPagesAssumption ==
    /\ RelayChunkSize \in Nat \ {0} /\ MaxRelayText \in Nat /\ RelayChunkSize <= MaxRelayText
    /\ HostTexts \cup GuestTexts \cup TypedTexts \subseteq Text
    /\ \A text \in DOMAIN Written : Written[text] \in Seq(Char)
    /\ MaxEdits \in Nat /\ MaxLosses \in Nat

VARIABLES
    host, guest,         \* the two pages
    toHub, toGuest,      \* from the host to the relay, from there to the guest
    toHost,              \* from the guest and the relay to the host
    history, polite, follows,
    edits, losses

channels == <<toHub, toGuest, toHost>>
bounds == <<edits, losses>>
vars == <<host, guest, channels, history, polite, follows, bounds>>

NoChunks == [rev |-> 0, parts |-> <<>>]

\* A page: what the user sees, relayLastText and relayRevision, relayTimer, editorComposing,
\* pendingRelayDocument, the documents a setTimeout shows, and the chunks received; asGiven
\* as long as its editor has given every text back as it was.
Page(role, text) ==
    [role |-> role, editor |-> text, last |-> text, rev |-> 0, timer |-> FALSE,
     composing |-> FALSE, pending |-> <<>>, deferred |-> <<>>, chunks |-> NoChunks, asGiven |-> TRUE]

Init ==
    /\ \E text \in HostTexts : host = Page("host", text) /\ history = <<text>>
    /\ guest \in {Page("offline", text) : text \in GuestTexts}
    /\ toHub = <<>> /\ toGuest = <<>> /\ toHost = <<>>
    /\ polite \in BOOLEAN /\ follows = "no" /\ edits = 0 /\ losses = 0

-----------------------------------------------------------------------------
(* What the handlers of both pages are made of.                              *)

\* chunkText, with what is sent of each chunk.
Parts(type, rev, text) ==
    LET count == IF text = <<>> THEN 1 ELSE (Len(text) + RelayChunkSize - 1) \div RelayChunkSize
    IN  [k \in 1..count |->
            [type |-> type, rev |-> rev, index |-> k, count |-> count,
             text |-> SubSeq(text, (k - 1) * RelayChunkSize + 1,
                             IF k < count THEN k * RelayChunkSize ELSE Len(text))]]

\* The chunks a page holds once it has received m.
Collected(p, m) ==
    LET parts == IF p.chunks.rev = m.rev /\ Len(p.chunks.parts) = m.count
                   THEN p.chunks.parts ELSE [k \in 1..m.count |-> <<>>]
    IN  [rev |-> m.rev, parts |-> [parts EXCEPT ![m.index] = <<m.text>>]]

Complete(chunks) == \A k \in 1..Len(chunks.parts) : chunks.parts[k] # <<>>
Joined(chunks) == OnSeq!FlattenSeq([k \in 1..Len(chunks.parts) |-> chunks.parts[k][1]])

\* parseMarkdown and serializeEditor: the text an editor holds that was given this one.
Loaded(text) == IF text \in DOMAIN Written THEN Written[text] ELSE text

\* applyRelayDocument
Shown(p, text) ==
    IF p.composing THEN [p EXCEPT !.pending = <<text>>]
    ELSE [p EXCEPT !.editor = Loaded(text), !.asGiven = @ /\ text \notin DOMAIN Written]

\* scheduleRelaySync
Scheduled(p) == [p EXCEPT !.timer = @ \/ (p.role \in {"host", "guest"} /\ ~p.composing)]

Typed(p, text) == Scheduled([p EXCEPT !.editor = text])

\* compositionend
Composed(p) == Scheduled([p EXCEPT !.composing = FALSE, !.deferred = @ \o p.pending, !.pending = <<>>])

\* The timer that compositionend set.
ShownLate(p) == Shown([p EXCEPT !.deferred = Tail(@)], Head(p.deferred))

\* applyRelayOperation returns null unless the operation lies in the text.
Fits(text, op) == op.pos + (IF op.type = "DELETE" THEN op.len ELSE 0) <= Len(text)

\* Nothing that arrived waits to be shown; no change of the page's user is under way either.
NothingWaits(p) == p.pending = <<>> /\ p.deferred = <<>>
AtRest(p) == NothingWaits(p) /\ ~p.timer /\ ~p.composing

\* A polite user waits for the other one's changes, and sees them, before changing anything.
Changes(channel) == \E k \in 1..Len(channel) : channel[k].type \in {"EDIT", "DOCUMENT_SNAPSHOT"}
HostMayType == NothingWaits(host) /\ AtRest(guest) /\ ~Changes(toHost)
GuestMayType ==
    \/ guest.role = "offline"
    \/ NothingWaits(guest) /\ AtRest(host) /\ toHub = <<>> /\ toGuest = <<>> /\ toHost = <<>>

-----------------------------------------------------------------------------
(* The page of the host.                                                     *)

\* The host goes on as p, sends the frames, and has given out revisions for texts.
HostBecomes(p, frames, texts) ==
    /\ host' = p /\ toHub' = toHub \o frames /\ history' = history \o texts
    /\ UNCHANGED <<guest, toGuest>>

Apply(rev, client, op) == [type |-> "APPLY", rev |-> rev, client |-> client, op |-> op]

\* A slip: what the host typed meanwhile is sent under the revision there is.
SendRelayFullSyncUncounted(p, texts) ==
    LET q == [p EXCEPT !.last = p.editor]
    IN  HostBecomes(q, Parts("SYNC_RESPONSE", q.rev, q.last), texts)

\* sendRelayFullSync of the page p: what was typed and not sent yet makes a revision.
SendRelayFullSync(p, texts) ==
    LET unsent == p.editor # p.last
        q == IF unsent THEN [p EXCEPT !.rev = @ + 1, !.last = p.editor] ELSE p
    IN  HostBecomes(q, Parts("SYNC_RESPONSE", q.rev, q.last), IF unsent THEN Append(texts, q.last) ELSE texts)

\* flushRelayLocalChange and sendRelayApply
HostFlushes(p) ==
    LET ops == ComputeEditorDiff(p.last, p.editor)
    IN  HostBecomes([p EXCEPT !.last = p.editor, !.rev = @ + Len(ops)],
                    [k \in 1..Len(ops) |-> Apply(p.rev + k, "A", ops[k])],
                    [k \in 1..Len(ops) |-> IF k = Len(ops) THEN p.editor ELSE Applied(p.last, ops[k])])

\* applyRelayPeerOperation
HostApplies(p, op) ==
    IF Fits(p.last, op)
      THEN LET text == Applied(p.last, op)
           IN  HostBecomes(Shown([p EXCEPT !.last = text, !.rev = @ + 1], text),
                           <<Apply(p.rev + 1, "B", op)>>, <<text>>)
      ELSE SendRelayFullSync(p, <<>>)

\* receiveRelaySnapshot
HostCollects(p, m) ==
    LET chunks == Collected(p, m)
        text   == Joined(chunks)
    IN  IF Complete(chunks)
          THEN SendRelayFullSync(Shown([p EXCEPT !.chunks = [chunks EXCEPT !.parts = <<>>],
                                                 !.rev = @ + 1, !.last = text], text), <<text>>)
          ELSE HostBecomes([p EXCEPT !.chunks = chunks], <<>>, <<>>)

\* handleRelayMessage and handleRelayPayload of the host
HostHandles ==
    /\ toHost # <<>> /\ toHost' = Tail(toHost)
    /\ LET m == Head(toHost)
       IN  CASE m.type \in {"PEER_JOINED", "SYNC_REQUEST"} -> SendRelayFullSync(host, <<>>)
             [] m.type = "EDIT"                            -> HostApplies(host, m.op)
             [] m.type = "DOCUMENT_SNAPSHOT"               -> HostCollects(host, m)
    /\ UNCHANGED <<polite, follows, bounds>>

HostTypes(text) ==
    /\ edits < MaxEdits /\ edits' = edits + 1
    /\ polite => HostMayType
    /\ text # host.editor /\ HostBecomes(Typed(host, text), <<>>, <<>>)
    /\ UNCHANGED <<toHost, polite, follows, losses>>

HostComposes ==
    /\ ~host.composing /\ edits < MaxEdits /\ edits' = edits + 1
    /\ polite => HostMayType
    /\ HostBecomes([host EXCEPT !.composing = TRUE], <<>>, <<>>)
    /\ UNCHANGED <<toHost, polite, follows, losses>>

\* saveNow sends what is typed at once; with relayTimer set it is that timer, early.
HostSaves ==
    /\ ~host.timer /\ host.editor # host.last
    /\ edits < MaxEdits /\ edits' = edits + 1
    /\ HostFlushes(host)
    /\ UNCHANGED <<toHost, polite, follows, losses>>

\* compositionend; the timer it sets; relayTimer.
HostGoesOn ==
    /\ \/ host.composing /\ HostBecomes(Composed(host), <<>>, <<>>)
       \/ host.deferred # <<>> /\ HostBecomes(ShownLate(host), <<>>, <<>>)
       \/ host.timer /\ HostFlushes([host EXCEPT !.timer = FALSE])
    /\ UNCHANGED <<toHost, polite, follows, bounds>>

-----------------------------------------------------------------------------
(* The relay.                                                                *)

Accepted(m) == m.type # "APPLY" \/ m.op.type = "DELETE" \/ Len(m.op.text) <= MaxRelayText

\* relayPayload: what is refused, or sent while there is no guest, goes nowhere.
HubRelays ==
    /\ toHub # <<>> /\ toHub' = Tail(toHub)
    /\ LET m == Head(toHub)
           present == guest.role # "offline"
       IN  /\ toGuest' = IF present /\ Accepted(m) THEN Append(toGuest, m) ELSE toGuest
           /\ polite' = (polite /\ (present => Accepted(m)))
           /\ follows' = IF present /\ ~Accepted(m) THEN "no" ELSE follows
    /\ UNCHANGED <<host, guest, toHost, history, bounds>>

-----------------------------------------------------------------------------
(* The page of the guest.                                                    *)

GuestBecomes(p, frames) ==
    /\ guest' = p /\ toHost' = toHost \o frames
    /\ UNCHANGED <<host, toHub, history>>

\* joinRelayRoom, and joinRoom of the relay: JOIN_OK goes to the guest, PEER_JOINED to the host.
GuestJoins ==
    /\ guest.role = "offline"
    /\ polite => AtRest(guest)
    /\ GuestBecomes([guest EXCEPT !.role = "joining", !.rev = 0, !.last = guest.editor, !.chunks = NoChunks],
                    <<[type |-> "PEER_JOINED"]>>)
    /\ toGuest' = <<[type |-> "JOIN_OK"]>>
    /\ follows' = IF AtRest(guest) THEN "waits" ELSE "no"
    /\ UNCHANGED <<polite, bounds>>

\* The connection is lost, with what the guest sent last; the page's close handler.
GuestLoses(kept) ==
    /\ guest.role # "offline" /\ losses < MaxLosses /\ losses' = losses + 1
    /\ \A k \in kept + 1..Len(toHost) : toHost[k].type # "PEER_JOINED"
    /\ guest' = [guest EXCEPT !.role = "offline", !.timer = FALSE]
    /\ toHost' = SubSeq(toHost, 1, kept) /\ toGuest' = <<>>
    /\ follows' = "no"
    /\ UNCHANGED <<host, toHub, history, polite, edits>>

\* flushRelayLocalChange: a long insertion goes as a snapshot of the whole text.
GuestFlushes(p) ==
    LET ops   == ComputeEditorDiff(p.last, p.editor)
        large == \E k \in 1..Len(ops) : ops[k].type = "INSERT" /\ Len(ops[k].text) > RelayChunkSize
    IN  GuestBecomes([p EXCEPT !.last = p.editor],
                     IF large THEN Parts("DOCUMENT_SNAPSHOT", p.rev, p.editor)
                              ELSE [k \in 1..Len(ops) |-> [type |-> "EDIT", op |-> ops[k]]])

\* A slip: the text is taken over without its revision.
GuestCollectsUncounted(p, m) ==
    LET chunks == Collected(p, m)
        text   == Joined(chunks)
    IN  IF Complete(chunks)
          THEN /\ GuestBecomes(Shown([p EXCEPT !.chunks = [chunks EXCEPT !.parts = <<>>], !.last = text], text), <<>>)
               /\ follows' = IF follows = "waits" THEN "follows" ELSE follows
          ELSE GuestBecomes([p EXCEPT !.chunks = chunks], <<>>) /\ UNCHANGED follows

\* receiveRelayFullSync
GuestCollects(p, m) ==
    LET chunks == Collected(p, m)
        text   == Joined(chunks)
    IN  IF Complete(chunks)
          THEN /\ GuestBecomes(Shown([p EXCEPT !.chunks = [chunks EXCEPT !.parts = <<>>],
                                               !.last = text, !.rev = m.rev], text), <<>>)
               /\ follows' = IF follows = "waits" THEN "follows" ELSE follows
          ELSE GuestBecomes([p EXCEPT !.chunks = chunks], <<>>) /\ UNCHANGED follows

\* A slip: the guest does not know its own operations.
GuestAppliesAll(p, m) ==
    GuestBecomes(IF m.rev > p.rev /\ Fits(p.editor, m.op)
                   THEN LET text == Applied(p.editor, m.op)
                        IN  Shown([p EXCEPT !.rev = m.rev, !.last = text], text)
                   ELSE p, <<>>)

\* applyRelayApply
GuestApplies(p, m) ==
    IF m.rev <= p.rev THEN GuestBecomes(p, <<>>)
    ELSE IF m.client = "B" THEN GuestBecomes([p EXCEPT !.rev = m.rev, !.last = p.editor], <<>>)
    ELSE IF Fits(p.editor, m.op)
      THEN LET text == Applied(p.editor, m.op)
           IN  GuestBecomes(Shown([p EXCEPT !.rev = m.rev, !.last = text], text), <<>>)
    ELSE GuestBecomes(p, <<[type |-> "SYNC_REQUEST"]>>)

\* handleRelayMessage and handleRelayPayload of the guest
GuestHandles ==
    /\ toGuest # <<>> /\ toGuest' = Tail(toGuest)
    /\ LET m == Head(toGuest)
       IN  CASE m.type = "JOIN_OK" ->
                  /\ GuestBecomes([guest EXCEPT !.role = "guest", !.rev = 0, !.last = guest.editor],
                                  <<[type |-> "SYNC_REQUEST"]>>)
                  /\ UNCHANGED follows
             [] m.type = "SYNC_RESPONSE" -> GuestCollects(guest, m)
             [] m.type = "APPLY" -> GuestApplies(guest, m) /\ UNCHANGED follows
    /\ UNCHANGED <<polite, bounds>>

GuestTypes(text) ==
    /\ edits < MaxEdits /\ edits' = edits + 1
    /\ polite => GuestMayType
    /\ text # guest.editor /\ GuestBecomes(Typed(guest, text), <<>>)
    /\ follows' = "no"
    /\ UNCHANGED <<toGuest, polite, losses>>

GuestComposes ==
    /\ ~guest.composing /\ edits < MaxEdits /\ edits' = edits + 1
    /\ polite => GuestMayType
    /\ GuestBecomes([guest EXCEPT !.composing = TRUE], <<>>)
    /\ follows' = "no"
    /\ UNCHANGED <<toGuest, polite, losses>>

GuestSaves ==
    /\ guest.role = "guest" /\ ~guest.timer /\ guest.editor # guest.last
    /\ edits < MaxEdits /\ edits' = edits + 1
    /\ GuestFlushes(guest)
    /\ UNCHANGED <<toGuest, polite, follows, losses>>

GuestGoesOn ==
    /\ \/ guest.composing /\ GuestBecomes(Composed(guest), <<>>)
       \/ guest.deferred # <<>> /\ GuestBecomes(ShownLate(guest), <<>>)
       \/ guest.timer /\ GuestFlushes([guest EXCEPT !.timer = FALSE])
    /\ UNCHANGED <<toGuest, polite, follows, bounds>>

Next ==
    \/ \E text \in TypedTexts : HostTypes(text) \/ GuestTypes(text)
    \/ HostComposes \/ GuestComposes \/ HostSaves \/ GuestSaves
    \/ HostGoesOn \/ GuestGoesOn
    \/ HostHandles \/ GuestHandles \/ HubRelays
    \/ GuestJoins
    \/ \E kept \in 0..Len(toHost) : GuestLoses(kept)

Spec == Init /\ [][Next]_vars

-----------------------------------------------------------------------------
(* Properties.                                                               *)

\* What the host sends is its history and nothing else, whatever it is interrupted by:
\* an APPLY leads from the revision before it to its own, a SYNC_RESPONSE is a part of
\* the document of its revision, and the newest revision is relayLastText.
StreamTellsHistory ==
    /\ host.rev + 1 = Len(history) /\ host.last = history[Len(history)]
    /\ \A channel \in {toHub, toGuest} : \A k \in 1..Len(channel) :
         LET m == channel[k]
         IN  /\ m.type = "APPLY" => Applied(history[m.rev], m.op) = history[m.rev + 1]
             /\ m.type = "SYNC_RESPONSE" =>
                    m = Parts("SYNC_RESPONSE", m.rev, history[m.rev + 1])[m.index]

\* The editors have given every text back as it was.
AsGiven == host.asGiven /\ guest.asGiven

\* A guest that only reads shows the document of the revision it counts, once it has been
\* synchronised and no full synchronisation is still to come: over APPLYs that came too
\* early, several synchronisations, and whatever was left of the connection before.  The
\* code does not promise it once an editor has altered the text it was given.
ReaderFollows ==
    /\ follows = "follows" /\ AsGiven
    /\ \A k \in 1..Len(toHost) : toHost[k].type # "PEER_JOINED"
    /\ \A channel \in {toHub, toGuest} : \A k \in 1..Len(channel) : channel[k].type # "SYNC_RESPONSE"
    => guest.editor = history[guest.rev + 1]

\* Users who have waited for each other so far, and nothing is under way.
Settled ==
    /\ polite /\ guest.role = "guest"
    /\ AtRest(host) /\ AtRest(guest) /\ toHub = <<>> /\ toGuest = <<>> /\ toHost = <<>>

\* Two users who wait for each other agree as soon as nothing is under way, also after
\* long insertions, compositions, saves in between and lost connections.  Without that
\* the code does not promise it: either page replaces or passes over what its user typed
\* and did not send yet.  Nor does it once an editor has altered the text it was given.
PoliteAgree ==
    Settled /\ AsGiven =>
       /\ host.editor = host.last /\ guest.editor = host.last /\ guest.last = host.last
       /\ guest.rev = host.rev

\* A settled guest sees the document its page takes for the shared one.
GuestSeesDocument == Settled => guest.editor = guest.last
=============================================================================
