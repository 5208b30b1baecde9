------------------------------ MODULE NativeTabs ------------------------------
(*****************************************************************************)
(* The native window (MainWindow) as an editor of local tabs: the document   *)
(* is loaded at the start, an edit marks the tab and sets the autosave       *)
(* timer, and only the first tab belongs to current.txt.                     *)
(*                                                                           *)
(* The window's thread does all of it, and waits in SaveCurrent: until a     *)
(* save returns no other message is handled. Outside a handler the editor    *)
(* shows last_known_text_, so one variable stands for both (an edit that     *)
(* makes the document too large is put back within its handler); line ends   *)
(* are those of the control. Markdown shortcuts are further edits. WM_IME_*  *)
(* go to the edit control, not to this window: ime_composing_ stays false.   *)
(* While a room is open the window's text also changes by what arrives, and  *)
(* tabs cannot be changed.                                                   *)
(*                                                                           *)
(* MaxStarts bounds the starts of the program.                               *)
(*****************************************************************************)
EXTENDS DocumentStorage

CONSTANTS Here,            \* the program of this window
          MaxTabs,         \* kMaxTabs
          MaxStarts

ASSUME TabsAssumption ==
    /\ Here \in Instance
    /\ MaxTabs \in Nat \ {0} /\ MaxStarts \in Nat

VARIABLES phase,       \* "closed", "open", or "closing": WM_CLOSE waits for the save
          tabs,        \* tabs_
          active,      \* active_tab_index_ + 1
          editor,      \* the text of the edit control, and last_known_text_
          dirty,       \* dirty_
          timer,       \* the autosave timer is set
          sharing,     \* sync_role_ is not Offline
          starts,      \* starts of this program so far
          unread       \* history: this start could not read current.txt, and nothing
                       \* has been saved since

winVars == <<phase, tabs, active, editor, dirty, timer, sharing>>
vars == <<storeVars, winVars, starts, unread>>

Tab == [content : Seq(Unit), dirty : BOOLEAN]

Init ==
    /\ StoreInit
    /\ phase = "closed" /\ tabs = <<>> /\ active = 1 /\ editor = <<>>
    /\ dirty = FALSE /\ timer = FALSE /\ sharing = FALSE
    /\ starts = 0 /\ unread = FALSE

\* LoadInitialDocument and InitializeTabs. LoadCurrent may also fail on a file that can
\* be decoded (the directory, or opening it); an empty document is shown then. (A file
\* that opens is read to its end here.)
Start ==
    /\ phase = "closed" /\ starts < MaxStarts
    /\ phase' = "open" /\ starts' = starts + 1
    /\ \/ Readable(current) /\ editor' = LoadCurrent(current) /\ unread' = FALSE
       \/ editor' = <<>> /\ unread' = TRUE
    /\ tabs' = <<[content |-> editor', dirty |-> FALSE]>>
    /\ active' = 1 /\ dirty' = FALSE /\ timer' = FALSE /\ sharing' = FALSE
    /\ UNCHANGED storeVars

\* The window handles a message.
Free == phase = "open" /\ step[Here] = "idle"

\* The editor gets a new text and it is to be saved: ProcessEditorChange, and, with the
\* tabs as they are, ApplyFullSyncDocument, RequestFullSync and ApplySyncApply.
ShowNew(t) ==
    /\ editor' = t
    /\ tabs' = [tabs EXCEPT ![active] = [content |-> t, dirty |-> TRUE]]
    /\ dirty' = TRUE /\ timer' = TRUE
    /\ UNCHANGED <<storeVars, phase, active, sharing, starts, unread>>

Edit(t) == Free /\ t # editor /\ ShowNew(t)

\* A message of the room. Its text may be the one shown already.
Receive(t) == Free /\ sharing /\ ShowNew(t)

\* HandleCreateRoom, HandleJoinRoom; HandleLeaveRoom.
Share == Free /\ sharing' = ~sharing
              /\ UNCHANGED <<storeVars, phase, tabs, active, editor, dirty, timer, starts, unread>>

\* SyncActiveTabFromEditor
SyncedTabs == [tabs EXCEPT ![active] = [content |-> editor, dirty |-> dirty]]

\* SwitchToTab, which HandleNewTab ends with.
Activate(i, ts) ==
    /\ Free /\ ~sharing
    /\ tabs' = ts /\ active' = i
    /\ editor' = ts[i].content /\ dirty' = ts[i].dirty
    /\ UNCHANGED <<storeVars, phase, timer, sharing, starts, unread>>

\* A slip: the flag of the tab that is left is not kept.
SwitchForgetsFlag(i) == Activate(i, [tabs EXCEPT ![active].content = editor, ![active].dirty = FALSE])

SwitchToTab(i) == Activate(i, SyncedTabs)

OpenTab == Activate(Len(tabs) + 1, Append(SyncedTabs, [content |-> <<>>, dirty |-> FALSE]))

\* A slip: off by one.
NewTabPastLimit == Len(tabs) <= MaxTabs /\ OpenTab

\* HandleNewTab
NewTab == Len(tabs) < MaxTabs /\ OpenTab

-----------------------------------------------------------------------------
(* Saving.                                                                   *)

\* SaveEditorContent of a window that is dirty or not: what it leaves if it does not
\* come to a save: nothing, or the tab brought up to date. ph is the phase afterwards
\* and dirt the flag it finds.
SaveEditorContent(dirt, ph) ==
    /\ dirty' = dirt
    /\ IF dirt /\ active = 1 /\ Accepts(editor)
         THEN BeginSave(Here, editor) /\ tabs' = tabs
         ELSE /\ tabs' = IF dirt /\ active > 1
                           THEN [tabs EXCEPT ![active] = [content |-> editor, dirty |-> dirt]]
                           ELSE tabs
              /\ UNCHANGED storeVars
    /\ phase' = IF ph = "closing" /\ step'[Here] = "idle" THEN "closed" ELSE ph
    /\ UNCHANGED <<active, editor, sharing, starts, unread>>

\* WM_TIMER: the timer is killed and the editor saved.
Autosave == Free /\ timer /\ timer' = FALSE /\ SaveEditorContent(dirty, "open")

\* The save command marks the document and saves it; the timer goes on.
SaveCommand == Free /\ UNCHANGED timer /\ SaveEditorContent(TRUE, "open")

\* WM_CLOSE
Close == Free /\ timer' = FALSE /\ SaveEditorContent(dirty, "closing")

Returned == phase' = IF phase = "closing" THEN "closed" ELSE phase

\* SaveCurrent succeeds.
Saved ==
    /\ ReplaceCurrent(Here)
    /\ dirty' = FALSE
    /\ tabs' = [tabs EXCEPT ![1] = [content |-> editor, dirty |-> FALSE]]
    /\ unread' = FALSE
    /\ Returned
    /\ UNCHANGED <<active, editor, timer, sharing, starts>>

\* SaveCurrent fails: no flag changes, and nothing asks for another try.
NotSaved ==
    /\ FailSave(Here)
    /\ Returned
    /\ UNCHANGED <<tabs, active, editor, dirty, timer, sharing, starts, unread>>

Saving == SaveStep(Here) /\ UNCHANGED <<winVars, starts, unread>>

\* The program is killed, in a save or not.
Crash ==
    /\ phase # "closed"
    /\ phase' = "closed"
    /\ IF step[Here] = "idle" THEN UNCHANGED storeVars ELSE FailSave(Here)
    /\ UNCHANGED <<tabs, active, editor, dirty, timer, sharing, starts, unread>>

Next ==
    \/ Start
    \/ \E t \in Text : Edit(t) \/ Receive(t)
    \/ Share
    \/ \E i \in 1..Len(tabs) : SwitchToTab(i)
    \/ NewTab
    \/ Autosave \/ SaveCommand \/ Close
    \/ Saving \/ Saved \/ NotSaved
    \/ Crash

Spec == Init /\ [][Next]_vars

-----------------------------------------------------------------------------
(* Properties.                                                               *)

TypeOK ==
    /\ current \in File /\ temp \in File
    /\ step \in [Instance -> {"idle", "open", "write", "replace"}]
    /\ wanted \in [Instance -> Seq(Unit) \cup {NoText}]
    /\ \A i \in Instance : step[i] = "idle" <=> wanted[i] = NoText
    /\ phase \in {"closed", "open", "closing"}
    /\ tabs \in Seq(Tab) /\ Len(tabs) <= MaxTabs
    /\ active \in Nat \ {0} /\ (phase # "closed" => active <= Len(tabs))
    /\ editor \in Seq(Unit) /\ {dirty, timer, sharing} \subseteq BOOLEAN
    /\ starts \in 0..MaxStarts /\ unread \in BOOLEAN

\* The text and the flag of the first tab, wherever they are kept just now.
FirstText == IF active = 1 THEN editor ELSE tabs[1].content
FirstDirty == IF active = 1 THEN dirty ELSE tabs[1].dirty

\* A first tab that is not marked is on the disk: through tab switches, refused and
\* failed saves, rooms and crashes, no text of it is unsaved without dirty_ or the
\* tab's flag saying so, on which the next save (window.cpp:2028) depends. Only where
\* the start could not read the file, an empty tab is unmarked whatever the file
\* holds, and that until the first save.
CleanIsOnDisk ==
    phase = "open" /\ ~FirstDirty =>
        IF unread THEN FirstText = <<>>
        ELSE /\ Readable(current)
             /\ LoadCurrent(current) \in {FirstText, WithoutMark(FirstText)}

\* SaveCurrent keeps what DurableDocument promises: whatever fails and whenever the
\* program dies, a start reads the document as it was or a whole text being saved
\* (docs/12: a failure while saving does not damage current.txt).
StorageIsDurable == Durable!Spec
=============================================================================
