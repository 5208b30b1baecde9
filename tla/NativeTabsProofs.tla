--------------------------- MODULE NativeTabsProofs ---------------------------
(***************************************************************************)
(* NativeTabs for any number of tabs, starts and other programs that do    *)
(* not save, and any texts and files: a clean first tab is on the disk,    *)
(* and saving implements DurableDocument.                                  *)
(***************************************************************************)
EXTENDS NativeTabs, TLAPS, SequenceTheorems

\* Every text comes from an editor or from a file.
TextsOK ==
    /\ current \in File /\ temp \in File /\ LoadCurrent(current) \in Text
    /\ editor \in Text
    /\ tabs \in Seq([content : Text, dirty : BOOLEAN])

\* A save that is under way saves what the editor shows, and has current.tmp to itself.
SavingOK ==
    /\ \A i \in Instance \ {Here} : step[i] = "idle"
    /\ step[Here] # "idle" =>
         phase # "closed" /\ active = 1 /\ wanted[Here] = editor /\ Accepts(editor)
    /\ step[Here] = "write" => temp = Utf8(<<>>)
    /\ step[Here] = "replace" => temp = Utf8(editor)

StepsOK ==
    /\ step \in [Instance -> {"idle", "open", "write", "replace"}]
    /\ wanted \in [Instance -> Text \cup {NoText}]
    /\ \A i \in Instance : step[i] = "idle" <=> wanted[i] = NoText

WindowOK ==
    /\ phase \in {"closed", "open", "closing"}
    /\ Len(tabs) <= MaxTabs
    /\ active \in Nat \ {0} /\ (phase # "closed" => active <= Len(tabs))
    /\ starts \in 0..MaxStarts

FlagsOK ==
    dirty \in BOOLEAN /\ timer \in BOOLEAN /\ sharing \in BOOLEAN /\ unread \in BOOLEAN

\* The inductive invariant.
IInv == TextsOK /\ StepsOK /\ WindowOK /\ FlagsOK /\ SavingOK /\ CleanIsOnDisk

-----------------------------------------------------------------------------
(* Texts and files.                                                         *)

LEMMA AcceptedIsKept == ASSUME NEW t \in Seq(Unit), Accepts(t) PROVE WideToUtf8(t) = t
BY DEF Accepts, WideToUtf8

LEMMA FormsOK ==
    /\ Absent \in File /\ Broken \in File
    /\ \A t \in Seq(Unit) : Utf8(t) \in File
<1>1. Absent \in File /\ Broken \in File
  BY DEF File
<1>2. ASSUME NEW t \in Seq(Unit) PROVE Utf8(t) \in File
  BY DEF File, Utf8
<1> QED BY <1>1, <1>2

LEMMA BodiesOK ==
    ASSUME NEW f \in File
    PROVE  f.body \in Seq(Unit) /\ (f.form = "broken" => f.body = <<>>)
<1>1. CASE f \in {Absent, Broken}
  <2>1. f.body = <<>>
    BY <1>1 DEF Absent, Broken
  <2> QED BY <2>1
<1>2. CASE f \in [form : {"utf8", "utf16"}, body : Seq(Unit)]
  BY <1>2
<1> QED BY <1>1, <1>2 DEF File

LEMMA WrittenWhole == ASSUME NEW t \in Seq(Unit) PROVE Over(t, Utf8(<<>>)) = Utf8(t)
<1>1. Len(t) \in Nat /\ Len(<<>>) = 0
  OBVIOUS
<1>2. SubSeq(<<>>, Len(t) + 1, Len(<<>>)) = <<>>
  BY <1>1, SubSeqEmpty
<1>3. t \o <<>> = t
  BY ConcatEmptySeq
<1>4. Utf8(<<>>).body = <<>>
  BY DEF Utf8
<1> QED BY <1>2, <1>3, <1>4 DEF Over

LEMMA WrittenOver == ASSUME NEW t \in Seq(Unit), NEW f \in File PROVE Over(t, f) \in File
<1> DEFINE rest == SubSeq(f.body, Len(t) + 1, Len(f.body))
<1>1. f.body \in Seq(Unit)
  BY BodiesOK
<1>2. Len(t) \in Nat /\ Len(f.body) \in Nat /\ \A i \in 1..Len(f.body) : f.body[i] \in Unit
  BY <1>1
<1>3. rest \in Seq(Unit)
  BY <1>2, SubSeqProperties
<1>4. t \o rest \in Seq(Unit)
  BY <1>3, ConcatProperties
<1> QED BY <1>4, FormsOK DEF Over

LEMMA PrefixOK ==
    ASSUME NEW t \in Seq(Unit), NEW n \in 0..Len(t) PROVE SubSeq(t, 1, n) \in Seq(Unit)
<1>1. n \in Int /\ \A i \in 1..n : t[i] \in Unit
  OBVIOUS
<1> QED BY <1>1, SubSeqProperties

\* A saved text is read back as ReadBack says.
LEMMA SavedIsRead ==
    ASSUME NEW t \in Seq(Unit)
    PROVE  /\ Readable(Utf8(t)) /\ LoadCurrent(Utf8(t)) = WithoutMark(t)
           /\ Reading(Utf8(t)) = ReadBack(t)
<1>1. Readable(Utf8(t)) /\ LoadCurrent(Utf8(t)) = WithoutMark(t)
  BY DEF Readable, LoadCurrent, Utf8
<1> QED BY <1>1 DEF Reading, ReadBack

-----------------------------------------------------------------------------
(* Tabs.                                                                     *)

LEMMA TabChanges ==
    ASSUME NEW T, NEW s \in Seq(T), NEW i \in 1..Len(s), NEW e \in T
    PROVE  /\ [s EXCEPT ![i] = e] \in Seq(T)
           /\ Len([s EXCEPT ![i] = e]) = Len(s)
           /\ \A j \in 1..Len(s) : [s EXCEPT ![i] = e][j] = IF j = i THEN e ELSE s[j]
BY ExceptSeq

LEMMA TabAdded ==
    ASSUME NEW T, NEW s \in Seq(T), NEW e \in T
    PROVE  /\ Append(s, e) \in Seq(T) /\ Len(Append(s, e)) = Len(s) + 1
           /\ \A j \in 1..Len(s) : Append(s, e)[j] = s[j]
           /\ Append(s, e)[Len(s) + 1] = e
OBVIOUS

-----------------------------------------------------------------------------
LEMMA InitEstablishes == Init => IInv
<1> SUFFICES ASSUME Init PROVE IInv
  OBVIOUS
<1>1. <<>> \in Seq([content : Text, dirty : BOOLEAN]) /\ Len(<<>>) = 0
  OBVIOUS
<1>2. TextsOK
  BY <1>1, TextAssumption, FormsOK DEF Init, StoreInit, TextsOK
<1>3. StepsOK
  BY TextAssumption DEF Init, StoreInit, StepsOK
<1>4. WindowOK
  BY <1>1, TabsAssumption DEF Init, WindowOK
<1>5. FlagsOK
  BY DEF Init, FlagsOK
<1>6. SavingOK
  BY TabsAssumption DEF Init, StoreInit, SavingOK
<1>7. CleanIsOnDisk
  BY DEF Init, CleanIsOnDisk
<1> QED BY <1>2, <1>3, <1>4, <1>5, <1>6, <1>7 DEF IInv

-----------------------------------------------------------------------------
(* What several steps need.                                                  *)

\* The first tab as it was, and current.txt too.
LEMMA CleanStays ==
    ASSUME CleanIsOnDisk, phase' = "open" => phase = "open",
           current' = current, unread' = unread, FirstText' = FirstText, FirstDirty' = FirstDirty
    PROVE  CleanIsOnDisk'
BY DEF CleanIsOnDisk

\* No save is under way, and none is started.
LEMMA IdleStays ==
    ASSUME IInv, step[Here] = "idle", UNCHANGED storeVars
    PROVE  StepsOK' /\ SavingOK' /\ current' \in File /\ temp' \in File /\ LoadCurrent(current)' \in Text
<1> USE DEF storeVars
<1>1. StepsOK'
  BY DEF IInv, StepsOK
<1>2. SavingOK'
  BY DEF IInv, SavingOK
<1>3. current' \in File /\ temp' \in File /\ LoadCurrent(current)' \in Text
  BY DEF IInv, TextsOK
<1> QED BY <1>1, <1>2, <1>3

LEMMA StartPreserves == IInv /\ Start => IInv'
<1> SUFFICES ASSUME IInv, Start PROVE IInv'
  OBVIOUS
<1>1. step[Here] = "idle"
  BY DEF IInv, SavingOK, Start
<1>2. UNCHANGED storeVars
  BY DEF Start
<1>3. editor' \in Text /\ tabs' = <<[content |-> editor', dirty |-> FALSE]>>
  BY TextAssumption DEF Start, IInv, TextsOK
<1>4. tabs' \in Seq([content : Text, dirty : BOOLEAN]) /\ Len(tabs') = 1
  BY <1>3
<1>5. TextsOK'
  BY <1>1, <1>2, <1>3, <1>4, IdleStays DEF TextsOK
<1>6. WindowOK'
  BY <1>4, TabsAssumption DEF Start, IInv, WindowOK
<1>7. FlagsOK'
  BY DEF Start, FlagsOK
<1>8. CleanIsOnDisk'
  <2>1. FirstText' = editor' /\ current' = current
    BY <1>2 DEF Start, FirstText, storeVars
  <2>2. IF unread' THEN FirstText' = <<>>
        ELSE Readable(current)' /\ LoadCurrent(current)' = FirstText'
    BY <2>1 DEF Start
  <2> QED BY <2>2 DEF CleanIsOnDisk
<1> QED BY <1>1, <1>2, <1>5, <1>6, <1>7, <1>8, IdleStays DEF IInv

LEMMA ShowNewPreserves ==
    ASSUME IInv, Free, NEW t \in Text, ShowNew(t)
    PROVE  IInv'
<1> DEFINE tab == [content |-> t, dirty |-> TRUE]
<1>1. UNCHANGED storeVars /\ step[Here] = "idle" /\ phase = "open" /\ phase' = "open"
  BY DEF ShowNew, Free
<1>2. /\ tabs \in Seq([content : Text, dirty : BOOLEAN]) /\ active \in 1..Len(tabs)
      /\ tab \in [content : Text, dirty : BOOLEAN]
  BY <1>1 DEF IInv, TextsOK, WindowOK
<1>3. tabs' = [tabs EXCEPT ![active] = tab]
  BY DEF ShowNew
<1>4. /\ tabs' \in Seq([content : Text, dirty : BOOLEAN]) /\ Len(tabs') = Len(tabs)
      /\ \A j \in 1..Len(tabs) : tabs'[j] = IF j = active THEN tab ELSE tabs[j]
  BY <1>2, <1>3, TabChanges
<1>5. TextsOK'
  BY <1>1, <1>4, IdleStays DEF TextsOK, ShowNew
<1>6. WindowOK'
  BY <1>4 DEF IInv, WindowOK, ShowNew
<1>7. FlagsOK'
  BY DEF IInv, FlagsOK, ShowNew
<1>8. CleanIsOnDisk'
  <2>1. CASE active = 1
    BY <2>1 DEF ShowNew, FirstDirty, CleanIsOnDisk
  <2>2. CASE active # 1
    <3>1. tabs'[1] = tabs[1] /\ active' = active /\ unread' = unread
      BY <1>2, <1>4, <2>2 DEF ShowNew
    <3>2. FirstText' = FirstText /\ FirstDirty' = FirstDirty
      BY <2>2, <3>1 DEF FirstText, FirstDirty
    <3> QED BY <1>1, <3>1, <3>2, CleanStays DEF IInv, storeVars
  <2> QED BY <2>1, <2>2
<1> QED BY <1>1, <1>5, <1>6, <1>7, <1>8, IdleStays DEF IInv

LEMMA SharePreserves == IInv /\ Share => IInv'
<1> SUFFICES ASSUME IInv, Share PROVE IInv'
  OBVIOUS
<1>1. UNCHANGED storeVars /\ step[Here] = "idle" /\ UNCHANGED <<phase, tabs, active, editor, dirty, timer, starts, unread>>
  BY DEF Share, Free
<1>2. TextsOK'
  BY <1>1, IdleStays DEF TextsOK, IInv
<1>3. WindowOK'
  BY <1>1 DEF IInv, WindowOK
<1>4. FlagsOK'
  BY DEF IInv, FlagsOK, Share
<1>5. CleanIsOnDisk'
  <2>1. FirstText' = FirstText /\ FirstDirty' = FirstDirty
    BY <1>1 DEF FirstText, FirstDirty
  <2> QED BY <1>1, <2>1, CleanStays DEF IInv, storeVars
<1> QED BY <1>1, <1>2, <1>3, <1>4, <1>5, IdleStays DEF IInv

\* Another tab comes to the front of a list whose first tab is as it was.
LEMMA ActivatePreserves ==
    ASSUME IInv, NEW ts \in Seq([content : Text, dirty : BOOLEAN]), NEW i \in 1..Len(ts),
           Len(ts) <= MaxTabs, ts[1].content = FirstText, ts[1].dirty = FirstDirty,
           Activate(i, ts)
    PROVE  IInv'
<1>1. UNCHANGED storeVars /\ step[Here] = "idle" /\ phase = "open" /\ phase' = "open"
  BY DEF Activate, Free
<1>2. ts[i] \in [content : Text, dirty : BOOLEAN]
  BY ElementOfSeq
<1>3. editor' \in Text /\ dirty' \in BOOLEAN
  BY <1>2 DEF Activate
<1>4. TextsOK'
  BY <1>1, <1>3, IdleStays DEF TextsOK, Activate
<1>5. WindowOK'
  BY <1>1 DEF IInv, WindowOK, Activate
<1>6. FlagsOK'
  BY <1>3 DEF IInv, FlagsOK, Activate
<1>7. FirstText' = FirstText
  BY DEF Activate, FirstText
<1>8. FirstDirty' = FirstDirty
  BY DEF Activate, FirstDirty
<1>9. CleanIsOnDisk'
  <2>1. unread' = unread /\ current' = current
    BY DEF Activate, storeVars
  <2> QED BY <1>1, <1>7, <1>8, <2>1, CleanStays DEF IInv
<1> QED BY <1>1, <1>4, <1>5, <1>6, <1>9, IdleStays DEF IInv

LEMMA SyncedTabsOK ==
    ASSUME IInv, phase = "open"
    PROVE  /\ SyncedTabs \in Seq([content : Text, dirty : BOOLEAN]) /\ Len(SyncedTabs) = Len(tabs)
           /\ SyncedTabs[1].content = FirstText /\ SyncedTabs[1].dirty = FirstDirty
           /\ Len(tabs) \in Nat \ {0}
<1> DEFINE tab == [content |-> editor, dirty |-> dirty]
<1>1. /\ tabs \in Seq([content : Text, dirty : BOOLEAN]) /\ active \in 1..Len(tabs)
      /\ tab \in [content : Text, dirty : BOOLEAN]
  BY DEF IInv, TextsOK, WindowOK, FlagsOK
<1>2. /\ SyncedTabs \in Seq([content : Text, dirty : BOOLEAN]) /\ Len(SyncedTabs) = Len(tabs)
      /\ \A j \in 1..Len(tabs) : SyncedTabs[j] = IF j = active THEN tab ELSE tabs[j]
  BY <1>1, TabChanges DEF SyncedTabs
<1>3. 1 \in 1..Len(tabs)
  BY <1>1
<1>4. SyncedTabs[1].content = FirstText
  BY <1>2, <1>3 DEF FirstText
<1>5. SyncedTabs[1].dirty = FirstDirty
  BY <1>2, <1>3 DEF FirstDirty
<1> QED BY <1>1, <1>2, <1>3, <1>4, <1>5

LEMMA SwitchPreserves == \A i \in 1..Len(tabs) : IInv /\ SwitchToTab(i) => IInv'
<1> SUFFICES ASSUME IInv, NEW i \in 1..Len(tabs), SwitchToTab(i) PROVE IInv'
  OBVIOUS
<1>1. phase = "open" /\ Activate(i, SyncedTabs)
  BY DEF SwitchToTab, Activate, Free
<1>2. Len(tabs) <= MaxTabs
  BY DEF IInv, WindowOK
<1> QED BY <1>1, <1>2, SyncedTabsOK, ActivatePreserves

LEMMA NewTabPreserves == IInv /\ NewTab => IInv'
<1> SUFFICES ASSUME IInv, NewTab PROVE IInv'
  OBVIOUS
<1> DEFINE empty == [content |-> <<>>, dirty |-> FALSE]
           ts    == Append(SyncedTabs, empty)
<1>1. phase = "open" /\ Activate(Len(tabs) + 1, ts) /\ Len(tabs) < MaxTabs
  BY DEF NewTab, OpenTab, Activate, Free
<1>2. empty \in [content : Text, dirty : BOOLEAN]
  BY TextAssumption
<1>3. /\ SyncedTabs \in Seq([content : Text, dirty : BOOLEAN]) /\ Len(SyncedTabs) = Len(tabs)
      /\ SyncedTabs[1].content = FirstText /\ SyncedTabs[1].dirty = FirstDirty
      /\ Len(tabs) \in Nat \ {0}
  BY <1>1, SyncedTabsOK
<1>4. ts \in Seq([content : Text, dirty : BOOLEAN]) /\ Len(ts) = Len(tabs) + 1 /\ ts[1] = SyncedTabs[1]
  BY <1>2, <1>3, TabAdded
<1>5. Len(ts) <= MaxTabs /\ Len(tabs) + 1 \in 1..Len(ts)
  BY <1>1, <1>3, <1>4, TabsAssumption
<1> HIDE DEF ts
<1> QED BY <1>1, <1>3, <1>4, <1>5, ActivatePreserves

-----------------------------------------------------------------------------
(* Saving.                                                                   *)

LEMMA SavePreserves ==
    ASSUME IInv, Free, NEW dirt \in BOOLEAN, dirty => dirt, NEW ph \in {"open", "closing"},
           timer' \in BOOLEAN, SaveEditorContent(dirt, ph)
    PROVE  IInv'
<1> DEFINE tab    == [content |-> editor, dirty |-> dirt]
           begins == dirt /\ active = 1 /\ Accepts(editor)
           keeps  == dirt /\ active > 1
<1>1. /\ step[Here] = "idle" /\ phase = "open" /\ dirty' = dirt /\ phase' \in {"closed", "open", "closing"}
      /\ UNCHANGED <<active, editor, sharing, starts, unread>>
  BY DEF Free, SaveEditorContent
<1>2. /\ tabs \in Seq([content : Text, dirty : BOOLEAN]) /\ active \in 1..Len(tabs)
      /\ tab \in [content : Text, dirty : BOOLEAN] /\ editor \in Text
  BY <1>1 DEF IInv, TextsOK, WindowOK
<1>3. tabs' = tabs \/ (active # 1 /\ tabs' = [tabs EXCEPT ![active] = tab])
  <2>1. CASE begins
    BY <2>1 DEF SaveEditorContent
  <2>2. CASE ~ begins
    <3>1. tabs' = IF keeps THEN [tabs EXCEPT ![active] = tab] ELSE tabs
      BY <2>2 DEF SaveEditorContent
    <3> QED BY <3>1
  <2> QED BY <2>1, <2>2
<1>4. /\ tabs' \in Seq([content : Text, dirty : BOOLEAN]) /\ Len(tabs') = Len(tabs)
      /\ active # 1 => tabs'[1] = tabs[1]
  BY <1>2, <1>3, TabChanges
<1>5. WindowOK'
  BY <1>1, <1>4 DEF IInv, WindowOK
<1>6. FlagsOK'
  BY <1>1 DEF IInv, FlagsOK
<1>7. current' = current
  <2>1. CASE begins
    BY <2>1 DEF SaveEditorContent, BeginSave
  <2>2. CASE ~ begins
    BY <2>2 DEF SaveEditorContent, storeVars
  <2> QED BY <2>1, <2>2
<1>8. CleanIsOnDisk'
  <2>1. CASE active = 1
    <3>1. FirstText' = FirstText /\ FirstDirty' = dirt /\ FirstDirty = dirty
      BY <1>1, <2>1 DEF FirstText, FirstDirty
    <3> QED BY <1>1, <1>7, <3>1 DEF IInv, CleanIsOnDisk
  <2>2. CASE active # 1
    <3>1. FirstText' = FirstText /\ FirstDirty' = FirstDirty
      BY <1>1, <1>4, <2>2 DEF FirstText, FirstDirty
    <3> QED BY <1>1, <1>7, <3>1, CleanStays DEF IInv
  <2> QED BY <2>1, <2>2
<1>9. CASE begins
  <2>1. BeginSave(Here, editor) /\ phase' = IF ph = "closing" /\ step'[Here] = "idle" THEN "closed" ELSE ph
    BY <1>9 DEF SaveEditorContent
  <2>2. /\ step' = [step EXCEPT ![Here] = "open"] /\ wanted' = [wanted EXCEPT ![Here] = editor]
        /\ UNCHANGED <<current, temp>> /\ Accepts(editor)
    BY <2>1 DEF BeginSave, Enter
  <2>3. TextsOK'
    BY <1>1, <1>2, <1>4, <2>2 DEF IInv, TextsOK
  <2>4. editor # NoText
    BY <1>2, TextAssumption
  <2>5. StepsOK'
    BY <1>2, <2>2, <2>4, TabsAssumption DEF IInv, StepsOK
  <2>6. step'[Here] = "open" /\ \A i \in Instance \ {Here} : step'[i] = "idle"
    BY <2>2, TabsAssumption DEF IInv, SavingOK, StepsOK
  <2>7. phase' # "closed"
    BY <2>1, <2>6
  <2>8. wanted'[Here] = editor
    BY <2>2, TabsAssumption DEF IInv, StepsOK
  <2>9. SavingOK'
    BY <1>1, <1>9, <2>6, <2>7, <2>8 DEF SavingOK, Accepts, WideToUtf8
  <2> QED BY <1>5, <1>6, <1>8, <2>3, <2>5, <2>9 DEF IInv
<1>10. CASE ~ begins
  <2>1. UNCHANGED storeVars
    BY <1>10 DEF SaveEditorContent
  <2>2. TextsOK'
    BY <1>1, <1>2, <1>4, <2>1, IdleStays DEF TextsOK
  <2> QED BY <1>1, <1>5, <1>6, <1>8, <2>1, <2>2, IdleStays DEF IInv
<1> QED BY <1>9, <1>10

LEMMA SavesPreserve == IInv /\ (Autosave \/ SaveCommand \/ Close) => IInv'
<1> SUFFICES ASSUME IInv, Autosave \/ SaveCommand \/ Close PROVE IInv'
  OBVIOUS
<1>1. dirty \in BOOLEAN /\ timer \in BOOLEAN
  BY DEF IInv, FlagsOK
<1>2. CASE Autosave
  BY <1>1, <1>2, SavePreserves DEF Autosave
<1>3. CASE SaveCommand
  BY <1>1, <1>3, SavePreserves DEF SaveCommand
<1>4. CASE Close
  BY <1>1, <1>4, SavePreserves DEF Close
<1> QED BY <1>2, <1>3, <1>4

\* What is known while a save is under way.
LEMMA WhileSaving ==
    ASSUME IInv, step[Here] # "idle"
    PROVE  /\ wanted[Here] = editor /\ editor \in Seq(Unit) /\ WideToUtf8(editor) = editor
           /\ active = 1 /\ phase # "closed" /\ Here \in Instance
           /\ \A i \in Instance \ {Here} : step[i] = "idle"
<1>1. wanted[Here] = editor /\ active = 1 /\ phase # "closed" /\ Accepts(editor)
  BY DEF IInv, SavingOK
<1>2. editor \in Seq(Unit)
  BY TextAssumption DEF IInv, TextsOK
<1>3. \A i \in Instance \ {Here} : step[i] = "idle"
  BY DEF IInv, SavingOK
<1> QED BY <1>1, <1>2, <1>3, AcceptedIsKept, TabsAssumption

LEMMA OpenTempPreserves == IInv /\ OpenTemp(Here) /\ UNCHANGED <<winVars, starts, unread>> => IInv'
<1> SUFFICES ASSUME IInv, OpenTemp(Here), UNCHANGED <<winVars, starts, unread>> PROVE IInv'
  OBVIOUS
<1> USE DEF winVars
<1>1. /\ step[Here] # "idle" /\ temp' = Utf8(<<>>) /\ step' = [step EXCEPT ![Here] = "write"]
      /\ UNCHANGED <<current, wanted>>
  BY DEF OpenTemp, Enter
<1>2. Here \in Instance /\ \A i \in Instance \ {Here} : step[i] = "idle"
  BY <1>1, WhileSaving
<1>3. temp' \in File
  <2>1. <<>> \in Seq(Unit)
    OBVIOUS
  <2> QED BY <1>1, <2>1, FormsOK
<1>4. TextsOK'
  BY <1>1, <1>3 DEF IInv, TextsOK
<1>5. StepsOK'
  BY <1>1, <1>2 DEF IInv, StepsOK
<1>6. WindowOK' /\ FlagsOK'
  BY DEF IInv, WindowOK, FlagsOK
<1>7. step'[Here] = "write" /\ \A i \in Instance \ {Here} : step'[i] = "idle"
  BY <1>1, <1>2 DEF IInv, StepsOK
<1>8. SavingOK'
  BY <1>1, <1>7 DEF IInv, SavingOK, Accepts, WideToUtf8
<1>9. CleanIsOnDisk'
  <2>1. FirstText' = FirstText /\ FirstDirty' = FirstDirty
    BY DEF FirstText, FirstDirty
  <2> QED BY <1>1, <2>1, CleanStays DEF IInv
<1> QED BY <1>4, <1>5, <1>6, <1>8, <1>9 DEF IInv

LEMMA WriteTempPreserves == IInv /\ WriteTemp(Here) /\ UNCHANGED <<winVars, starts, unread>> => IInv'
<1> SUFFICES ASSUME IInv, WriteTemp(Here), UNCHANGED <<winVars, starts, unread>> PROVE IInv'
  OBVIOUS
<1> USE DEF winVars
<1>1. /\ step[Here] = "write" /\ temp' = Over(WideToUtf8(wanted[Here]), temp)
      /\ step' = [step EXCEPT ![Here] = "replace"] /\ UNCHANGED <<current, wanted>>
  BY DEF WriteTemp, Enter
<1>2. /\ wanted[Here] = editor /\ editor \in Seq(Unit) /\ WideToUtf8(editor) = editor
      /\ Here \in Instance /\ \A i \in Instance \ {Here} : step[i] = "idle"
  BY <1>1, WhileSaving
<1>3. temp = Utf8(<<>>)
  BY <1>1 DEF IInv, SavingOK
<1>4. temp' = Utf8(editor) /\ temp' \in File
  BY <1>1, <1>2, <1>3, WrittenWhole, FormsOK
<1>5. TextsOK'
  BY <1>1, <1>4 DEF IInv, TextsOK
<1>6. StepsOK'
  BY <1>1, <1>2 DEF IInv, StepsOK
<1>7. WindowOK' /\ FlagsOK'
  BY DEF IInv, WindowOK, FlagsOK
<1>8. step'[Here] = "replace" /\ \A i \in Instance \ {Here} : step'[i] = "idle"
  BY <1>1, <1>2 DEF IInv, StepsOK
<1>9. SavingOK'
  BY <1>1, <1>4, <1>8 DEF IInv, SavingOK, Accepts, WideToUtf8
<1>10. CleanIsOnDisk'
  <2>1. FirstText' = FirstText /\ FirstDirty' = FirstDirty
    BY DEF FirstText, FirstDirty
  <2> QED BY <1>1, <2>1, CleanStays DEF IInv
<1> QED BY <1>5, <1>6, <1>7, <1>9, <1>10 DEF IInv

\* A save comes to its end: the program does not save any more.
LEMMA FinishedIsIdle ==
    ASSUME IInv, Finish(Here), editor' = editor
    PROVE  StepsOK' /\ SavingOK'
<1>1. step' = [step EXCEPT ![Here] = "idle"] /\ wanted' = [wanted EXCEPT ![Here] = NoText]
  BY DEF Finish, Enter
<1>2. StepsOK'
  BY <1>1, TabsAssumption DEF IInv, StepsOK
<1>3. step'[Here] = "idle" /\ \A i \in Instance \ {Here} : step'[i] = "idle"
  BY <1>1, TabsAssumption DEF IInv, StepsOK, SavingOK
<1>4. SavingOK'
  BY <1>3 DEF SavingOK
<1> QED BY <1>2, <1>4

LEMMA SavedPreserves == IInv /\ Saved => IInv'
<1> SUFFICES ASSUME IInv, Saved PROVE IInv'
  OBVIOUS
<1> DEFINE tab == [content |-> editor, dirty |-> FALSE]
<1>1. /\ step[Here] = "replace" /\ current' = temp /\ temp' = Absent /\ Finish(Here)
      /\ dirty' = FALSE /\ tabs' = [tabs EXCEPT ![1] = tab]
      /\ phase' \in {phase, "closed"} /\ UNCHANGED <<active, editor, timer, sharing, starts>>
      /\ unread' = FALSE
  BY DEF Saved, ReplaceCurrent, Returned
<1>2. active = 1 /\ phase # "closed" /\ editor \in Seq(Unit)
  BY <1>1, WhileSaving
<1>3. temp = Utf8(editor)
  BY <1>1 DEF IInv, SavingOK
<1>4. /\ current' = Utf8(editor) /\ current' \in File /\ temp' \in File
      /\ Readable(current)' /\ LoadCurrent(current)' = WithoutMark(editor)
  BY <1>1, <1>2, <1>3, FormsOK, SavedIsRead
<1>5. /\ tabs \in Seq([content : Text, dirty : BOOLEAN]) /\ 1 \in 1..Len(tabs)
      /\ tab \in [content : Text, dirty : BOOLEAN] /\ editor \in Text
  BY <1>2 DEF IInv, TextsOK, WindowOK
<1>6. tabs' \in Seq([content : Text, dirty : BOOLEAN]) /\ Len(tabs') = Len(tabs)
  BY <1>1, <1>5, TabChanges
<1>7. TextsOK'
  BY <1>1, <1>4, <1>5, <1>6, TextAssumption DEF TextsOK
<1>8. WindowOK'
  BY <1>1, <1>2, <1>6 DEF IInv, WindowOK
<1>9. FlagsOK'
  BY <1>1 DEF IInv, FlagsOK
<1>10. CleanIsOnDisk'
  <2>1. FirstText' = editor
    BY <1>1, <1>2 DEF FirstText
  <2> QED BY <1>1, <1>4, <2>1 DEF CleanIsOnDisk
<1> QED BY <1>1, <1>7, <1>8, <1>9, <1>10, FinishedIsIdle DEF IInv

LEMMA FailPreserves ==
    ASSUME IInv, FailSave(Here), phase' \in {phase, "closed"},
           UNCHANGED <<tabs, active, editor, dirty, timer, sharing, starts, unread>>
    PROVE  IInv'
<1>1. step[Here] # "idle" /\ Finish(Here) /\ current' = current
  BY DEF FailSave
<1>2. wanted[Here] = editor /\ editor \in Seq(Unit)
  BY <1>1, WhileSaving
<1>3. temp' \in File
  <2>1. CASE step[Here] = "write"
    <3>1. PICK n \in 0..Len(wanted[Here]) : temp' = Over(SubSeq(wanted[Here], 1, n), temp)
      BY <2>1 DEF FailSave
    <3>2. SubSeq(editor, 1, n) \in Seq(Unit) /\ temp \in File
      BY <1>2, PrefixOK DEF IInv, TextsOK
    <3> QED BY <1>2, <3>1, <3>2, WrittenOver
  <2>2. CASE step[Here] # "write"
    BY <2>2 DEF FailSave, IInv, TextsOK
  <2> QED BY <2>1, <2>2
<1>4. TextsOK'
  BY <1>1, <1>3 DEF IInv, TextsOK
<1>5. WindowOK' /\ FlagsOK'
  BY DEF IInv, WindowOK, FlagsOK
<1>6. CleanIsOnDisk'
  <2>1. FirstText' = FirstText /\ FirstDirty' = FirstDirty
    BY DEF FirstText, FirstDirty
  <2> QED BY <1>1, <2>1, CleanStays DEF IInv
<1> QED BY <1>1, <1>4, <1>5, <1>6, FinishedIsIdle DEF IInv

LEMMA CrashPreserves == IInv /\ Crash => IInv'
<1> SUFFICES ASSUME IInv, Crash PROVE IInv'
  OBVIOUS
<1>1. phase' = "closed" /\ UNCHANGED <<tabs, active, editor, dirty, timer, sharing, starts, unread>>
  BY DEF Crash
<1>2. CASE step[Here] # "idle"
  BY <1>1, <1>2, FailPreserves DEF Crash
<1>3. CASE step[Here] = "idle"
  <2>1. UNCHANGED storeVars
    BY <1>3 DEF Crash
  <2>2. TextsOK'
    BY <1>1, <1>3, <2>1, IdleStays DEF IInv, TextsOK
  <2>3. WindowOK' /\ FlagsOK'
    BY <1>1 DEF IInv, WindowOK, FlagsOK
  <2>4. CleanIsOnDisk'
    BY <1>1 DEF CleanIsOnDisk
  <2> QED BY <1>3, <2>1, <2>2, <2>3, <2>4, IdleStays DEF IInv
<1> QED BY <1>2, <1>3

LEMMA NextPreserves == IInv /\ [Next]_vars => IInv'
<1> SUFFICES ASSUME IInv, [Next]_vars PROVE IInv'
  OBVIOUS
<1>1. CASE Start
  BY <1>1, StartPreserves
<1>2. CASE \E t \in Text : Edit(t) \/ Receive(t)
  BY <1>2, ShowNewPreserves DEF Edit, Receive
<1>3. CASE Share
  BY <1>3, SharePreserves
<1>4. CASE \E i \in 1..Len(tabs) : SwitchToTab(i)
  BY <1>4, SwitchPreserves
<1>5. CASE NewTab
  BY <1>5, NewTabPreserves
<1>6. CASE Autosave \/ SaveCommand \/ Close
  BY <1>6, SavesPreserve
<1>7. CASE Saving
  BY <1>7, OpenTempPreserves, WriteTempPreserves DEF Saving, SaveStep
<1>8. CASE Saved
  BY <1>8, SavedPreserves
<1>9. CASE NotSaved
  BY <1>9, FailPreserves DEF NotSaved, Returned
<1>10. CASE Crash
  BY <1>10, CrashPreserves
<1>11. CASE UNCHANGED vars
  BY <1>11 DEF vars, storeVars, winVars, IInv, TextsOK, StepsOK, WindowOK, FlagsOK, SavingOK,
               CleanIsOnDisk, FirstText, FirstDirty, Accepts, WideToUtf8
<1> QED BY <1>1, <1>2, <1>3, <1>4, <1>5, <1>6, <1>7, <1>8, <1>9, <1>10, <1>11 DEF Next

\* Every step of the window is one of DurableDocument or changes nothing that it sees.
LEMMA StepsRefine == IInv /\ [Next]_vars => [Durable!Next]_(Durable!dvars)
<1> SUFFICES ASSUME IInv, [Next]_vars PROVE [Durable!Next]_(Durable!dvars)
  OBVIOUS
<1> DEFINE stutters == Reading(current)' = Reading(current) /\ wanted' = wanted
<1>1. stutters => [Durable!Next]_(Durable!dvars)
  BY DEF Durable!dvars
<1>2. UNCHANGED <<current, wanted>> => stutters
  BY DEF Reading
<1>3. ASSUME UNCHANGED storeVars PROVE stutters
  BY <1>2, <1>3 DEF storeVars
<1>4. ASSUME NEW dirt, NEW ph, SaveEditorContent(dirt, ph)
      PROVE  Durable!Next \/ stutters
  <2>1. CASE BeginSave(Here, editor)
    <3>1. wanted[Here] = NoText /\ editor \in Text
      BY <2>1, TabsAssumption DEF BeginSave, IInv, StepsOK, TextsOK
    <3>2. wanted' = [wanted EXCEPT ![Here] = editor] /\ Reading(current)' = Reading(current)
      BY <2>1 DEF BeginSave, Reading
    <3>3. Durable!Ask(Here, editor)
      BY <3>1, <3>2 DEF Durable!Ask
    <3> QED BY <3>1, <3>3, TabsAssumption DEF Durable!Next
  <2>2. CASE UNCHANGED storeVars
    BY <1>3, <2>2
  <2> QED BY <1>4, <2>1, <2>2 DEF SaveEditorContent
<1>5. ASSUME FailSave(Here) PROVE Durable!Next
  <2>1. wanted[Here] # NoText /\ wanted' = [wanted EXCEPT ![Here] = NoText]
    BY <1>5, TabsAssumption DEF FailSave, Finish, IInv, StepsOK
  <2>2. Reading(current)' = Reading(current)
    BY <1>5 DEF FailSave, Reading
  <2>3. Durable!Abandon(Here)
    BY <2>1, <2>2 DEF Durable!Abandon
  <2> QED BY <2>3, TabsAssumption DEF Durable!Next
<1>6. ASSUME Saved PROVE Durable!Next
  <2>1. step[Here] = "replace" /\ current' = temp /\ wanted' = [wanted EXCEPT ![Here] = NoText]
    BY <1>6 DEF Saved, ReplaceCurrent, Finish
  <2>2. wanted[Here] = editor /\ editor \in Seq(Unit) /\ Here \in Instance
    BY <2>1, WhileSaving
  <2>3. wanted[Here] # NoText
    BY <2>1, <2>2 DEF IInv, StepsOK
  <2>4. temp = Utf8(editor)
    BY <2>1 DEF IInv, SavingOK
  <2>5. Reading(current)' = Reading(Utf8(editor))
    BY <2>1, <2>4 DEF Reading
  <2>6. Reading(current)' = ReadBack(editor)
    BY <2>2, <2>5, SavedIsRead
  <2>7. editor \in {wanted[r] : r \in Instance} \ {NoText}
    BY <2>2, <2>3
  <2>8. Durable!Commit(Here)
    BY <2>1, <2>3, <2>6, <2>7 DEF Durable!Commit
  <2> QED BY <2>2, <2>8 DEF Durable!Next
<1>7. ASSUME Saving PROVE stutters
  BY <1>2, <1>7 DEF Saving, SaveStep, OpenTemp, WriteTemp
<1>8. CASE Start \/ Share \/ NewTab \/ \E i \in 1..Len(tabs) : SwitchToTab(i)
  <2>1. UNCHANGED storeVars
    BY <1>8 DEF Start, Share, NewTab, OpenTab, SwitchToTab, Activate
  <2> QED BY <1>1, <1>3, <2>1
<1>9. CASE \E t \in Text : Edit(t) \/ Receive(t)
  <2>1. UNCHANGED storeVars
    BY <1>9 DEF Edit, Receive, ShowNew
  <2> QED BY <1>1, <1>3, <2>1
<1>10. CASE Autosave \/ SaveCommand \/ Close
  <2>1. Durable!Next \/ stutters
    BY <1>4, <1>10 DEF Autosave, SaveCommand, Close
  <2> QED BY <1>1, <2>1
<1>11. CASE Saving \/ Saved \/ NotSaved
  <2>1. Durable!Next \/ stutters
    BY <1>5, <1>6, <1>7, <1>11 DEF NotSaved
  <2> QED BY <1>1, <2>1
<1>12. CASE Crash
  <2>1. Durable!Next \/ stutters
    BY <1>3, <1>5, <1>12 DEF Crash
  <2> QED BY <1>1, <2>1
<1>13. CASE UNCHANGED vars
  <2>1. UNCHANGED storeVars
    BY <1>13 DEF vars
  <2> QED BY <1>1, <1>3, <2>1
<1> QED BY <1>8, <1>9, <1>10, <1>11, <1>12, <1>13 DEF Next

-----------------------------------------------------------------------------
(* Theorems.                                                                 *)

\* The inductive invariant holds in every behaviour.
THEOREM Invariance == Spec => []IInv
BY InitEstablishes, NextPreserves, PTL DEF Spec

\* The variables keep their types: a save is known by its text, the active tab is one of
\* the tabs and there are never more of them than kMaxTabs.
THEOREM TypeCorrect == Spec => []TypeOK
<1>1. IInv => TypeOK
  <2> SUFFICES ASSUME IInv PROVE TypeOK
    OBVIOUS
  <2>1. Text \subseteq Seq(Unit)
    BY TextAssumption
  <2>2. [content : Text, dirty : BOOLEAN] \subseteq Tab
    BY <2>1 DEF Tab
  <2>3. tabs \in Seq(Tab)
    <3>1. tabs \in Seq([content : Text, dirty : BOOLEAN])
      BY DEF IInv, TextsOK
    <3>2. tabs \in [1..Len(tabs) -> [content : Text, dirty : BOOLEAN]] /\ Len(tabs) \in Nat
      BY <3>1, LenProperties
    <3>3. tabs \in [1..Len(tabs) -> Tab]
      BY <2>2, <3>2
    <3> QED BY <3>2, <3>3, SeqDef
  <2>4. current \in File /\ temp \in File /\ editor \in Seq(Unit)
    BY <2>1 DEF IInv, TextsOK
  <2>5. /\ step \in [Instance -> {"idle", "open", "write", "replace"}]
        /\ \A i \in Instance : step[i] = "idle" <=> wanted[i] = NoText
    BY DEF IInv, StepsOK
  <2>6. wanted \in [Instance -> Seq(Unit) \cup {NoText}]
    BY <2>1 DEF IInv, StepsOK
  <2>7. {dirty, timer, sharing} \subseteq BOOLEAN /\ unread \in BOOLEAN
    BY DEF IInv, FlagsOK
  <2>8. /\ phase \in {"closed", "open", "closing"} /\ Len(tabs) <= MaxTabs /\ starts \in 0..MaxStarts
        /\ active \in Nat \ {0} /\ (phase # "closed" => active <= Len(tabs))
    BY DEF IInv, WindowOK
  <2> QED BY <2>3, <2>4, <2>5, <2>6, <2>7, <2>8 DEF TypeOK
<1> QED BY <1>1, Invariance, PTL

\* An unmarked first tab is on the disk, or empty after a start that could not read the
\* disk, in every behaviour.
THEOREM CleanOnDisk == Spec => []CleanIsOnDisk
<1>1. IInv => CleanIsOnDisk
  BY DEF IInv
<1> QED BY <1>1, Invariance, PTL

\* Saving in the native window implements DurableDocument: a start never reads anything
\* but the document as it was or a whole text that was being saved.
THEOREM Durability == Spec => StorageIsDurable
<1>1. IInv => /\ Reading(current) \in [ok : BOOLEAN, text : Seq(Unit)]
  <2> SUFFICES ASSUME IInv PROVE Reading(current) \in [ok : BOOLEAN, text : Seq(Unit)]
    OBVIOUS
  <2>1. LoadCurrent(current) \in Seq(Unit)
    BY TextAssumption DEF IInv, TextsOK
  <2>2. Readable(current) \in BOOLEAN
    BY DEF Readable
  <2> QED BY <2>1, <2>2 DEF Reading
<1>2. Init => Durable!Init
  <2> SUFFICES ASSUME Init PROVE Durable!Init
    OBVIOUS
  <2>1. IInv
    BY InitEstablishes
  <2> QED BY <1>1, <2>1 DEF Durable!Init, Init, StoreInit
<1> QED BY <1>2, StepsRefine, Invariance, PTL DEF StorageIsDurable, Spec, Durable!Spec
=============================================================================
