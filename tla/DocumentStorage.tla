--------------------------- MODULE DocumentStorage ----------------------------
(*****************************************************************************)
(* Storage: one document in current.txt, replaced by way of current.tmp.     *)
(*                                                                           *)
(* A text is a sequence of code units, of which two kinds matter: Mark, the  *)
(* byte order mark U+FEFF, and Lone, a surrogate without its partner, which  *)
(* UTF-8 cannot hold. A file is its form and what it holds; "broken" stands  *)
(* for bytes that no branch of LoadCurrent decodes.                          *)
(*                                                                           *)
(* SaveCurrent is a sequence of system calls, one step each: a program may   *)
(* fail or die before every one, and every program of the user works in the  *)
(* same directory with the same two names (docs/12: two processes on one     *)
(* PC). std::ofstream lets two of them have current.tmp open at once, but it *)
(* cannot be renamed while another has it open. The cache of the operating   *)
(* system survives the death of a program.                                   *)
(*****************************************************************************)
EXTENDS Naturals, Sequences

CONSTANTS Instance,   \* running programs that share the data directory
          Unit,       \* the code units of a text
          Mark, Lone, \* the two kinds of them told apart
          Text,       \* the texts an editor may hold
          Found,      \* the files current.txt may be before the first start
          NoText      \* a program that is not saving

Absent == [form |-> "absent", body |-> <<>>]
Broken == [form |-> "broken", body |-> <<>>]
Utf8(body) == [form |-> "utf8", body |-> body]
Utf16(body) == [form |-> "utf16", body |-> body]
File == {Absent, Broken} \cup [form : {"utf8", "utf16"}, body : Seq(Unit)]

VARIABLES current,    \* current.txt
          temp,       \* current.tmp
          step,       \* where each program stands in SaveCurrent
          wanted      \* the text it saves

storeVars == <<current, temp, step, wanted>>

\* WideToUtf8 with WC_ERR_INVALID_CHARS: an unpaired surrogate anywhere yields nothing.
WideToUtf8(text) == IF \E k \in 1..Len(text) : text[k] = Lone THEN <<>> ELSE text

\* A leading U+FEFF is taken for the mark of the encoding.
WithoutMark(body) == IF body # <<>> /\ Head(body) = Mark THEN Tail(body) ELSE body

\* LoadCurrent: whether it succeeds, and what the editor is given: a file that cannot
\* be decoded leaves the content cleared.
Readable(file) == file.form # "broken"
LoadCurrent(file) == IF file.form = "utf8" THEN WithoutMark(file.body) ELSE file.body

\* An editor may hold whatever a file gives it.
ASSUME TextAssumption ==
    /\ {Mark, Lone} \subseteq Unit
    /\ Text \subseteq Seq(Unit) /\ <<>> \in Text /\ NoText \notin Text
    /\ \A text \in Text : WithoutMark(text) \in Text
    /\ Found \subseteq File /\ \A file \in Found : LoadCurrent(file) \in Text

-----------------------------------------------------------------------------

StoreInit ==
    /\ current \in Found
    /\ temp = Absent
    /\ step = [i \in Instance |-> "idle"]
    /\ wanted = [i \in Instance |-> NoText]

\* The check before the first file is touched: the text can be encoded.
Accepts(text) == text = <<>> \/ WideToUtf8(text) # <<>>

Enter(i, s) == step' = [step EXCEPT ![i] = s]
Finish(i) == Enter(i, "idle") /\ wanted' = [wanted EXCEPT ![i] = NoText]

BeginSave(i, text) ==
    /\ step[i] = "idle" /\ Accepts(text)
    /\ Enter(i, "open")
    /\ wanted' = [wanted EXCEPT ![i] = text]
    /\ UNCHANGED <<current, temp>>

\* std::ofstream with trunc: the file is there and empty from here on.
OpenTemp(i) ==
    /\ step[i] = "open"
    /\ temp' = Utf8(<<>>)
    /\ Enter(i, "write")
    /\ UNCHANGED <<current, wanted>>

\* Each stream writes from its own beginning: what another one wrote further back stays.
Over(bytes, file) == Utf8(bytes \o SubSeq(file.body, Len(bytes) + 1, Len(file.body)))

\* write, flush and the end of the scope, which closes the file.
WriteTemp(i) ==
    /\ step[i] = "write"
    /\ temp' = Over(WideToUtf8(wanted[i]), temp)
    /\ Enter(i, "replace")
    /\ UNCHANGED <<current, wanted>>

\* MoveFileExW: current.tmp takes the place of current.txt. It must be there, and
\* nobody else have it open.
ReplaceCurrent(i) ==
    /\ step[i] = "replace"
    /\ temp # Absent /\ \A j \in Instance \ {i} : step[j] # "write"
    /\ current' = temp
    /\ temp' = Absent
    /\ Finish(i)

\* A slip: the failure of the write goes unnoticed.
FailUnnoticed(i) ==
    /\ step[i] # "idle"
    /\ IF step[i] = "write"
         THEN \E n \in 0..Len(wanted[i]) : temp' = Over(SubSeq(wanted[i], 1, n), temp)
         ELSE temp' = temp
    /\ IF step[i] = "write" THEN Enter(i, "replace") /\ UNCHANGED wanted ELSE Finish(i)
    /\ UNCHANGED current

\* A call fails, or the program dies: some of the text may be written; nobody removes
\* current.tmp.
FailSave(i) ==
    /\ step[i] # "idle"
    /\ IF step[i] = "write"
         THEN \E n \in 0..Len(wanted[i]) : temp' = Over(SubSeq(wanted[i], 1, n), temp)
         ELSE temp' = temp
    /\ Finish(i)
    /\ UNCHANGED current

SaveStep(i) == OpenTemp(i) \/ WriteTemp(i)

-----------------------------------------------------------------------------

\* What a start would be given now, and how a saved text comes back.
Reading(file) == [ok |-> Readable(file), text |-> LoadCurrent(file)]
ReadBack(text) == [ok |-> TRUE, text |-> WithoutMark(text)]

Durable == INSTANCE DurableDocument
             WITH Saver <- Instance, Content <- [ok : BOOLEAN, text : Seq(Unit)],
                  Kept <- ReadBack, saved <- Reading(current), pending <- wanted
=============================================================================
