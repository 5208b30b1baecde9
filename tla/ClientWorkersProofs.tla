------------------------- MODULE ClientWorkersProofs -------------------------
(***************************************************************************)
(* The safety properties of ClientWorkers hold for any number of broken    *)
(* connections, attempts, frames and commands of the user.                 *)
(***************************************************************************)
EXTENDS ClientWorkers, SequenceTheorems, TLAPS

-----------------------------------------------------------------------------
(* What Append and Tail do to the frames of a queue. *)

\* An empty queue has no elements.
LEMMA RangeEmpty == Range(<<>>) = {}
BY DEF Range

\* Append adds one element.
LEMMA RangeAppend ==
    ASSUME NEW S, NEW s \in Seq(S), NEW e \in S
    PROVE  Append(s, e) \in Seq(S) /\ Range(Append(s, e)) = Range(s) \cup {e}
<1>1. /\ Append(s, e) \in Seq(S) /\ Len(Append(s, e)) = Len(s) + 1 /\ Len(s) \in Nat
      /\ \A i \in 1..Len(s) : Append(s, e)[i] = s[i]
      /\ Append(s, e)[Len(s) + 1] = e
  BY AppendProperties, LenProperties
<1>2. /\ Range(s) = {s[i] : i \in 1..Len(s)}
      /\ Range(Append(s, e)) = {Append(s, e)[i] : i \in 1..Len(Append(s, e))}
  BY <1>1, RangeEquality
<1>3. ASSUME NEW x \in Range(Append(s, e))
      PROVE  x \in Range(s) \cup {e}
  <2>1. PICK i \in 1..Len(s) + 1 : x = Append(s, e)[i]
    BY <1>1, <1>2
  <2>2. CASE i \in 1..Len(s)
    BY <2>1, <2>2, <1>1, <1>2
  <2>3. CASE i = Len(s) + 1
    BY <2>1, <2>3, <1>1
  <2> QED BY <2>2, <2>3, <1>1
<1>4. ASSUME NEW x \in Range(s)
      PROVE  x \in Range(Append(s, e))
  <2>1. PICK i \in 1..Len(s) : x = s[i]
    BY <1>2
  <2>2. i \in 1..Len(s) + 1 /\ x = Append(s, e)[i]
    BY <2>1, <1>1
  <2> QED BY <2>2, <1>1, <1>2
<1>5. e \in Range(Append(s, e))
  <2>1. Len(s) + 1 \in 1..Len(s) + 1
    BY <1>1
  <2> QED BY <2>1, <1>1, <1>2
<1> QED BY <1>1, <1>3, <1>4, <1>5

\* The tail of a queue has no new elements.
LEMMA RangeTail ==
    ASSUME NEW S, NEW s \in Seq(S), s # <<>>
    PROVE  Tail(s) \in Seq(S) /\ Range(Tail(s)) \subseteq Range(s)
<1>1. /\ Tail(s) \in Seq(S) /\ Len(Tail(s)) = Len(s) - 1 /\ Len(s) \in Nat
      /\ \A i \in 1..Len(Tail(s)) : Tail(s)[i] = s[i + 1]
  BY HeadTailProperties, LenProperties
<1>2. Range(s) = {s[i] : i \in 1..Len(s)} /\ Range(Tail(s)) = {Tail(s)[i] : i \in 1..Len(Tail(s))}
  BY <1>1, RangeEquality
<1>3. ASSUME NEW x \in Range(Tail(s)) PROVE x \in Range(s)
  <2>1. PICK i \in 1..Len(Tail(s)) : x = Tail(s)[i]
    BY <1>2
  <2>2. i + 1 \in 1..Len(s) /\ x = s[i + 1]
    BY <2>1, <1>1
  <2> QED BY <2>2, <1>2
<1> QED BY <1>1, <1>3

-----------------------------------------------------------------------------
(* The inductive invariant. *)

ReconnectOver == reconnectPc \in {"none", "done", "gaveUp"}

WorkersFinished == Finished(sendPc) /\ Finished(receivePc) /\ Finished(beatPc)

\* Who runs Connect or Disconnect, and what that says of the window and of ReconnectLoop.
CallersOK ==
    /\ calls["window"] # "none" => windowPc \in {"leaving", "joining"} /\ ReconnectOver
    /\ calls["window"] \in {"open", "handshake", "start", "request"} => windowPc = "joining"
    /\ calls["reconnect"] # "none" <=> reconnectPc = "connecting"
    /\ ~ ReconnectOver => reconnecting /\ role = "Guest"
    /\ windowPc = "starting" => ReconnectOver /\ role = "Guest" /\ reconnecting
    /\ windowPc = "leaving" => role = "Guest"
    /\ windowPc = "joining" => role = "Offline"

\* The flags: only a client whose workers run, or are about to be started, is connected,
\* and a worker on its way out has cleared connected_ first.
FlagsOK ==
    /\ connected => ~ stopping
    /\ receivePc \in {"close", "notify", "push", "done"} /\ connected =>
         \E t \in Callers : calls[t] = "start"
    /\ receivePc = "none" /\ connected => \E t \in Callers : calls[t] = "start"
    /\ sendPc = "close" \/ beatPc = "close" => ~ connected
    /\ \A t \in Callers : calls[t] \in {"notify", "join", "close", "open", "handshake"}
         => ~ connected
    /\ \A t \in Callers : calls[t] \in {"notify", "join", "close"} => stopping
    /\ \A t \in Callers : calls[t] \in {"handshake", "start"} => ~ stopping

\* Connect's later steps find the workers of the earlier connection ended, and its queue
\* empty until connected_ is set again.
CallsOK ==
    \A t \in Callers :
        /\ calls[t] \in {"close", "open", "handshake", "start"} => WorkersFinished
        /\ calls[t] \in {"close", "open", "handshake"} => sendQueue = <<>>
        /\ calls[t] = "open" => ~ socket

\* Before a join has a connection, nothing of the client is alive.
QuietOK ==
    role = "Offline" /\ calls["window"] \in {"none", "flags", "notify", "join", "close", "open"} =>
        ~ connected /\ ~ socket /\ sendQueue = <<>> /\ WorkersFinished

(* The provers treat Booleans apart from the rest: TypeOK in two parts. *)

BooleansOK ==
    /\ connected \in BOOLEAN /\ stopping \in BOOLEAN /\ socket \in BOOLEAN
    /\ reconnecting \in BOOLEAN /\ reconnectStop \in BOOLEAN

OthersOK ==
    /\ wire \in {"up", "closed", "silent"}
    /\ connection \in Nat /\ disconnects \in Nat
    /\ sendQueue \in Seq(Frame)
    /\ sendPc \in {"none", "top", "tested", "asleep", "send", "close", "done"}
    /\ receivePc \in {"none", "top", "recv", "close", "notify", "push", "done"}
    /\ beatPc \in {"none", "sleep", "close", "push", "done"}
    /\ calls \in [Callers -> {"none", "flags", "notify", "join", "close", "open", "handshake",
                              "start", "request"}]
    /\ windowPc \in {"idle", "starting", "leaving", "joining"}
    /\ role \in {"Offline", "Guest"}
    /\ reconnectPc \in {"none", "attempt", "connecting", "delay", "succeeded", "failed",
                        "gaveUp", "done"}
    /\ attempt \in Nat /\ failures \in Nat /\ commands \in Nat

LEMMA TypeSplits ==
    /\ TypeOK => BooleansOK /\ OthersOK
    /\ BooleansOK' /\ OthersOK' => TypeOK'
    /\ BooleansOK /\ OthersOK => TypeOK
<1>1. TypeOK => BooleansOK /\ OthersOK
  BY DEF TypeOK, BooleansOK, OthersOK
<1>2. BooleansOK' /\ OthersOK' => TypeOK'
  BY DEF TypeOK, BooleansOK, OthersOK
<1>3. BooleansOK /\ OthersOK => TypeOK
  BY DEF TypeOK, BooleansOK, OthersOK
<1> QED BY <1>1, <1>2, <1>3

\* The inductive invariant.
IInv == TypeOK /\ CallersOK /\ FlagsOK /\ CallsOK /\ QuietOK /\ NoFrameAcrossConnections

-----------------------------------------------------------------------------
LEMMA InitEstablishes == Init => IInv
<1> SUFFICES ASSUME Init PROVE IInv
  OBVIOUS
<1>1. Range(sendQueue) = {}
  BY RangeEmpty DEF Init
<1>2. TypeOK
  <2>1. BooleansOK
    BY Zenon DEF Init, BooleansOK
  <2>2. OthersOK
    BY DEF Init, OthersOK, Callers
  <2> QED BY <2>1, <2>2, TypeSplits
<1> QED BY <1>1, <1>2 DEF Init, IInv, CallersOK, FlagsOK, CallsOK, QuietOK, ReconnectOver,
   WorkersFinished, Finished, Callers, NoFrameAcrossConnections

LEMMA SendSleepsPreserves == IInv /\ SendSleeps => IInv'
<1> SUFFICES ASSUME IInv, SendSleeps PROVE IInv'
  OBVIOUS
<1> USE DEF SendSleeps, sendRest, reconnectVars
<1>1. TypeOK'
  <2>1. BooleansOK'
    BY TypeSplits, Zenon DEF IInv, BooleansOK
  <2>2. OthersOK'
    BY TypeSplits DEF IInv, OthersOK, Callers
  <2> QED BY <2>1, <2>2, TypeSplits
<1>2. CallersOK'
  BY DEF IInv, TypeOK, CallersOK, ReconnectOver, Callers
<1>3. FlagsOK'
  BY DEF IInv, TypeOK, FlagsOK, CallersOK, Callers
<1>4. CallsOK'
  BY DEF IInv, TypeOK, CallsOK, FlagsOK, WorkersFinished, Finished, Callers
<1>5. QuietOK'
  BY DEF IInv, TypeOK, QuietOK, CallersOK, ReconnectOver, WorkersFinished, Finished, Callers
<1>6. NoFrameAcrossConnections'
  BY DEF IInv, NoFrameAcrossConnections
<1> QED BY <1>1, <1>2, <1>3, <1>4, <1>5, <1>6 DEF IInv

LEMMA SendWakesUnaskedPreserves == IInv /\ SendWakesUnasked => IInv'
<1> SUFFICES ASSUME IInv, SendWakesUnasked PROVE IInv'
  OBVIOUS
<1> USE DEF SendWakesUnasked, sendRest, reconnectVars
<1>1. TypeOK'
  <2>1. BooleansOK'
    BY TypeSplits, Zenon DEF IInv, BooleansOK
  <2>2. OthersOK'
    BY TypeSplits DEF IInv, OthersOK, Callers
  <2> QED BY <2>1, <2>2, TypeSplits
<1>2. CallersOK'
  BY DEF IInv, TypeOK, CallersOK, ReconnectOver, Callers
<1>3. FlagsOK'
  BY DEF IInv, TypeOK, FlagsOK, CallersOK, Callers
<1>4. CallsOK'
  BY DEF IInv, TypeOK, CallsOK, FlagsOK, WorkersFinished, Finished, Callers
<1>5. QuietOK'
  BY DEF IInv, TypeOK, QuietOK, CallersOK, ReconnectOver, WorkersFinished, Finished, Callers
<1>6. NoFrameAcrossConnections'
  BY DEF IInv, NoFrameAcrossConnections
<1> QED BY <1>1, <1>2, <1>3, <1>4, <1>5, <1>6 DEF IInv

LEMMA SendSucceedsPreserves == IInv /\ SendSucceeds => IInv'
<1> SUFFICES ASSUME IInv, SendSucceeds PROVE IInv'
  OBVIOUS
<1> USE DEF SendSucceeds, sendRest, reconnectVars
<1>1. TypeOK'
  <2>1. BooleansOK'
    BY TypeSplits, Zenon DEF IInv, BooleansOK
  <2>2. OthersOK'
    BY TypeSplits DEF IInv, OthersOK, Callers
  <2> QED BY <2>1, <2>2, TypeSplits
<1>2. CallersOK'
  BY DEF IInv, TypeOK, CallersOK, ReconnectOver, Callers
<1>3. FlagsOK'
  BY DEF IInv, TypeOK, FlagsOK, CallersOK, Callers
<1>4. CallsOK'
  BY DEF IInv, TypeOK, CallsOK, FlagsOK, WorkersFinished, Finished, Callers
<1>5. QuietOK'
  BY DEF IInv, TypeOK, QuietOK, CallersOK, ReconnectOver, WorkersFinished, Finished, Callers
<1>6. NoFrameAcrossConnections'
  BY DEF IInv, NoFrameAcrossConnections
<1> QED BY <1>1, <1>2, <1>3, <1>4, <1>5, <1>6 DEF IInv

LEMMA SendFailsPreserves == IInv /\ SendFails => IInv'
<1> SUFFICES ASSUME IInv, SendFails PROVE IInv'
  OBVIOUS
<1> USE DEF SendFails, sendRest, reconnectVars
<1>1. TypeOK'
  <2>1. BooleansOK'
    BY TypeSplits, Zenon DEF IInv, BooleansOK
  <2>2. OthersOK'
    BY TypeSplits DEF IInv, OthersOK, Callers
  <2> QED BY <2>1, <2>2, TypeSplits
<1>2. CallersOK'
  BY DEF IInv, TypeOK, CallersOK, ReconnectOver, Callers
<1>3. FlagsOK'
  BY DEF IInv, TypeOK, FlagsOK, CallersOK, Callers
<1>4. CallsOK'
  BY DEF IInv, TypeOK, CallsOK, FlagsOK, WorkersFinished, Finished, Callers
<1>5. QuietOK'
  BY DEF IInv, TypeOK, QuietOK, CallersOK, ReconnectOver, WorkersFinished, Finished, Callers
<1>6. NoFrameAcrossConnections'
  BY DEF IInv, NoFrameAcrossConnections
<1> QED BY <1>1, <1>2, <1>3, <1>4, <1>5, <1>6 DEF IInv

LEMMA SendClosesPreserves == IInv /\ SendCloses => IInv'
<1> SUFFICES ASSUME IInv, SendCloses PROVE IInv'
  OBVIOUS
<1> USE DEF SendCloses, sendRest, reconnectVars, CloseSocket
<1>1. TypeOK'
  <2>1. BooleansOK'
    BY TypeSplits, Zenon DEF IInv, BooleansOK
  <2>2. OthersOK'
    BY TypeSplits DEF IInv, OthersOK, Callers
  <2> QED BY <2>1, <2>2, TypeSplits
<1>2. CallersOK'
  BY DEF IInv, TypeOK, CallersOK, ReconnectOver, Callers
<1>3. FlagsOK'
  BY DEF IInv, TypeOK, FlagsOK, CallersOK, Callers
<1>4. CallsOK'
  BY DEF IInv, TypeOK, CallsOK, FlagsOK, WorkersFinished, Finished, Callers
<1>5. QuietOK'
  BY DEF IInv, TypeOK, QuietOK, CallersOK, ReconnectOver, WorkersFinished, Finished, Callers
<1>6. NoFrameAcrossConnections'
  BY DEF IInv, NoFrameAcrossConnections
<1> QED BY <1>1, <1>2, <1>3, <1>4, <1>5, <1>6 DEF IInv

LEMMA ReceiveLooksPreserves == IInv /\ ReceiveLooks => IInv'
<1> SUFFICES ASSUME IInv, ReceiveLooks PROVE IInv'
  OBVIOUS
<1> USE DEF ReceiveLooks, receiveRest, reconnectVars, boundVars
<1>1. TypeOK'
  <2>1. BooleansOK'
    BY TypeSplits, Zenon DEF IInv, BooleansOK
  <2>2. OthersOK'
    BY TypeSplits DEF IInv, OthersOK, Callers
  <2> QED BY <2>1, <2>2, TypeSplits
<1>2. CallersOK'
  BY DEF IInv, TypeOK, CallersOK, ReconnectOver, Callers
<1>3. FlagsOK'
  BY DEF IInv, TypeOK, FlagsOK, CallersOK, Callers
<1>4. CallsOK'
  BY DEF IInv, TypeOK, CallsOK, FlagsOK, WorkersFinished, Finished, Callers
<1>5. QuietOK'
  BY DEF IInv, TypeOK, QuietOK, CallersOK, ReconnectOver, WorkersFinished, Finished, Callers
<1>6. NoFrameAcrossConnections'
  BY DEF IInv, NoFrameAcrossConnections
<1> QED BY <1>1, <1>2, <1>3, <1>4, <1>5, <1>6 DEF IInv

LEMMA ReceiveReturnsPreserves == IInv /\ ReceiveReturns => IInv'
<1> SUFFICES ASSUME IInv, ReceiveReturns PROVE IInv'
  OBVIOUS
<1> USE DEF ReceiveReturns, receiveRest, reconnectVars, boundVars
<1>1. TypeOK'
  <2>1. BooleansOK'
    BY TypeSplits, Zenon DEF IInv, BooleansOK
  <2>2. OthersOK'
    BY TypeSplits DEF IInv, OthersOK, Callers
  <2> QED BY <2>1, <2>2, TypeSplits
<1>2. CallersOK'
  BY DEF IInv, TypeOK, CallersOK, ReconnectOver, Callers
<1>3. FlagsOK'
  BY DEF IInv, TypeOK, FlagsOK, CallersOK, Callers
<1>4. CallsOK'
  BY DEF IInv, TypeOK, CallsOK, FlagsOK, WorkersFinished, Finished, Callers
<1>5. QuietOK'
  BY DEF IInv, TypeOK, QuietOK, CallersOK, ReconnectOver, WorkersFinished, Finished, Callers
<1>6. NoFrameAcrossConnections'
  BY DEF IInv, NoFrameAcrossConnections
<1> QED BY <1>1, <1>2, <1>3, <1>4, <1>5, <1>6 DEF IInv

LEMMA ReceiveFailsPreserves == IInv /\ ReceiveFails => IInv'
<1> SUFFICES ASSUME IInv, ReceiveFails PROVE IInv'
  OBVIOUS
<1> USE DEF ReceiveFails, receiveRest, reconnectVars, boundVars
<1>1. TypeOK'
  <2>1. BooleansOK'
    BY TypeSplits, Zenon DEF IInv, BooleansOK
  <2>2. OthersOK'
    BY TypeSplits DEF IInv, OthersOK, Callers
  <2> QED BY <2>1, <2>2, TypeSplits
<1>2. CallersOK'
  BY DEF IInv, TypeOK, CallersOK, ReconnectOver, Callers
<1>3. FlagsOK'
  BY DEF IInv, TypeOK, FlagsOK, CallersOK, Callers
<1>4. CallsOK'
  BY DEF IInv, TypeOK, CallsOK, FlagsOK, WorkersFinished, Finished, Callers
<1>5. QuietOK'
  BY DEF IInv, TypeOK, QuietOK, CallersOK, ReconnectOver, WorkersFinished, Finished, Callers
<1>6. NoFrameAcrossConnections'
  BY DEF IInv, NoFrameAcrossConnections
<1> QED BY <1>1, <1>2, <1>3, <1>4, <1>5, <1>6 DEF IInv

LEMMA ReceiveClosesPreserves == IInv /\ ReceiveCloses => IInv'
<1> SUFFICES ASSUME IInv, ReceiveCloses PROVE IInv'
  OBVIOUS
<1> USE DEF ReceiveCloses, receiveRest, reconnectVars, boundVars, CloseSocket
<1>1. TypeOK'
  <2>1. BooleansOK'
    BY TypeSplits, Zenon DEF IInv, BooleansOK
  <2>2. OthersOK'
    BY TypeSplits DEF IInv, OthersOK, Callers
  <2> QED BY <2>1, <2>2, TypeSplits
<1>2. CallersOK'
  BY DEF IInv, TypeOK, CallersOK, ReconnectOver, Callers
<1>3. FlagsOK'
  BY DEF IInv, TypeOK, FlagsOK, CallersOK, Callers
<1>4. CallsOK'
  BY DEF IInv, TypeOK, CallsOK, FlagsOK, WorkersFinished, Finished, Callers
<1>5. QuietOK'
  BY DEF IInv, TypeOK, QuietOK, CallersOK, ReconnectOver, WorkersFinished, Finished, Callers
<1>6. NoFrameAcrossConnections'
  BY DEF IInv, NoFrameAcrossConnections
<1> QED BY <1>1, <1>2, <1>3, <1>4, <1>5, <1>6 DEF IInv

LEMMA ReceiveNotifiesPreserves == IInv /\ ReceiveNotifies => IInv'
<1> SUFFICES ASSUME IInv, ReceiveNotifies PROVE IInv'
  OBVIOUS
<1> USE DEF ReceiveNotifies, receiveRest, reconnectVars, boundVars, Notified
<1>1. TypeOK'
  <2>1. BooleansOK'
    BY TypeSplits, Zenon DEF IInv, BooleansOK
  <2>2. OthersOK'
    BY TypeSplits DEF IInv, OthersOK, Callers
  <2> QED BY <2>1, <2>2, TypeSplits
<1>2. CallersOK'
  BY DEF IInv, TypeOK, CallersOK, ReconnectOver, Callers
<1>3. FlagsOK'
  BY DEF IInv, TypeOK, FlagsOK, CallersOK, Callers
<1>4. CallsOK'
  BY DEF IInv, TypeOK, CallsOK, FlagsOK, WorkersFinished, Finished, Callers
<1>5. QuietOK'
  BY DEF IInv, TypeOK, QuietOK, CallersOK, ReconnectOver, WorkersFinished, Finished, Callers
<1>6. NoFrameAcrossConnections'
  BY DEF IInv, NoFrameAcrossConnections
<1> QED BY <1>1, <1>2, <1>3, <1>4, <1>5, <1>6 DEF IInv

LEMMA ReceivePushesPreserves == IInv /\ ReceivePushes => IInv'
<1> SUFFICES ASSUME IInv, ReceivePushes PROVE IInv'
  OBVIOUS
<1> USE DEF ReceivePushes, receiveRest, reconnectVars, boundVars
<1>1. TypeOK'
  <2>1. BooleansOK'
    BY TypeSplits, Zenon DEF IInv, BooleansOK
  <2>2. OthersOK'
    BY TypeSplits DEF IInv, OthersOK, Callers
  <2> QED BY <2>1, <2>2, TypeSplits
<1>2. CallersOK'
  BY DEF IInv, TypeOK, CallersOK, ReconnectOver, Callers
<1>3. FlagsOK'
  BY DEF IInv, TypeOK, FlagsOK, CallersOK, Callers
<1>4. CallsOK'
  BY DEF IInv, TypeOK, CallsOK, FlagsOK, WorkersFinished, Finished, Callers
<1>5. QuietOK'
  BY DEF IInv, TypeOK, QuietOK, CallersOK, ReconnectOver, WorkersFinished, Finished, Callers
<1>6. NoFrameAcrossConnections'
  BY DEF IInv, NoFrameAcrossConnections
<1> QED BY <1>1, <1>2, <1>3, <1>4, <1>5, <1>6 DEF IInv

LEMMA BeatStopsPreserves == IInv /\ BeatStops => IInv'
<1> SUFFICES ASSUME IInv, BeatStops PROVE IInv'
  OBVIOUS
<1> USE DEF BeatStops, beatRest, reconnectVars, boundVars
<1>1. TypeOK'
  <2>1. BooleansOK'
    BY TypeSplits, Zenon DEF IInv, BooleansOK
  <2>2. OthersOK'
    BY TypeSplits DEF IInv, OthersOK, Callers
  <2> QED BY <2>1, <2>2, TypeSplits
<1>2. CallersOK'
  BY DEF IInv, TypeOK, CallersOK, ReconnectOver, Callers
<1>3. FlagsOK'
  BY DEF IInv, TypeOK, FlagsOK, CallersOK, Callers
<1>4. CallsOK'
  BY DEF IInv, TypeOK, CallsOK, FlagsOK, WorkersFinished, Finished, Callers
<1>5. QuietOK'
  BY DEF IInv, TypeOK, QuietOK, CallersOK, ReconnectOver, WorkersFinished, Finished, Callers
<1>6. NoFrameAcrossConnections'
  BY DEF IInv, NoFrameAcrossConnections
<1> QED BY <1>1, <1>2, <1>3, <1>4, <1>5, <1>6 DEF IInv

LEMMA BeatExpiresPreserves == IInv /\ BeatExpires => IInv'
<1> SUFFICES ASSUME IInv, BeatExpires PROVE IInv'
  OBVIOUS
<1> USE DEF BeatExpires, beatRest, reconnectVars, boundVars
<1>1. TypeOK'
  <2>1. BooleansOK'
    BY TypeSplits, Zenon DEF IInv, BooleansOK
  <2>2. OthersOK'
    BY TypeSplits DEF IInv, OthersOK, Callers
  <2> QED BY <2>1, <2>2, TypeSplits
<1>2. CallersOK'
  BY DEF IInv, TypeOK, CallersOK, ReconnectOver, Callers
<1>3. FlagsOK'
  BY DEF IInv, TypeOK, FlagsOK, CallersOK, Callers
<1>4. CallsOK'
  BY DEF IInv, TypeOK, CallsOK, FlagsOK, WorkersFinished, Finished, Callers
<1>5. QuietOK'
  BY DEF IInv, TypeOK, QuietOK, CallersOK, ReconnectOver, WorkersFinished, Finished, Callers
<1>6. NoFrameAcrossConnections'
  BY DEF IInv, NoFrameAcrossConnections
<1> QED BY <1>1, <1>2, <1>3, <1>4, <1>5, <1>6 DEF IInv

LEMMA BeatClosesPreserves == IInv /\ BeatCloses => IInv'
<1> SUFFICES ASSUME IInv, BeatCloses PROVE IInv'
  OBVIOUS
<1> USE DEF BeatCloses, beatRest, reconnectVars, boundVars, Notified, CloseSocket
<1>1. TypeOK'
  <2>1. BooleansOK'
    BY TypeSplits, Zenon DEF IInv, BooleansOK
  <2>2. OthersOK'
    BY TypeSplits DEF IInv, OthersOK, Callers
  <2> QED BY <2>1, <2>2, TypeSplits
<1>2. CallersOK'
  BY DEF IInv, TypeOK, CallersOK, ReconnectOver, Callers
<1>3. FlagsOK'
  BY DEF IInv, TypeOK, FlagsOK, CallersOK, Callers
<1>4. CallsOK'
  BY DEF IInv, TypeOK, CallsOK, FlagsOK, WorkersFinished, Finished, Callers
<1>5. QuietOK'
  BY DEF IInv, TypeOK, QuietOK, CallersOK, ReconnectOver, WorkersFinished, Finished, Callers
<1>6. NoFrameAcrossConnections'
  BY DEF IInv, NoFrameAcrossConnections
<1> QED BY <1>1, <1>2, <1>3, <1>4, <1>5, <1>6 DEF IInv

LEMMA BeatPushesPreserves == IInv /\ BeatPushes => IInv'
<1> SUFFICES ASSUME IInv, BeatPushes PROVE IInv'
  OBVIOUS
<1> USE DEF BeatPushes, beatRest, reconnectVars, boundVars
<1>1. TypeOK'
  <2>1. BooleansOK'
    BY TypeSplits, Zenon DEF IInv, BooleansOK
  <2>2. OthersOK'
    BY TypeSplits DEF IInv, OthersOK, Callers
  <2> QED BY <2>1, <2>2, TypeSplits
<1>2. CallersOK'
  BY DEF IInv, TypeOK, CallersOK, ReconnectOver, Callers
<1>3. FlagsOK'
  BY DEF IInv, TypeOK, FlagsOK, CallersOK, Callers
<1>4. CallsOK'
  BY DEF IInv, TypeOK, CallsOK, FlagsOK, WorkersFinished, Finished, Callers
<1>5. QuietOK'
  BY DEF IInv, TypeOK, QuietOK, CallersOK, ReconnectOver, WorkersFinished, Finished, Callers
<1>6. NoFrameAcrossConnections'
  BY DEF IInv, NoFrameAcrossConnections
<1> QED BY <1>1, <1>2, <1>3, <1>4, <1>5, <1>6 DEF IInv

LEMMA WindowHandlesDisconnectPreserves == IInv /\ WindowHandlesDisconnect => IInv'
<1> SUFFICES ASSUME IInv, WindowHandlesDisconnect PROVE IInv'
  OBVIOUS
<1> USE DEF WindowHandlesDisconnect, workerVars, boundVars
<1>1. TypeOK'
  <2>1. BooleansOK'
    BY TypeSplits, Zenon DEF IInv, BooleansOK
  <2>2. OthersOK'
    BY TypeSplits DEF IInv, OthersOK, Callers
  <2> QED BY <2>1, <2>2, TypeSplits
<1>2. CallersOK'
  BY DEF IInv, TypeOK, CallersOK, ReconnectOver, Callers
<1>3. FlagsOK'
  BY DEF IInv, TypeOK, FlagsOK, CallersOK, Callers
<1>4. CallsOK'
  BY DEF IInv, TypeOK, CallsOK, FlagsOK, WorkersFinished, Finished, Callers
<1>5. QuietOK'
  BY DEF IInv, TypeOK, QuietOK, CallersOK, ReconnectOver, WorkersFinished, Finished, Callers
<1>6. NoFrameAcrossConnections'
  BY DEF IInv, NoFrameAcrossConnections
<1> QED BY <1>1, <1>2, <1>3, <1>4, <1>5, <1>6 DEF IInv

LEMMA WindowStartsReconnectPreserves == IInv /\ WindowStartsReconnect => IInv'
<1> SUFFICES ASSUME IInv, WindowStartsReconnect PROVE IInv'
  OBVIOUS
<1> USE DEF WindowStartsReconnect, windowRest, clientVars, workerVars, clientVars
<1>1. TypeOK'
  <2>1. BooleansOK'
    BY TypeSplits, Zenon DEF IInv, BooleansOK
  <2>2. OthersOK'
    BY TypeSplits DEF IInv, OthersOK, Callers
  <2> QED BY <2>1, <2>2, TypeSplits
<1>2. CallersOK'
  BY DEF IInv, TypeOK, CallersOK, ReconnectOver, Callers
<1>3. FlagsOK'
  BY DEF IInv, TypeOK, FlagsOK, CallersOK, Callers
<1>4. CallsOK'
  BY DEF IInv, TypeOK, CallsOK, FlagsOK, WorkersFinished, Finished, Callers
<1>5. QuietOK'
  BY DEF IInv, TypeOK, QuietOK, CallersOK, ReconnectOver, WorkersFinished, Finished, Callers
<1>6. NoFrameAcrossConnections'
  BY DEF IInv, NoFrameAcrossConnections
<1> QED BY <1>1, <1>2, <1>3, <1>4, <1>5, <1>6 DEF IInv

LEMMA WindowCallsPreserves == IInv /\ WindowCalls => IInv'
<1> SUFFICES ASSUME IInv, WindowCalls PROVE IInv'
  OBVIOUS
<1> USE DEF WindowCalls, windowRest, clientVars, workerVars, Goes, clientVars
<1>1. TypeOK'
  <2>1. BooleansOK'
    BY TypeSplits, Zenon DEF IInv, BooleansOK
  <2>2. OthersOK'
    BY TypeSplits DEF IInv, OthersOK, Callers
  <2> QED BY <2>1, <2>2, TypeSplits
<1>2. CallersOK'
  BY DEF IInv, TypeOK, CallersOK, ReconnectOver, Callers
<1>3. FlagsOK'
  BY DEF IInv, TypeOK, FlagsOK, CallersOK, Callers
<1>4. CallsOK'
  BY DEF IInv, TypeOK, CallsOK, FlagsOK, WorkersFinished, Finished, Callers
<1>5. QuietOK'
  BY DEF IInv, TypeOK, QuietOK, CallersOK, ReconnectOver, WorkersFinished, Finished, Callers
<1>6. NoFrameAcrossConnections'
  BY DEF IInv, NoFrameAcrossConnections
<1> QED BY <1>1, <1>2, <1>3, <1>4, <1>5, <1>6 DEF IInv

LEMMA ReconnectAttemptsPreserves == IInv /\ ReconnectAttempts => IInv'
<1> SUFFICES ASSUME IInv, ReconnectAttempts PROVE IInv'
  OBVIOUS
<1> USE DEF ReconnectAttempts, loopRest, clientVars, workerVars, boundVars, Goes, clientVars
<1>1. TypeOK'
  <2>1. BooleansOK'
    BY TypeSplits, Zenon DEF IInv, BooleansOK
  <2>2. OthersOK'
    BY TypeSplits DEF IInv, OthersOK, Callers
  <2> QED BY <2>1, <2>2, TypeSplits
<1>2. CallersOK'
  BY DEF IInv, TypeOK, CallersOK, ReconnectOver, Callers
<1>3. FlagsOK'
  BY DEF IInv, TypeOK, FlagsOK, CallersOK, Callers
<1>4. CallsOK'
  BY DEF IInv, TypeOK, CallsOK, FlagsOK, WorkersFinished, Finished, Callers
<1>5. QuietOK'
  BY DEF IInv, TypeOK, QuietOK, CallersOK, ReconnectOver, WorkersFinished, Finished, Callers
<1>6. NoFrameAcrossConnections'
  BY DEF IInv, NoFrameAcrossConnections
<1> QED BY <1>1, <1>2, <1>3, <1>4, <1>5, <1>6 DEF IInv

LEMMA ReconnectPausesPreserves == IInv /\ ReconnectPauses => IInv'
<1> SUFFICES ASSUME IInv, ReconnectPauses PROVE IInv'
  OBVIOUS
<1> USE DEF ReconnectPauses, loopRest, clientVars, workerVars, boundVars, clientVars
<1>1. TypeOK'
  <2>1. BooleansOK'
    BY TypeSplits, Zenon DEF IInv, BooleansOK
  <2>2. OthersOK'
    BY TypeSplits DEF IInv, OthersOK, Callers
  <2> QED BY <2>1, <2>2, TypeSplits
<1>2. CallersOK'
  BY DEF IInv, TypeOK, CallersOK, ReconnectOver, Callers
<1>3. FlagsOK'
  BY DEF IInv, TypeOK, FlagsOK, CallersOK, Callers
<1>4. CallsOK'
  BY DEF IInv, TypeOK, CallsOK, FlagsOK, WorkersFinished, Finished, Callers
<1>5. QuietOK'
  BY DEF IInv, TypeOK, QuietOK, CallersOK, ReconnectOver, WorkersFinished, Finished, Callers
<1>6. NoFrameAcrossConnections'
  BY DEF IInv, NoFrameAcrossConnections
<1> QED BY <1>1, <1>2, <1>3, <1>4, <1>5, <1>6 DEF IInv

LEMMA ReconnectEndsPreserves == IInv /\ ReconnectEnds => IInv'
<1> SUFFICES ASSUME IInv, ReconnectEnds PROVE IInv'
  OBVIOUS
<1> USE DEF ReconnectEnds, loopRest, clientVars, workerVars, boundVars, clientVars
<1>1. TypeOK'
  <2>1. BooleansOK'
    BY TypeSplits, Zenon DEF IInv, BooleansOK
  <2>2. OthersOK'
    BY TypeSplits DEF IInv, OthersOK, Callers
  <2> QED BY <2>1, <2>2, TypeSplits
<1>2. CallersOK'
  BY DEF IInv, TypeOK, CallersOK, ReconnectOver, Callers
<1>3. FlagsOK'
  BY DEF IInv, TypeOK, FlagsOK, CallersOK, Callers
<1>4. CallsOK'
  BY DEF IInv, TypeOK, CallsOK, FlagsOK, WorkersFinished, Finished, Callers
<1>5. QuietOK'
  BY DEF IInv, TypeOK, QuietOK, CallersOK, ReconnectOver, WorkersFinished, Finished, Callers
<1>6. NoFrameAcrossConnections'
  BY DEF IInv, NoFrameAcrossConnections
<1> QED BY <1>1, <1>2, <1>3, <1>4, <1>5, <1>6 DEF IInv

-----------------------------------------------------------------------------
(* The steps that change send_queue_. *)

\* What EnqueueMessage does, whoever calls it.
LEMMA EnqueueFacts ==
    ASSUME IInv, NEW kind \in {"sync", "edit", "ping"}, Enqueue(kind), connection' = connection
    PROVE  /\ sendQueue' \in Seq(Frame) /\ NoFrameAcrossConnections'
           /\ sendPc' = sendPc \/ (sendPc = "asleep" /\ sendPc' = "top")
           /\ ~ connected => sendQueue' = sendQueue /\ sendPc' = sendPc
<1> DEFINE frame == [kind |-> kind, of |-> connection]
<1>1. sendQueue \in Seq(Frame) /\ frame \in Frame
  BY DEF IInv, TypeOK, Frame
<1>2. CASE sendQueue' = Append(sendQueue, frame)
  <2>1. sendQueue' \in Seq(Frame) /\ Range(sendQueue') = Range(sendQueue) \cup {frame}
    <3> HIDE DEF frame
    <3> QED BY <1>1, <1>2, RangeAppend
  <2> QED BY <2>1, <1>2 DEF IInv, NoFrameAcrossConnections, Enqueue, Notified
<1>3. CASE ~ (sendQueue' = Append(sendQueue, frame))
  <2>1. UNCHANGED <<sendQueue, sendPc>>
    BY <1>3 DEF Enqueue
  <2> QED BY <2>1, <1>1 DEF IInv, NoFrameAcrossConnections
<1> QED BY <1>2, <1>3

LEMMA BeatPingsPreserves == IInv /\ BeatPings => IInv'
<1> SUFFICES ASSUME IInv, BeatPings PROVE IInv'
  OBVIOUS
<1>q. /\ sendQueue' \in Seq(Frame) /\ NoFrameAcrossConnections'
      /\ sendPc' = sendPc \/ (sendPc = "asleep" /\ sendPc' = "top")
      /\ ~ connected => sendQueue' = sendQueue /\ sendPc' = sendPc
  BY EnqueueFacts DEF BeatPings, beatRest
<1> USE DEF BeatPings, beatRest, reconnectVars, boundVars, Notified
<1>1. TypeOK'
  <2>1. BooleansOK'
    BY TypeSplits, Zenon DEF IInv, BooleansOK
  <2>2. OthersOK'
    BY <1>q, TypeSplits DEF IInv, OthersOK, Callers
  <2> QED BY <2>1, <2>2, TypeSplits
<1>2. CallersOK'
  BY <1>q DEF IInv, TypeOK, CallersOK, ReconnectOver, Callers
<1>3. FlagsOK'
  BY <1>q DEF IInv, TypeOK, FlagsOK, CallersOK, Callers
<1>4. CallsOK'
  BY <1>q DEF IInv, TypeOK, CallsOK, FlagsOK, WorkersFinished, Finished, Callers
<1>5. QuietOK'
  BY <1>q DEF IInv, TypeOK, QuietOK, CallersOK, ReconnectOver, WorkersFinished, Finished, Callers
<1> QED BY <1>1, <1>2, <1>3, <1>4, <1>5, <1>q DEF IInv

LEMMA WindowTypesPreserves == IInv /\ WindowTypes => IInv'
<1> SUFFICES ASSUME IInv, WindowTypes PROVE IInv'
  OBVIOUS
<1>q. /\ sendQueue' \in Seq(Frame) /\ NoFrameAcrossConnections'
      /\ sendPc' = sendPc \/ (sendPc = "asleep" /\ sendPc' = "top")
      /\ ~ connected => sendQueue' = sendQueue /\ sendPc' = sendPc
  BY EnqueueFacts DEF WindowTypes, beatRest
<1> USE DEF WindowTypes, reconnectVars, boundVars, Notified
<1>1. TypeOK'
  <2>1. BooleansOK'
    BY TypeSplits, Zenon DEF IInv, BooleansOK
  <2>2. OthersOK'
    BY <1>q, TypeSplits DEF IInv, OthersOK, Callers
  <2> QED BY <2>1, <2>2, TypeSplits
<1>2. CallersOK'
  BY <1>q DEF IInv, TypeOK, CallersOK, ReconnectOver, Callers
<1>3. FlagsOK'
  BY <1>q DEF IInv, TypeOK, FlagsOK, CallersOK, Callers
<1>4. CallsOK'
  BY <1>q DEF IInv, TypeOK, CallsOK, FlagsOK, WorkersFinished, Finished, Callers
<1>5. QuietOK'
  BY <1>q DEF IInv, TypeOK, QuietOK, CallersOK, ReconnectOver, WorkersFinished, Finished, Callers
<1> QED BY <1>1, <1>2, <1>3, <1>4, <1>5, <1>q DEF IInv

LEMMA SendTestsPreserves == IInv /\ SendTests => IInv'
<1> SUFFICES ASSUME IInv, SendTests PROVE IInv'
  OBVIOUS
<1>q. /\ sendQueue' \in Seq(Frame) /\ Range(sendQueue') \subseteq Range(sendQueue)
      /\ sendQueue = <<>> => sendQueue' = <<>>
  BY RangeTail DEF IInv, TypeOK, SendTests
<1> USE DEF SendTests, sendRest, reconnectVars
<1>1. TypeOK'
  <2>1. BooleansOK'
    BY TypeSplits, Zenon DEF IInv, BooleansOK
  <2>2. OthersOK'
    BY <1>q, TypeSplits DEF IInv, OthersOK, Callers
  <2> QED BY <2>1, <2>2, TypeSplits
<1>2. CallersOK'
  BY <1>q DEF IInv, TypeOK, CallersOK, ReconnectOver, Callers
<1>3. FlagsOK'
  BY <1>q DEF IInv, TypeOK, FlagsOK, CallersOK, Callers
<1>4. CallsOK'
  BY <1>q DEF IInv, TypeOK, CallsOK, FlagsOK, WorkersFinished, Finished, Callers
<1>5. QuietOK'
  BY <1>q DEF IInv, TypeOK, QuietOK, CallersOK, ReconnectOver, WorkersFinished, Finished, Callers
<1>6. NoFrameAcrossConnections'
  <2>1. connection' = connection
    BY DEF SendTests, sendRest
  <2> QED BY <1>q, <2>1 DEF IInv, NoFrameAcrossConnections
<1> QED BY <1>1, <1>2, <1>3, <1>4, <1>5, <1>6 DEF IInv

-----------------------------------------------------------------------------
(* The user's commands, the wire, and the steps of Connect and Disconnect. *)

LEMMA WindowStopsPreserves ==
    ASSUME IInv, NEW command \in {"leaving", "joining"}, WindowStops(command) PROVE IInv'
<1> USE DEF WindowStops, windowRest, clientVars, workerVars, clientVars
<1>1. TypeOK'
  <2>1. BooleansOK'
    BY TypeSplits, Zenon DEF IInv, BooleansOK
  <2>2. OthersOK'
    BY TypeSplits DEF IInv, OthersOK, Callers
  <2> QED BY <2>1, <2>2, TypeSplits
<1>2. CallersOK'
  BY DEF IInv, TypeOK, CallersOK, ReconnectOver, Callers
<1>3. FlagsOK'
  BY DEF IInv, TypeOK, FlagsOK, CallersOK, Callers
<1>4. CallsOK'
  BY DEF IInv, TypeOK, CallsOK, FlagsOK, WorkersFinished, Finished, Callers
<1>5. QuietOK'
  BY DEF IInv, TypeOK, QuietOK, CallersOK, ReconnectOver, WorkersFinished, Finished, Callers
<1>6. NoFrameAcrossConnections'
  BY DEF IInv, NoFrameAcrossConnections
<1> QED BY <1>1, <1>2, <1>3, <1>4, <1>5, <1>6 DEF IInv

LEMMA WireBreaksPreserves == IInv /\ WireBreaks => IInv'
<1> SUFFICES ASSUME IInv, WireBreaks PROVE IInv'
  OBVIOUS
<1> USE DEF WireBreaks, workerVars, reconnectVars
<1>1. TypeOK'
  <2>1. BooleansOK'
    BY TypeSplits, Zenon DEF IInv, BooleansOK
  <2>2. OthersOK'
    BY TypeSplits DEF IInv, OthersOK, Callers
  <2> QED BY <2>1, <2>2, TypeSplits
<1>2. CallersOK'
  BY DEF IInv, TypeOK, CallersOK, ReconnectOver, Callers
<1>3. FlagsOK'
  BY DEF IInv, TypeOK, FlagsOK, CallersOK, Callers
<1>4. CallsOK'
  BY DEF IInv, TypeOK, CallsOK, FlagsOK, WorkersFinished, Finished, Callers
<1>5. QuietOK'
  BY DEF IInv, TypeOK, QuietOK, CallersOK, ReconnectOver, WorkersFinished, Finished, Callers
<1>6. NoFrameAcrossConnections'
  BY DEF IInv, NoFrameAcrossConnections
<1> QED BY <1>1, <1>2, <1>3, <1>4, <1>5, <1>6 DEF IInv

\* The other caller is outside, as long as t is inside.
LEMMA OtherCallIdle ==
    ASSUME IInv, NEW t \in Callers, calls[t] # "none"
    PROVE  \A u \in Callers : u # t => calls[u] = "none"
BY DEF IInv, CallersOK, ReconnectOver, Callers

LEMMA CallSetsFlagsPreserves == ASSUME IInv, NEW t \in Callers, CallSetsFlags(t) PROVE IInv'
<1> USE DEF CallSetsFlags, callRest, workerVars, Continues, Goes
<1>1. TypeOK'
  <2>1. BooleansOK'
    BY TypeSplits, Zenon DEF IInv, BooleansOK
  <2>2. OthersOK'
    BY TypeSplits DEF IInv, OthersOK, Callers
  <2> QED BY <2>1, <2>2, TypeSplits
<1>2. CallersOK'
  BY DEF IInv, TypeOK, CallersOK, ReconnectOver, Callers
<1>3. FlagsOK'
  <2>1. \A u \in Callers : calls'[u] \in {"none", "notify"}
    BY OtherCallIdle DEF IInv, TypeOK
  <2>2. ~ connected' /\ stopping'
    OBVIOUS
  <2> HIDE DEF CallSetsFlags
  <2> QED BY <2>1, <2>2 DEF FlagsOK
<1>4. CallsOK'
  BY DEF IInv, TypeOK, CallsOK, FlagsOK, WorkersFinished, Finished, Callers
<1>5. QuietOK'
  BY DEF IInv, TypeOK, QuietOK, CallersOK, ReconnectOver, WorkersFinished, Finished, Callers
<1>6. NoFrameAcrossConnections'
  BY DEF IInv, NoFrameAcrossConnections
<1> QED BY <1>1, <1>2, <1>3, <1>4, <1>5, <1>6 DEF IInv

LEMMA CallNotifiesPreserves == ASSUME IInv, NEW t \in Callers, CallNotifies(t) PROVE IInv'
<1> USE DEF CallNotifies, callRest, Continues, Notified, Goes, clientVars
<1>1. TypeOK'
  <2>1. BooleansOK'
    BY TypeSplits, Zenon DEF IInv, BooleansOK
  <2>2. OthersOK'
    BY TypeSplits DEF IInv, OthersOK, Callers
  <2> QED BY <2>1, <2>2, TypeSplits
<1>2. CallersOK'
  BY DEF IInv, TypeOK, CallersOK, ReconnectOver, Callers
<1>3. FlagsOK'
  BY DEF IInv, TypeOK, FlagsOK, CallersOK, Callers
<1>4. CallsOK'
  BY DEF IInv, TypeOK, CallsOK, FlagsOK, WorkersFinished, Finished, Callers
<1>5. QuietOK'
  BY DEF IInv, TypeOK, QuietOK, CallersOK, ReconnectOver, WorkersFinished, Finished, Callers
<1>6. NoFrameAcrossConnections'
  BY DEF IInv, NoFrameAcrossConnections
<1> QED BY <1>1, <1>2, <1>3, <1>4, <1>5, <1>6 DEF IInv

LEMMA CallClosesPreserves == ASSUME IInv, NEW t \in Callers, CallCloses(t) PROVE IInv'
<1> USE DEF CallCloses, callRest, workerVars, Continues, Returns, Disconnecting, CloseSocket,
   Goes
<1>1. TypeOK'
  <2>1. BooleansOK'
    BY TypeSplits, Zenon DEF IInv, BooleansOK
  <2>2. OthersOK'
    BY TypeSplits DEF IInv, OthersOK, Callers
  <2> QED BY <2>1, <2>2, TypeSplits
<1>2. CallersOK'
  BY DEF IInv, TypeOK, CallersOK, ReconnectOver, Callers
<1>3. /\ calls[t] = "close" /\ ~ connected /\ stopping /\ sendQueue = <<>> /\ WorkersFinished
      /\ UNCHANGED <<connected, stopping, connection, sendQueue, workerVars>>
  BY DEF IInv, CallsOK, FlagsOK
<1>4. \A u \in Callers : u # t => calls'[u] = "none"
  BY <1>3, OtherCallIdle DEF IInv, TypeOK
<1>5. calls'[t] \in {"none", "open"}
  BY DEF IInv, TypeOK
<1>6. WorkersFinished'
  BY <1>3 DEF WorkersFinished, Finished
<1>7. ~ socket'
  BY DEF CloseSocket
<1> HIDE DEF CallCloses
<1>8. FlagsOK'
  BY <1>3, <1>4, <1>5 DEF FlagsOK, Callers
<1>9. CallsOK'
  BY <1>3, <1>4, <1>5, <1>6, <1>7 DEF CallsOK, Callers
<1>10. QuietOK'
  BY <1>3, <1>6, <1>7 DEF QuietOK
<1>11. NoFrameAcrossConnections'
  BY <1>3 DEF IInv, NoFrameAcrossConnections
<1> QED BY <1>1, <1>2, <1>8, <1>9, <1>10, <1>11 DEF IInv

LEMMA CallOpensPreserves == ASSUME IInv, NEW t \in Callers, CallOpens(t) PROVE IInv'
<1> USE DEF CallOpens, callRest, workerVars, Continues, Returns, Goes
<1>1. TypeOK'
  <2>1. BooleansOK'
    BY TypeSplits, Zenon DEF IInv, BooleansOK
  <2>2. OthersOK'
    BY TypeSplits DEF IInv, OthersOK, Callers
  <2> QED BY <2>1, <2>2, TypeSplits
<1>2. CallersOK'
  BY DEF IInv, TypeOK, CallersOK, ReconnectOver, Callers
<1>0. ~ stopping'
  OBVIOUS
<1>3. /\ calls[t] = "open" /\ ~ connected /\ ~ socket /\ sendQueue = <<>> /\ WorkersFinished
      /\ UNCHANGED <<connected, connection, sendQueue, workerVars>>
  BY DEF IInv, CallsOK, FlagsOK
<1>4. \A u \in Callers : u # t => calls'[u] = "none"
  BY <1>3, OtherCallIdle DEF IInv, TypeOK
<1>5. \/ calls'[t] = "none" /\ socket' = socket
      \/ calls'[t] = "handshake"
  BY DEF IInv, TypeOK
<1>6. WorkersFinished'
  BY <1>3 DEF WorkersFinished, Finished
<1>7. calls'["window"] = "handshake" \/ ~ socket' \/ role' # "Offline"
  BY <1>1, <1>3, <1>5 DEF IInv, CallersOK, Callers, ReconnectOver
<1> HIDE DEF CallOpens
<1>8. FlagsOK'
  BY <1>0, <1>3, <1>4, <1>5 DEF FlagsOK, Callers
<1>9. CallsOK'
  BY <1>3, <1>4, <1>5, <1>6 DEF CallsOK, Callers
<1>10. QuietOK'
  BY <1>3, <1>6, <1>7 DEF QuietOK
<1>11. NoFrameAcrossConnections'
  BY <1>3 DEF IInv, NoFrameAcrossConnections
<1> QED BY <1>1, <1>2, <1>8, <1>9, <1>10, <1>11 DEF IInv

LEMMA CallStartsWorkersPreserves == ASSUME IInv, NEW t \in Callers, CallStartsWorkers(t) PROVE IInv'
<1> USE DEF CallStartsWorkers, callRest, Continues, Goes, clientVars
<1>1. TypeOK'
  <2>1. BooleansOK'
    BY TypeSplits, Zenon DEF IInv, BooleansOK
  <2>2. OthersOK'
    BY TypeSplits DEF IInv, OthersOK, Callers
  <2> QED BY <2>1, <2>2, TypeSplits
<1>2. CallersOK'
  BY DEF IInv, TypeOK, CallersOK, ReconnectOver, Callers
<1>3. /\ calls[t] = "start"
      /\ UNCHANGED <<connected, stopping, socket, sendQueue, connection, role>>
  OBVIOUS
<1>4. \A u \in Callers : u # t => calls[u] = "none" /\ calls'[u] = "none"
  BY <1>3, OtherCallIdle DEF IInv, TypeOK
<1>5. calls'[t] = "request" /\ receivePc' = "top" /\ sendPc' = "top" /\ beatPc' = "sleep"
  BY DEF IInv, TypeOK
<1>6. (connected => ~ stopping) /\ (t = "reconnect" => role # "Offline")
  BY <1>3 DEF IInv, FlagsOK, CallersOK, ReconnectOver
<1> HIDE DEF CallStartsWorkers
<1>8. FlagsOK'
  BY <1>3, <1>4, <1>5, <1>6 DEF FlagsOK, Callers
<1>9. CallsOK'
  BY <1>3, <1>4, <1>5 DEF CallsOK, Callers
<1>10. QuietOK'
  BY <1>3, <1>5, <1>6 DEF QuietOK, Callers
<1>11. NoFrameAcrossConnections'
  BY <1>3 DEF IInv, NoFrameAcrossConnections
<1> QED BY <1>1, <1>2, <1>8, <1>9, <1>10, <1>11 DEF IInv

LEMMA CallJoinsWorkersPreserves == ASSUME IInv, NEW t \in Callers, CallJoinsWorkers(t) PROVE IInv'
<1> USE DEF CallJoinsWorkers, callRest, workerVars, Continues, Goes
<1>1. TypeOK'
  <2>1. BooleansOK'
    BY TypeSplits, Zenon DEF IInv, BooleansOK
  <2>2. OthersOK'
    BY TypeSplits DEF IInv, OthersOK, Callers
  <2> QED BY <2>1, <2>2, TypeSplits
<1>2. CallersOK'
  BY DEF IInv, TypeOK, CallersOK, ReconnectOver, Callers
<1>3. FlagsOK'
  BY DEF IInv, TypeOK, FlagsOK, CallersOK, Callers
<1>4. CallsOK'
  BY DEF IInv, TypeOK, CallsOK, FlagsOK, WorkersFinished, Finished, Callers
<1>5. QuietOK'
  BY DEF IInv, TypeOK, QuietOK, CallersOK, ReconnectOver, WorkersFinished, Finished, Callers
<1>6. NoFrameAcrossConnections'
  BY RangeEmpty DEF NoFrameAcrossConnections
<1> QED BY <1>1, <1>2, <1>3, <1>4, <1>5, <1>6 DEF IInv

LEMMA CallShakesHandsPreserves == ASSUME IInv, NEW t \in Callers, CallShakesHands(t) PROVE IInv'
<1> USE DEF CallShakesHands, callRest, workerVars, Continues, Returns, CloseSocket, Goes
<1>1. TypeOK'
  <2>1. BooleansOK'
    BY TypeSplits, Zenon DEF IInv, BooleansOK
  <2>2. OthersOK'
    BY TypeSplits DEF IInv, OthersOK, Callers
  <2> QED BY <2>1, <2>2, TypeSplits
<1>2. CallersOK'
  BY DEF IInv, TypeOK, CallersOK, ReconnectOver, Callers
<1>3. /\ calls[t] = "handshake" /\ ~ connected /\ sendQueue = <<>> /\ WorkersFinished
      /\ UNCHANGED <<stopping, sendQueue, workerVars>>
  BY DEF IInv, CallsOK, FlagsOK
<1>4. \A u \in Callers : u # t => calls[u] = "none" /\ calls'[u] = "none"
  BY <1>3, OtherCallIdle DEF IInv, TypeOK
<1>5. \/ calls'[t] = "none" /\ ~ socket' /\ connected' = connected
      \/ calls'[t] = "start" /\ UNCHANGED role
  BY DEF IInv, TypeOK
<1>6. WorkersFinished'
  BY <1>3 DEF WorkersFinished, Finished
<1>7. ~ stopping /\ (t = "reconnect" => role # "Offline")
  BY <1>3 DEF IInv, FlagsOK, CallersOK, ReconnectOver
<1> HIDE DEF CallShakesHands
<1>8. FlagsOK'
  BY <1>3, <1>4, <1>5, <1>6, <1>7 DEF FlagsOK, Callers, WorkersFinished, Finished
<1>9. CallsOK'
  BY <1>3, <1>4, <1>5, <1>6 DEF CallsOK, Callers
<1>10. QuietOK'
  BY <1>3, <1>4, <1>5, <1>6, <1>7 DEF QuietOK, Callers
<1>11. NoFrameAcrossConnections'
  <2>1. sendQueue' = <<>>
    BY <1>3
  <2> QED BY <2>1, RangeEmpty DEF NoFrameAcrossConnections
<1> QED BY <1>1, <1>2, <1>8, <1>9, <1>10, <1>11 DEF IInv

LEMMA CallRequestsPreserves == ASSUME IInv, NEW t \in Callers, CallRequests(t) PROVE IInv'
<1>q. /\ sendQueue' \in Seq(Frame) /\ NoFrameAcrossConnections'
      /\ sendPc' = sendPc \/ (sendPc = "asleep" /\ sendPc' = "top")
      /\ ~ connected => sendQueue' = sendQueue /\ sendPc' = sendPc
  BY EnqueueFacts DEF CallRequests
<1> USE DEF CallRequests, callRest, Returns, Notified, Goes
<1>1. TypeOK'
  <2>1. BooleansOK'
    BY TypeSplits, Zenon DEF IInv, BooleansOK
  <2>2. OthersOK'
    BY <1>q, TypeSplits DEF IInv, OthersOK, Callers
  <2> QED BY <2>1, <2>2, TypeSplits
<1>2. CallersOK'
  BY <1>q DEF IInv, TypeOK, CallersOK, ReconnectOver, Callers
<1>3. /\ calls[t] = "request"
      /\ UNCHANGED <<connected, stopping, socket, connection, receivePc, beatPc>>
  OBVIOUS
<1>4. \A u \in Callers : u # t => calls[u] = "none" /\ calls'[u] = "none"
  BY <1>3, OtherCallIdle DEF IInv, TypeOK
<1>5. calls'[t] = "none" /\ (t = "reconnect" => role' # "Offline")
      /\ (t = "window" => role' = "Guest")
  <2>1. /\ t = "window" => windowPc = "joining"
        /\ t = "reconnect" => role # "Offline"
    BY <1>3 DEF IInv, CallersOK, ReconnectOver, Callers
  <2> QED BY <1>3, <2>1 DEF IInv, TypeOK, Callers
<1> HIDE DEF CallRequests
<1>8. FlagsOK'
  <2>1. \A u \in Callers : calls[u] \notin {"start"}
    BY <1>3, <1>4
  <2>2. sendPc' = "close" => sendPc = "close"
    BY <1>q
  <2> QED BY <1>3, <1>4, <1>5, <2>1, <2>2 DEF IInv, FlagsOK
<1>9. CallsOK'
  BY <1>4, <1>5 DEF CallsOK
<1>10. QuietOK'
  BY <1>5 DEF QuietOK, Callers
<1> QED BY <1>1, <1>2, <1>8, <1>9, <1>10, <1>q DEF IInv

-----------------------------------------------------------------------------
\* Every step of the five threads, of the user and of the wire keeps the invariant.
LEMMA NextPreserves == IInv /\ [Next]_vars => IInv'
<1> SUFFICES ASSUME IInv, [Next]_vars PROVE IInv'
  OBVIOUS
<1>1. CASE Send \/ SendWakesUnasked
  BY <1>1, SendTestsPreserves, SendSleepsPreserves, SendSucceedsPreserves, SendFailsPreserves,
     SendClosesPreserves, SendWakesUnaskedPreserves DEF Send
<1>2. CASE Receive
  BY <1>2, ReceiveLooksPreserves, ReceiveReturnsPreserves, ReceiveFailsPreserves,
     ReceiveClosesPreserves, ReceiveNotifiesPreserves, ReceivePushesPreserves DEF Receive
<1>3. CASE Beat \/ BeatPings
  BY <1>3, BeatStopsPreserves, BeatExpiresPreserves, BeatClosesPreserves, BeatPushesPreserves,
     BeatPingsPreserves DEF Beat
<1>4. ASSUME NEW t \in Callers, Call(t) PROVE IInv'
  BY <1>4, CallSetsFlagsPreserves, CallNotifiesPreserves, CallJoinsWorkersPreserves,
     CallClosesPreserves, CallOpensPreserves, CallShakesHandsPreserves,
     CallStartsWorkersPreserves, CallRequestsPreserves DEF Call
<1>5. CASE Window \/ Reconnect
  BY <1>5, WindowHandlesDisconnectPreserves, WindowStartsReconnectPreserves,
     WindowCallsPreserves, ReconnectAttemptsPreserves, ReconnectPausesPreserves,
     ReconnectEndsPreserves DEF Window, Reconnect
<1>6. CASE User \/ WireBreaks
  BY <1>6, WindowTypesPreserves, WindowStopsPreserves, WireBreaksPreserves DEF User
<1>7. CASE UNCHANGED vars
  <2> USE <1>7 DEF vars, clientVars, workerVars, reconnectVars, boundVars
  <2>1. TypeOK'
    BY DEF IInv, TypeOK
  <2>2. CallersOK' /\ FlagsOK'
    BY DEF IInv, CallersOK, FlagsOK, ReconnectOver
  <2>3. CallsOK' /\ QuietOK' /\ NoFrameAcrossConnections'
    BY DEF IInv, CallsOK, QuietOK, WorkersFinished, NoFrameAcrossConnections
  <2> QED BY <2>1, <2>2, <2>3 DEF IInv
<1> QED BY <1>1, <1>2, <1>3, <1>4, <1>5, <1>6, <1>7 DEF Next, Callers

\* Whatever breaks, whoever calls and in whatever order the threads run: the invariant
\* holds.
THEOREM Invariance == Spec => []IInv
BY InitEstablishes, NextPreserves, PTL DEF Spec

\* The client's flags, queue and threads stay what they should be; no event is taken from
\* an empty queue.
THEOREM TypeCorrect == Spec => []TypeOK
<1>1. IInv => TypeOK
  BY DEF IInv
<1> QED BY <1>1, Invariance, PTL

\* The window thread and the reconnect thread are never both in Connect or Disconnect,
\* which take no lock.
THEOREM CallsExclude == Spec => []OneCallAtATime
<1>1. IInv => OneCallAtATime
  BY DEF IInv, CallersOK, ReconnectOver, OneCallAtATime
<1> QED BY <1>1, Invariance, PTL

\* No thread of an earlier connection is alive when Connect opens, or starts the threads
\* of, the next one.
THEOREM WorkersEndFirst == Spec => []NoWorkerAcrossConnections
<1>1. IInv => NoWorkerAcrossConnections
  BY DEF IInv, CallsOK, WorkersFinished, NoWorkerAcrossConnections
<1> QED BY <1>1, Invariance, PTL

\* A frame is only ever sent on the connection it was queued for.
THEOREM FramesStay == Spec => []NoFrameAcrossConnections
<1>1. IInv => NoFrameAcrossConnections
  BY DEF IInv
<1> QED BY <1>1, Invariance, PTL

\* A client that calls itself connected has a thread that reads, or is about to.
THEOREM Watched == Spec => []ConnectedIsWatched
<1>1. IInv => ConnectedIsWatched
  BY DEF IInv, TypeOK, FlagsOK, ConnectedIsWatched
<1> QED BY <1>1, Invariance, PTL

\* StartReconnectLoop never makes the window thread wait for a reconnect under way.
THEOREM WindowStaysFree == Spec => []WindowNeverWaitsForReconnect
<1>1. IInv => WindowNeverWaitsForReconnect
  BY DEF IInv, CallersOK, ReconnectOver, WindowNeverWaitsForReconnect
<1> QED BY <1>1, Invariance, PTL

\* A user who is offline has no worker, no reconnect, no socket and no queued frame.
THEOREM OfflineStaysQuiet == Spec => []OfflineIsQuiet
<1>1. IInv => OfflineIsQuiet
  <2> SUFFICES ASSUME IInv, role = "Offline", windowPc = "idle" PROVE OfflineIsQuiet
    BY DEF OfflineIsQuiet
  <2>1. calls["window"] = "none" /\ ReconnectOver
    BY DEF IInv, CallersOK
  <2> QED BY <2>1 DEF IInv, QuietOK, OfflineIsQuiet, WorkersFinished, ReconnectOver
<1> QED BY <1>1, Invariance, PTL
=============================================================================
