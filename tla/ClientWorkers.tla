---------------------------- MODULE ClientWorkers ----------------------------
(***************************************************************************)
(* The threads around the guest's SyncClient: its SendLoop, ReceiveLoop    *)
(* and HeartbeatLoop, the window thread that enqueues frames, joins and    *)
(* leaves a room and handles the Disconnected event, and the reconnect     *)
(* thread that event starts.                                               *)
(*                                                                         *)
(* Connect and Disconnect are one program, run by the window thread or by  *)
(* the reconnect thread: "calls" says where each of them is in it.         *)
(*                                                                         *)
(* send_mutex_ is held by SendLoop from the test of its predicate until it *)
(* sleeps (sendPc = "tested"); elsewhere it is held within one action.     *)
(* Time is not modelled: a recv that times out is a step back to the top   *)
(* of ReceiveLoop, and 15 seconds without a PONG pass only on a silent     *)
(* wire.  What frames say is not modelled, except which is the request for *)
(* the document and which is a PING.                                       *)
(***************************************************************************)
EXTENDS Naturals, Sequences, Functions

CONSTANTS
    MaxReconnectAttempts,   \* kMaxReconnectAttempts
    MaxFailures,            \* bound on broken wires, sends that time out and refused joins
    MaxQueue,               \* bound on the frames waiting in send_queue_
    MaxCommands             \* bound on the user's joins and leaves

ASSUME WorkersAssumption ==
    /\ MaxReconnectAttempts \in Nat \ {0}
    /\ MaxFailures \in Nat /\ MaxQueue \in Nat \ {0} /\ MaxCommands \in Nat

Callers == {"window", "reconnect"}

VARIABLES
    connected, stopping,    \* connected_ and stopping_, atomics
    socket,                 \* socket_ is valid
    wire,                   \* the peer: "up", "closed" (its end is seen) or "silent"
    connection,             \* history: number of connections joined so far
    sendQueue,              \* send_queue_: frames with the connection they were queued for
    sendPc, receivePc, beatPc,  \* where the three workers are; "none" before the first start
    disconnects,            \* Disconnected events in event_queue_
    calls,                  \* where each caller is in Connect or Disconnect
    windowPc,               \* what the window thread is doing
    role,                   \* sync_role_: "Offline" or "Guest"
    reconnecting, reconnectStop,    \* reconnecting_ and reconnect_stop_
    reconnectPc, attempt,   \* where ReconnectLoop is, and its attempt
    failures, commands

clientVars    == <<connected, stopping, socket, wire, connection, sendQueue, disconnects>>
workerVars    == <<sendPc, receivePc, beatPc>>
reconnectVars == <<reconnecting, reconnectStop, reconnectPc, attempt>>
boundVars     == <<failures, commands>>
vars == <<clientVars, workerVars, calls, windowPc, role, reconnectVars, boundVars>>

Frame == [kind : {"sync", "edit", "ping"}, of : Nat]

Init ==
    /\ connected = FALSE /\ stopping = FALSE
    /\ socket = FALSE /\ wire = "closed"
    /\ connection = 0 /\ sendQueue = <<>> /\ disconnects = 0
    /\ sendPc = "none" /\ receivePc = "none" /\ beatPc = "none"
    /\ calls = [t \in Callers |-> "none"]
    /\ windowPc = "idle" /\ role = "Offline"
    /\ reconnecting = FALSE /\ reconnectStop = FALSE
    /\ reconnectPc = "none" /\ attempt = 0
    /\ failures = 0 /\ commands = 0

-----------------------------------------------------------------------------
(* Shared steps. *)

\* A thread can take send_mutex_.
MutexFree == sendPc # "tested"

\* send_cv_.notify_all(): only a thread that already sleeps is woken.
Notified == IF sendPc = "asleep" THEN "top" ELSE sendPc

\* EnqueueMessage: a frame is taken while connected_ is set and stopping_ is not.  The
\* frames over the bound are left out.
Enqueue(kind) ==
    /\ MutexFree
    /\ IF connected /\ ~ stopping /\ Len(sendQueue) < MaxQueue
       THEN /\ sendQueue' = Append(sendQueue, [kind |-> kind, of |-> connection])
            /\ sendPc' = Notified
       ELSE UNCHANGED <<sendQueue, sendPc>>

\* CloseSocket: the peer sees the end of the connection.
CloseSocket == socket' = FALSE /\ wire' = IF socket THEN "closed" ELSE wire

Finished(pc) == pc \in {"none", "done"}

-----------------------------------------------------------------------------
(* SendLoop. *)

sendRest == <<receivePc, beatPc, calls, windowPc, role, reconnectVars, commands, connection,
              stopping, disconnects>>

\* The loop condition, the lock and the predicate of the wait.
SendTests ==
    /\ sendPc = "top"
    /\ sendPc' = IF stopping THEN "done" ELSE IF sendQueue = <<>> THEN "tested" ELSE "send"
    /\ sendQueue' = IF stopping \/ sendQueue = <<>> THEN sendQueue ELSE Tail(sendQueue)
    /\ UNCHANGED <<sendRest, connected, socket, wire, failures>>

\* The wait releases send_mutex_ and sleeps, whatever happened since the test.
SendSleeps ==
    /\ sendPc = "tested"
    /\ sendPc' = "asleep"
    /\ UNCHANGED <<sendRest, sendQueue, connected, socket, wire, failures>>

\* A wait may wake up unasked; the standard allows it and does not promise it.
SendWakesUnasked ==
    /\ sendPc = "asleep"
    /\ sendPc' = "top"
    /\ UNCHANGED <<sendRest, sendQueue, connected, socket, wire, failures>>

\* A send succeeds as long as the frame fits the buffers of the connection, whether or
\* not the peer is still there.
SendSucceeds ==
    /\ sendPc = "send" /\ socket
    /\ sendPc' = "top"
    /\ UNCHANGED <<sendRest, sendQueue, connected, socket, wire, failures>>

\* It fails on a closed socket, on a broken wire, and when it times out (one second).
SendFails ==
    /\ sendPc = "send"
    /\ \/ (~ socket \/ wire # "up") /\ UNCHANGED failures
       \/ socket /\ wire = "up" /\ failures < MaxFailures /\ failures' = failures + 1
    /\ connected' = FALSE
    /\ sendPc' = "close"
    /\ UNCHANGED <<sendRest, sendQueue, socket, wire>>

SendCloses ==
    /\ sendPc = "close"
    /\ CloseSocket
    /\ sendPc' = "done"
    /\ UNCHANGED <<sendRest, sendQueue, connected, failures>>

-----------------------------------------------------------------------------
(* ReceiveLoop. *)

receiveRest == <<sendQueue, beatPc, calls, windowPc, role, reconnectVars, boundVars,
                 connection, stopping>>

\* The loop condition and the look at socket_.  A socket that another thread closed ends
\* the loop without an event.
ReceiveLooks ==
    /\ receivePc = "top"
    /\ receivePc' = IF stopping \/ ~ socket THEN "done" ELSE "recv"
    /\ connected' = IF ~ stopping /\ ~ socket THEN FALSE ELSE connected
    /\ UNCHANGED <<receiveRest, sendPc, socket, wire, disconnects>>

\* recv returns a message or times out.
ReceiveReturns ==
    /\ receivePc = "recv" /\ socket /\ wire # "closed"
    /\ receivePc' = "top"
    /\ UNCHANGED <<receiveRest, sendPc, connected, socket, wire, disconnects>>

\* A slip: connected_ is left to be cleared by Disconnect.
ReceiveFailsStillConnected ==
    /\ receivePc = "recv" /\ (~ socket \/ wire = "closed")
    /\ receivePc' = "close"
    /\ UNCHANGED <<receiveRest, sendPc, connected, socket, wire, disconnects>>

\* recv finds the end of the connection, or the socket closed under it.
ReceiveFails ==
    /\ receivePc = "recv" /\ (~ socket \/ wire = "closed")
    /\ connected' = FALSE
    /\ receivePc' = "close"
    /\ UNCHANGED <<receiveRest, sendPc, socket, wire, disconnects>>

ReceiveCloses ==
    /\ receivePc = "close"
    /\ CloseSocket
    /\ receivePc' = "notify"
    /\ UNCHANGED <<receiveRest, sendPc, connected, disconnects>>

\* notify_all; the event is pushed unless the client is being stopped.
ReceiveNotifies ==
    /\ receivePc = "notify"
    /\ sendPc' = Notified
    /\ receivePc' = IF stopping THEN "done" ELSE "push"
    /\ UNCHANGED <<receiveRest, connected, socket, wire, disconnects>>

ReceivePushes ==
    /\ receivePc = "push"
    /\ disconnects' = disconnects + 1
    /\ receivePc' = "done"
    /\ UNCHANGED <<receiveRest, sendPc, connected, socket, wire>>

-----------------------------------------------------------------------------
(* HeartbeatLoop. *)

beatRest == <<receivePc, calls, windowPc, role, reconnectVars, boundVars, connection, stopping>>

BeatStops ==
    /\ beatPc = "sleep" /\ stopping
    /\ beatPc' = "done"
    /\ UNCHANGED <<beatRest, sendPc, sendQueue, connected, socket, wire, disconnects>>

BeatPings ==
    /\ beatPc = "sleep" /\ ~ stopping /\ connected
    /\ Enqueue("ping")
    /\ UNCHANGED <<beatRest, beatPc, connected, socket, wire, disconnects>>

\* No PONG for fifteen seconds.
BeatExpires ==
    /\ beatPc = "sleep" /\ ~ stopping /\ connected /\ wire = "silent"
    /\ connected' = FALSE
    /\ beatPc' = "close"
    /\ UNCHANGED <<beatRest, sendPc, sendQueue, socket, wire, disconnects>>

\* CloseSocket and notify_all.
BeatCloses ==
    /\ beatPc = "close"
    /\ CloseSocket
    /\ sendPc' = Notified
    /\ beatPc' = "push"
    /\ UNCHANGED <<beatRest, sendQueue, connected, disconnects>>

BeatPushes ==
    /\ beatPc = "push"
    /\ disconnects' = disconnects + 1
    /\ beatPc' = "done"
    /\ UNCHANGED <<beatRest, sendPc, sendQueue, connected, socket, wire>>

-----------------------------------------------------------------------------
(* Connect and Disconnect, run by caller t. *)

Goes(t, step) == calls' = [calls EXCEPT ![t] = step]

\* HandleLeaveRoom runs Disconnect only; HandleJoinRoom and ReconnectLoop run Connect,
\* which begins with Disconnect.
Disconnecting(t) == t = "window" /\ windowPc = "leaving"

\* The call returns: a join makes the user a guest if it succeeded, a leave puts the user
\* offline, an attempt of ReconnectLoop is over.
Returns(t, ok) ==
    /\ Goes(t, "none")
    /\ windowPc'    = IF t = "window" THEN "idle" ELSE windowPc
    /\ role'        = IF t # "window" THEN role
                      ELSE IF windowPc = "joining" /\ ok THEN "Guest" ELSE "Offline"
    /\ reconnectPc' = IF t # "reconnect" THEN reconnectPc
                      ELSE IF ok THEN "succeeded" ELSE "delay"

Continues(t, step) == Goes(t, step) /\ UNCHANGED <<windowPc, role, reconnectPc>>

callRest == <<reconnecting, reconnectStop, attempt, commands>>

\* connected_ and stopping_: no thread acts on one of the two without the other.
CallSetsFlags(t) ==
    /\ calls[t] = "flags"
    /\ connected' = FALSE /\ stopping' = TRUE
    /\ Continues(t, "notify")
    /\ UNCHANGED <<callRest, workerVars, socket, wire, connection, sendQueue, disconnects,
                   failures>>

\* StopWorkers notifies without taking send_mutex_ ...
CallNotifies(t) ==
    /\ calls[t] = "notify"
    /\ sendPc' = Notified
    /\ Continues(t, "join")
    /\ UNCHANGED <<callRest, clientVars, receivePc, beatPc, failures>>

\* A slip: the frames of the connection that ends are kept.
CallJoinsWorkersKeepingFrames(t) ==
    /\ calls[t] = "join"
    /\ Finished(sendPc) /\ Finished(receivePc) /\ Finished(beatPc)
    /\ Continues(t, "close")
    /\ UNCHANGED <<callRest, workerVars, clientVars, failures>>

\* A slip: the heartbeat thread is not waited for.
CallJoinsTwoWorkers(t) ==
    /\ calls[t] = "join"
    /\ Finished(sendPc) /\ Finished(receivePc)
    /\ sendQueue' = <<>>
    /\ Continues(t, "close")
    /\ UNCHANGED <<callRest, workerVars, connected, stopping, socket, wire, connection,
                   disconnects, failures>>

\* ... joins the three threads and clears send_queue_.
CallJoinsWorkers(t) ==
    /\ calls[t] = "join"
    /\ Finished(sendPc) /\ Finished(receivePc) /\ Finished(beatPc)
    /\ sendQueue' = <<>>
    /\ Continues(t, "close")
    /\ UNCHANGED <<callRest, workerVars, connected, stopping, socket, wire, connection,
                   disconnects, failures>>

\* A slip: the socket is left to the next Connect.
CallLeavesSocket(t) ==
    /\ calls[t] = "close"
    /\ IF Disconnecting(t) THEN Returns(t, TRUE) ELSE Continues(t, "open")
    /\ UNCHANGED <<callRest, workerVars, clientVars, failures>>

\* The last step of Disconnect.
CallCloses(t) ==
    /\ calls[t] = "close"
    /\ CloseSocket
    /\ IF Disconnecting(t) THEN Returns(t, TRUE) ELSE Continues(t, "open")
    /\ UNCHANGED <<callRest, workerVars, connected, stopping, connection, sendQueue,
                   disconnects, failures>>

\* stopping_ is reset and the socket connects, or times out or is refused.
CallOpens(t) ==
    /\ calls[t] = "open"
    /\ stopping' = FALSE
    /\ \/ /\ socket' = TRUE /\ wire' = "up"
          /\ Continues(t, "handshake")
          /\ UNCHANGED failures
       \/ /\ failures < MaxFailures /\ failures' = failures + 1
          /\ Returns(t, FALSE)
          /\ UNCHANGED <<socket, wire>>
    /\ UNCHANGED <<callRest, workerVars, connected, connection, sendQueue, disconnects>>

\* SendHelloAndJoin and ReadJoinResponse: JOIN_OK, or a refusal, a timeout, a broken wire.
CallShakesHands(t) ==
    /\ calls[t] = "handshake"
    /\ \/ /\ wire = "up"
          /\ connected' = TRUE /\ connection' = connection + 1
          /\ Continues(t, "start")
          /\ UNCHANGED <<socket, wire, failures>>
       \/ /\ \/ wire # "up" /\ UNCHANGED failures
             \/ wire = "up" /\ failures < MaxFailures /\ failures' = failures + 1
          /\ CloseSocket
          /\ Returns(t, FALSE)
          /\ UNCHANGED <<connected, connection>>
    /\ UNCHANGED <<callRest, workerVars, stopping, sendQueue, disconnects>>

\* StartWorkers.
CallStartsWorkers(t) ==
    /\ calls[t] = "start"
    /\ sendPc' = "top" /\ receivePc' = "top" /\ beatPc' = "sleep"
    /\ Continues(t, "request")
    /\ UNCHANGED <<callRest, clientVars, failures>>

\* SendSyncRequest, the end of Connect.
CallRequests(t) ==
    /\ calls[t] = "request"
    /\ Enqueue("sync")
    /\ Returns(t, TRUE)
    /\ UNCHANGED <<callRest, receivePc, beatPc, connected, stopping, socket, wire, connection,
                   disconnects, failures>>

-----------------------------------------------------------------------------
(* The window thread. *)

windowRest == <<clientVars, workerVars, role, failures>>

\* A slip: every event starts a reconnect.
WindowHandlesEveryEvent ==
    /\ windowPc = "idle" /\ disconnects > 0
    /\ disconnects' = disconnects - 1
    /\ IF role = "Guest"
       THEN reconnecting' = TRUE /\ reconnectStop' = FALSE /\ windowPc' = "starting"
       ELSE UNCHANGED <<reconnecting, reconnectStop, windowPc>>
    /\ UNCHANGED <<connected, stopping, socket, wire, connection, sendQueue, workerVars, calls,
                   role, reconnectPc, attempt, boundVars>>

\* HandleSyncEvent(Disconnected) and StartReconnectLoop: an event that finds reconnecting_
\* set is dropped.
WindowHandlesDisconnect ==
    /\ windowPc = "idle" /\ disconnects > 0
    /\ disconnects' = disconnects - 1
    /\ IF role = "Guest" /\ ~ reconnecting
       THEN reconnecting' = TRUE /\ reconnectStop' = FALSE /\ windowPc' = "starting"
       ELSE UNCHANGED <<reconnecting, reconnectStop, windowPc>>
    /\ UNCHANGED <<connected, stopping, socket, wire, connection, sendQueue, workerVars, calls,
                   role, reconnectPc, attempt, boundVars>>

\* StartReconnectLoop joins the previous reconnect thread and starts the next.
WindowStartsReconnect ==
    /\ windowPc = "starting" /\ reconnectPc \in {"none", "done", "gaveUp"}
    /\ reconnectPc' = "attempt" /\ attempt' = 1
    /\ windowPc' = "idle"
    /\ UNCHANGED <<windowRest, calls, reconnecting, reconnectStop, commands>>

\* SendInsert or SendDelete.
WindowTypes ==
    /\ windowPc = "idle" /\ role = "Guest"
    /\ Enqueue("edit")
    /\ UNCHANGED <<connected, stopping, socket, wire, connection, disconnects, receivePc, beatPc,
                   calls, windowPc, role, reconnectVars, boundVars>>

\* HandleLeaveRoom, HandleJoinRoom: both begin with StopReconnectLoop; the menu offers a
\* guest only the one and a user who is offline only the other.  An event that was posted
\* is handled before the command of the next join.  A join that finds no room ends here,
\* with nothing changed.
WindowStops(command) ==
    /\ windowPc = "idle" /\ commands < MaxCommands
    /\ \/ command = "leaving" /\ role = "Guest"
       \/ command = "joining" /\ role = "Offline" /\ disconnects = 0
    /\ reconnectStop' = TRUE
    /\ windowPc' = command
    /\ commands' = commands + 1
    /\ UNCHANGED <<windowRest, calls, reconnecting, reconnectPc, attempt>>

\* The reconnect thread has been joined; the call into the client begins.
WindowCalls ==
    /\ windowPc \in {"leaving", "joining"} /\ calls["window"] = "none"
    /\ reconnectPc \in {"none", "done", "gaveUp"}
    /\ reconnecting' = FALSE
    /\ Goes("window", "flags")
    /\ UNCHANGED <<windowRest, windowPc, reconnectStop, reconnectPc, attempt, commands>>

-----------------------------------------------------------------------------
(* ReconnectLoop. *)

loopRest == <<clientVars, workerVars, windowPc, role, boundVars, reconnectStop>>

ReconnectAttempts ==
    /\ reconnectPc = "attempt"
    /\ IF attempt <= MaxReconnectAttempts /\ ~ reconnectStop
       THEN reconnectPc' = "connecting" /\ Goes("reconnect", "flags")
       ELSE reconnectPc' = "failed" /\ UNCHANGED calls
    /\ UNCHANGED <<loopRest, reconnecting, attempt>>

\* The pause after a failed attempt, cut short by reconnect_stop_.
ReconnectPauses ==
    /\ reconnectPc = "delay"
    /\ reconnectPc' = "attempt" /\ attempt' = attempt + 1
    /\ UNCHANGED <<loopRest, calls, reconnecting>>

\* The loop ends: reconnecting_ is reset, and the failure is shown unless it was stopped.
ReconnectEnds ==
    /\ reconnectPc \in {"succeeded", "failed"}
    /\ reconnecting' = FALSE
    /\ reconnectPc' = IF reconnectPc = "failed" /\ ~ reconnectStop THEN "gaveUp" ELSE "done"
    /\ UNCHANGED <<loopRest, calls, attempt>>

-----------------------------------------------------------------------------
\* The connection breaks: its end is seen, or the peer just falls silent.
WireBreaks ==
    /\ wire = "up" /\ failures < MaxFailures
    /\ wire' \in {"closed", "silent"}
    /\ failures' = failures + 1
    /\ UNCHANGED <<connected, stopping, socket, connection, sendQueue, disconnects, workerVars,
                   calls, windowPc, role, reconnectVars, commands>>

Send      == SendTests \/ SendSleeps \/ SendSucceeds \/ SendFails \/ SendCloses
Receive   == ReceiveLooks \/ ReceiveReturns \/ ReceiveFails \/ ReceiveCloses
             \/ ReceiveNotifies \/ ReceivePushes
Beat      == BeatStops \/ BeatExpires \/ BeatCloses \/ BeatPushes
Call(t)   == \/ CallSetsFlags(t) \/ CallNotifies(t) \/ CallJoinsWorkers(t) \/ CallCloses(t)
             \/ CallOpens(t) \/ CallShakesHands(t) \/ CallStartsWorkers(t) \/ CallRequests(t)
Window    == WindowHandlesDisconnect \/ WindowStartsReconnect \/ WindowCalls
Reconnect == ReconnectAttempts \/ ReconnectPauses \/ ReconnectEnds
User      == WindowTypes \/ WindowStops("leaving") \/ WindowStops("joining")

Next == \/ Send \/ SendWakesUnasked \/ Receive \/ Beat \/ BeatPings
        \/ Call("window") \/ Call("reconnect") \/ Window \/ Reconnect
        \/ User \/ WireBreaks

Spec == Init /\ [][Next]_vars

\* Every thread keeps running; a heartbeat that expires is not put off forever.
Fairness ==
    /\ WF_vars(Send) /\ WF_vars(Receive) /\ WF_vars(Beat)
    /\ WF_vars(Call("window")) /\ WF_vars(Call("reconnect"))
    /\ WF_vars(Window) /\ WF_vars(Reconnect)

FairSpec == Spec /\ Fairness

-----------------------------------------------------------------------------
\* The counters and queues of the client stay what they should be; no event is taken from
\* an empty queue.
TypeOK ==
    /\ connected \in BOOLEAN /\ stopping \in BOOLEAN /\ socket \in BOOLEAN
    /\ wire \in {"up", "closed", "silent"}
    /\ connection \in Nat /\ disconnects \in Nat
    /\ sendQueue \in Seq(Frame)
    /\ sendPc \in {"none", "top", "tested", "asleep", "send", "close", "done"}
    /\ receivePc \in {"none", "top", "recv", "close", "notify", "push", "done"}
    /\ beatPc \in {"none", "sleep", "close", "push", "done"}
    /\ calls \in [Callers -> {"none", "flags", "notify", "join", "close", "open", "handshake",
                              "start", "request"}]
    /\ windowPc \in {"idle", "starting", "leaving", "joining"}
    /\ role \in {"Offline", "Guest"}
    /\ reconnecting \in BOOLEAN /\ reconnectStop \in BOOLEAN
    /\ reconnectPc \in {"none", "attempt", "connecting", "delay", "succeeded", "failed",
                        "gaveUp", "done"}
    /\ attempt \in Nat /\ failures \in Nat /\ commands \in Nat

\* Connect and Disconnect are not locked: it is StopReconnectLoop and reconnecting_ that
\* keep the window thread and the reconnect thread from running them at the same time.
OneCallAtATime == calls["window"] = "none" \/ calls["reconnect"] = "none"

\* Connect replaces the socket and the std::thread members only when all three threads of
\* the earlier connection have ended: assigning a running one would end the program.
NoWorkerAcrossConnections ==
    (\E t \in Callers : calls[t] \in {"close", "open", "handshake", "start"}) =>
        Finished(sendPc) /\ Finished(receivePc) /\ Finished(beatPc)

\* No frame queued for one connection waits to be sent on a later one, although the window
\* enqueues while the reconnect thread stops and starts the client.
NoFrameAcrossConnections == \A f \in Range(sendQueue) : f.of = connection

\* As long as the client calls itself connected a thread is reading, or about to be
\* started, that will notice the end of the connection.
ConnectedIsWatched ==
    connected => \/ receivePc \in {"top", "recv"}
                 \/ \E t \in Callers : calls[t] = "start"

\* StartReconnectLoop, on the window thread, never waits for a reconnect that is under way.
WindowNeverWaitsForReconnect ==
    windowPc = "starting" => reconnectPc \in {"none", "done", "gaveUp"}

\* A user who is offline leaves nothing running: no worker, no reconnect, no socket and no
\* frame for the next room.
OfflineIsQuiet ==
    role = "Offline" /\ windowPc = "idle" =>
        /\ ~ connected /\ ~ socket /\ sendQueue = <<>>
        /\ Finished(sendPc) /\ Finished(receivePc) /\ Finished(beatPc)
        /\ reconnectPc \in {"none", "done", "gaveUp"}

\* A guest whose connection is lost comes to reconnect (docs/04: the network is cut ->
\* Reconnecting), unless the user leaves or all attempts failed.
LossIsNoticed ==
    (role = "Guest" /\ ~ connected) ~>
        (\/ reconnecting \/ connected \/ reconnectPc = "gaveUp"
         \/ role = "Offline" \/ windowPc = "leaving")

\* Leaving a room, and closing the program, comes to an end: the window thread does not
\* wait forever for the workers.
LeavingEnds == windowPc = "leaving" ~> windowPc = "idle"
=============================================================================
