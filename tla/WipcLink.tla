------------------------------ MODULE WipcLink ------------------------------
(***************************************************************************)
(* The app's connection to the native backend, as the threads that use it  *)
(* see it:                                                                 *)
(*                                                                         *)
(*   NativeConnection          connect(), disconnect() and onReconnect()   *)
(*                             under its monitor, backendHalt() without    *)
(*   ReconnectOnCloseListener  the wish to stay connected, and the timer   *)
(*                             of the next attempt, under its own monitor  *)
(*   Halt, AuthenticationHandler  the handlers of a channel's pipeline     *)
(*                                                                         *)
(* Threads: the callers of connect() and disconnect() (Users), the thread  *)
(* of BackgroundService.stopWebServices (Service), the worker of each      *)
(* HashedWheelTimer, and the event loops.  An event loop matters as a      *)
(* thread only while it runs the close listener of a channel, so it stands *)
(* in the model as that channel's Closer.                                  *)
(*                                                                         *)
(* Netty 4.1.15 is external.  What the code depends on:                    *)
(*   - channels are dealt out to the event loops in turn;                  *)
(*   - HashedWheelTimer.stop() cancels the timeouts that wait and joins    *)
(*     the worker, in the middle of a task too;                            *)
(*   - a listener that adds itself to a completed future while it is being *)
(*     notified is notified again at once, without end.  This is what      *)
(*     operationComplete does when its channel closes: from then on the    *)
(*     event loop of the channel runs nothing else (Spinning).             *)
(***************************************************************************)
EXTENDS Naturals

CONSTANTS
    Users,          \* threads that call connect() and disconnect()
    Service,        \* the thread that calls teardown()
    None,           \* no thread
    NLoops,         \* event loops of the NioEventLoopGroup
    MaxChannels,    \* bound on the connection attempts
    MaxCalls        \* bound on the calls of Users and Service

Channels == 1 .. MaxChannels
Timers == 0 .. MaxChannels

Closer(c) == <<"closer", c>>
Worker(k) == <<"worker", k>>
Closers == {Closer(c) : c \in Channels}
Workers == {Worker(k) : k \in Timers}
Actors == Users \cup {Service} \cup Closers \cup Workers

ASSUME BoundsAssumption ==
    NLoops \in Nat \ {0} /\ MaxChannels \in Nat /\ MaxCalls \in Nat
ASSUME ActorsAssumption ==
    /\ None \notin Actors
    /\ Service \notin Users
    /\ (Users \cup {Service}) \cap (Closers \cup Workers) = {}

VARIABLES
    pc,                  \* where each thread is
    conMonitor,          \* holder of the monitor of NativeConnection
    rocMonitor,          \* holder of the monitor of ReconnectOnCloseListener
    calls,               \* number of calls made so far
    made,                \* number of channels made so far
    channelFuture,       \* the channel of the field channelFuture; 0: null
    ch,                  \* state of each channel
    authed,              \* the auth handler has left the pipeline
    closeReq,            \* a close of the channel is queued on its event loop
    roc,                 \* the reconnect listener on the connect future
    onClose,             \* the anonymous listener on the close future
    haltOn,              \* channels whose connect future has a halt listener
    halt,                \* the halt handler in the pipeline
    disconnectRequested,
    timer,               \* the current timer; timers are numbered as made
    timeouts,            \* timeouts waiting in each timer
    stopped              \* the timer has been stopped

monitors == <<conMonitor, rocMonitor>>
chans == <<made, channelFuture, ch, authed, closeReq>>
listeners == <<roc, onClose, haltOn, halt>>
timing == <<disconnectRequested, timer, timeouts, stopped>>
vars == <<pc, monitors, calls, chans, listeners, timing>>

PC == {"idle", "isReady", "isDone", "isDone2", "connect", "requestReconnect",
       "addRoc", "addOnClose", "requestDisconnect", "stop", "close",
       "addHalt", "onReconnect"}

Init ==
    /\ pc = [a \in Actors |-> "idle"]
    /\ conMonitor = None /\ rocMonitor = None
    /\ calls = 0 /\ made = 0 /\ channelFuture = 0
    /\ ch = [c \in Channels |-> "none"]
    /\ authed = [c \in Channels |-> FALSE]
    /\ closeReq = [c \in Channels |-> FALSE]
    /\ roc = [c \in Channels |-> "no"]
    /\ onClose = [c \in Channels |-> "no"]
    /\ haltOn = {}
    /\ halt = [c \in Channels |-> "no"]
    /\ disconnectRequested = FALSE
    /\ timer = 0
    /\ timeouts = [k \in Timers |-> 0]
    /\ stopped = [k \in Timers |-> FALSE]

Go(a, l) == pc' = [pc EXCEPT ![a] = l]

Dead(c) == ch[c] \in {"failed", "closed"}
Done(c) == ch[c] \in {"open", "failed", "closed"}

-----------------------------------------------------------------------------
(* The event loops.                                                        *)

LoopOf(c) == c % NLoops

Spinning(c) == ch[c] = "closed" /\ roc[c] = "ran"

(* The loop calls the listeners of a connect future when it completes it,  *)
(* and does nothing else before they have returned.                        *)
Notifying(c) == roc[c] = "added" /\ Done(c)

Busy(c) == Spinning(c) \/ Notifying(c) \/ pc[Closer(c)] # "idle"

OthersIdle(c) == \A d \in Channels \ {c} : LoopOf(d) = LoopOf(c) => ~Busy(d)

LoopRuns(c) == OthersIdle(c) /\ ~Busy(c)

-----------------------------------------------------------------------------
(* Calls.  A synchronized method begins when it gets the monitor.          *)

(* connect() throws and ends; backendHalt() goes on with the channel it has. *)
Refuse(a) ==
    IF a = Service
    THEN Go(a, "addHalt") /\ UNCHANGED conMonitor
    ELSE Go(a, "idle") /\ conMonitor' = None

Proceed(a) ==
    /\ Go(a, "connect")
    /\ UNCHANGED conMonitor

IsReady == channelFuture # 0 /\ ch[channelFuture] = "open"

Connect(u) ==
    /\ pc[u] = "idle" /\ calls < MaxCalls /\ conMonitor = None
    /\ calls' = calls + 1
    /\ IF IsReady
       THEN UNCHANGED <<pc, conMonitor>>
       ELSE Go(u, "isDone") /\ conMonitor' = u
    /\ UNCHANGED <<rocMonitor, chans, listeners, timing>>

Disconnect(u) ==
    /\ pc[u] = "idle" /\ calls < MaxCalls /\ conMonitor = None
    /\ calls' = calls + 1
    /\ conMonitor' = u
    /\ Go(u, "requestDisconnect")
    /\ UNCHANGED <<rocMonitor, chans, listeners, timing>>

BackendHalt ==
    /\ pc[Service] = "idle" /\ calls < MaxCalls
    /\ calls' = calls + 1
    /\ rocMonitor = None /\ rocMonitor' = Service
    /\ disconnectRequested' = TRUE
    /\ Go(Service, "stop")
    /\ UNCHANGED <<conMonitor, chans, listeners, timer, timeouts, stopped>>

(* hasConnectionInProgress() reads the state of the future twice.          *)
HasConnectionInProgress(a) ==
    /\ pc[a] = "isDone"
    /\ \/ /\ channelFuture = 0
          /\ Proceed(a)
       \/ /\ channelFuture # 0 /\ Done(channelFuture)
          /\ IF disconnectRequested THEN Proceed(a) ELSE Refuse(a)
       \/ /\ channelFuture # 0 /\ ~Done(channelFuture)
          /\ Go(a, "isDone2") /\ UNCHANGED conMonitor
    /\ UNCHANGED <<rocMonitor, calls, chans, listeners, timing>>

StillInProgress(a) ==
    /\ pc[a] = "isDone2"
    /\ IF Done(channelFuture) THEN Proceed(a) ELSE Refuse(a)
    /\ UNCHANGED <<rocMonitor, calls, chans, listeners, timing>>

(* The new channel is given to the next event loop; nothing waits for it.  *)
BootstrapConnect ==
    /\ made < MaxChannels
    /\ made' = made + 1
    /\ channelFuture' = made + 1
    /\ ch' = [ch EXCEPT ![made + 1] = "pending"]
    /\ UNCHANGED <<authed, closeReq>>

(* doConnect() of a caller that holds the monitor, of onReconnect() that   *)
(* has to get it, and the bare attempt of backendHalt() without it.        *)
DoConnect(a) ==
    /\ pc[a] = "connect" /\ a # Service
    /\ BootstrapConnect
    /\ Go(a, "requestReconnect")
    /\ UNCHANGED <<monitors, calls, listeners, timing>>

OnReconnect(a) ==
    /\ pc[a] = "onReconnect" /\ conMonitor = None
    /\ conMonitor' = a
    /\ BootstrapConnect
    /\ Go(a, "requestReconnect")
    /\ UNCHANGED <<rocMonitor, calls, listeners, timing>>

HaltConnect ==
    /\ pc[Service] = "connect"
    /\ BootstrapConnect
    /\ Go(Service, "addHalt")
    /\ UNCHANGED <<monitors, calls, listeners, timing>>

(* The timer that was in use is left as it is, with what waits in it.      *)
RequestReconnect(a) ==
    /\ pc[a] = "requestReconnect" /\ rocMonitor = None
    /\ disconnectRequested' = FALSE
    /\ timer' = timer + 1
    /\ Go(a, "addRoc")
    /\ UNCHANGED <<monitors, calls, chans, listeners, timeouts, stopped>>

AddReconnectListener(a) ==
    /\ pc[a] = "addRoc"
    /\ roc' = [roc EXCEPT ![channelFuture] =
           IF Done(channelFuture) THEN "late" ELSE "added"]
    /\ Go(a, "addOnClose")
    /\ UNCHANGED <<monitors, calls, chans, onClose, haltOn, halt, timing>>

(* A listener that comes after the end of the channel may find the         *)
(* pipeline already emptied ("late").                                      *)
AddCloseListener(a) ==
    /\ pc[a] = "addOnClose"
    /\ onClose' = [onClose EXCEPT ![channelFuture] =
           IF Dead(channelFuture) /\ ~Spinning(channelFuture)
           THEN "late" ELSE "added"]
    /\ conMonitor' = None
    /\ Go(a, "idle")
    /\ UNCHANGED <<rocMonitor, calls, chans, roc, haltOn, halt, timing>>

RequestDisconnect(u) ==
    /\ pc[u] = "requestDisconnect" /\ rocMonitor = None
    /\ rocMonitor' = u
    /\ disconnectRequested' = TRUE
    /\ Go(u, "stop")
    /\ UNCHANGED <<conMonitor, calls, chans, listeners, timer, timeouts, stopped>>

(* Faulty variant: a stop() that does not wait for the worker.             *)
StopTimer_NoJoin(a) ==
    /\ pc[a] = "stop"
    /\ timeouts' = [timeouts EXCEPT ![timer] = 0]
    /\ stopped' = [stopped EXCEPT ![timer] = TRUE]
    /\ rocMonitor' = None
    /\ Go(a, IF a = Service THEN "isReady" ELSE "close")
    /\ UNCHANGED <<conMonitor, calls, chans, listeners, disconnectRequested, timer>>

(* stop() returns when the worker has ended the task it is in.             *)
StopTimer(a) ==
    /\ pc[a] = "stop" /\ pc[Worker(timer)] = "idle"
    /\ timeouts' = [timeouts EXCEPT ![timer] = 0]
    /\ stopped' = [stopped EXCEPT ![timer] = TRUE]
    /\ rocMonitor' = None
    /\ Go(a, IF a = Service THEN "isReady" ELSE "close")
    /\ UNCHANGED <<conMonitor, calls, chans, listeners, disconnectRequested, timer>>

(* Faulty variant: waiting for the end of the channel instead of asking    *)
(* for it.                                                                 *)
CloseChannel_Await(u) ==
    /\ pc[u] = "close" /\ ~IsReady
    /\ conMonitor' = None
    /\ Go(u, "idle")
    /\ UNCHANGED <<rocMonitor, calls, chans, listeners, timing>>

CloseChannel(u) ==
    /\ pc[u] = "close"
    /\ closeReq' = [c \in Channels |-> closeReq[c] \/ c = channelFuture]
    /\ conMonitor' = None
    /\ Go(u, "idle")
    /\ UNCHANGED <<rocMonitor, calls, made, channelFuture, ch, authed, listeners, timing>>

(* Faulty variant: no attempt of its own when there is no connection.      *)
HaltIsReady_Always ==
    /\ pc[Service] = "isReady"
    /\ Go(Service, "addHalt")
    /\ UNCHANGED <<monitors, calls, chans, listeners, timing>>

HaltIsReady ==
    /\ pc[Service] = "isReady"
    /\ Go(Service, IF IsReady THEN "addHalt" ELSE "isDone")
    /\ UNCHANGED <<monitors, calls, chans, listeners, timing>>

AddHaltListener ==
    /\ pc[Service] = "addHalt"
    /\ haltOn' = haltOn \cup {channelFuture}
    /\ Go(Service, "idle")
    /\ UNCHANGED <<monitors, calls, chans, roc, onClose, halt, timing>>

-----------------------------------------------------------------------------
(* Timer workers.                                                          *)

FireTimeout(k) ==
    /\ timeouts[k] > 0 /\ pc[Worker(k)] = "idle"
    /\ timeouts' = [timeouts EXCEPT ![k] = @ - 1]
    /\ Go(Worker(k), "onReconnect")
    /\ UNCHANGED <<monitors, calls, chans, listeners, disconnectRequested, timer, stopped>>

-----------------------------------------------------------------------------
(* Events of the channels, on their event loops.                           *)

Connected(c) ==
    /\ ch[c] = "pending" /\ LoopRuns(c)
    /\ ch' = [ch EXCEPT ![c] = "open"]
    /\ UNCHANGED <<pc, monitors, calls, made, channelFuture, authed, closeReq, listeners, timing>>

(* The attempt was refused, or the channel closed before it ended.         *)
ConnectFails(c) ==
    /\ ch[c] = "pending" /\ LoopRuns(c)
    /\ ch' = [ch EXCEPT ![c] = "failed"]
    /\ UNCHANGED <<pc, monitors, calls, made, channelFuture, authed, closeReq, listeners, timing>>

(* Faulty variant: fireChannelActive() forgotten.                          *)
Authenticate_Silent(c) ==
    /\ ch[c] = "open" /\ ~authed[c] /\ LoopRuns(c)
    /\ \A d \in Channels : authed[d] => ch[d] # "open"
    /\ authed' = [authed EXCEPT ![c] = TRUE]
    /\ UNCHANGED <<pc, monitors, calls, made, channelFuture, ch, closeReq, listeners, timing>>

(* The backend serves one client; the others wait in its backlog.  The     *)
(* halt handler, if it is there, is told that the channel is active.       *)
Authenticate(c) ==
    /\ ch[c] = "open" /\ ~authed[c] /\ LoopRuns(c)
    /\ \A d \in Channels : authed[d] => ch[d] # "open"
    /\ authed' = [authed EXCEPT ![c] = TRUE]
    /\ IF halt[c] = "in"
       THEN halt' = [halt EXCEPT ![c] = "sent"] /\ closeReq' = [closeReq EXCEPT ![c] = TRUE]
       ELSE UNCHANGED <<halt, closeReq>>
    /\ UNCHANGED <<pc, monitors, calls, made, channelFuture, ch, roc, onClose, haltOn, timing>>

(* The backend closes the connection, or a queued close runs.              *)
Closes(c) ==
    /\ ch[c] = "open" /\ LoopRuns(c)
    /\ ch' = [ch EXCEPT ![c] = "closed"]
    /\ UNCHANGED <<pc, monitors, calls, made, channelFuture, authed, closeReq, listeners, timing>>

(* Faulty variant: a failed attempt is not followed by another.            *)
OperationComplete_OnceOnly(c) ==
    /\ Notifying(c) \/ (roc[c] = "late" /\ pc[Closer(c)] = "idle")
    /\ OthersIdle(c) /\ rocMonitor = None
    /\ roc' = [roc EXCEPT ![c] = "ran"]
    /\ UNCHANGED <<pc, monitors, calls, chans, onClose, haltOn, halt, timing>>

(* After a success the listener waits on the close future: see Spinning.   *)
OperationComplete(c) ==
    /\ Notifying(c) \/ (roc[c] = "late" /\ pc[Closer(c)] = "idle")
    /\ OthersIdle(c) /\ rocMonitor = None
    /\ roc' = [roc EXCEPT ![c] = "ran"]
    /\ timeouts' = IF ch[c] = "failed" /\ ~disconnectRequested
                   THEN [timeouts EXCEPT ![timer] = @ + 1]
                   ELSE timeouts
    /\ UNCHANGED <<pc, monitors, calls, chans, onClose, haltOn, halt, disconnectRequested, timer, stopped>>

(* It reconnects when it finds no auth handler in the pipeline.            *)
CloseListener(c) ==
    /\ onClose[c] \in {"added", "late"} /\ Dead(c)
    /\ OthersIdle(c) /\ ~Notifying(c) /\ pc[Closer(c)] = "idle"
    /\ \/ (authed[c] \/ onClose[c] = "late") /\ Go(Closer(c), "onReconnect")
       \/ ~authed[c] /\ UNCHANGED pc
    /\ onClose' = [onClose EXCEPT ![c] = "ran"]
    /\ UNCHANGED <<monitors, calls, chans, roc, haltOn, halt, timing>>

(* Halt.handlerAdded: on an authenticated channel HALT is written at once, *)
(* and the channel closed after it.                                        *)
PutHalt(c) ==
    /\ halt' = [halt EXCEPT ![c] = IF ~authed[c] THEN "in"
                                   ELSE IF ch[c] = "open" THEN "sent" ELSE "void"]
    /\ closeReq' = [closeReq EXCEPT ![c] = @ \/ authed[c]]

(* The pipeline is that of the field, whichever future has completed; a    *)
(* second handler of the same name is refused.                             *)
HaltListener(c) ==
    /\ c \in haltOn /\ Done(c) /\ LoopRuns(c)
    /\ haltOn' = haltOn \ {c}
    /\ \/ halt[channelFuture] # "no" /\ UNCHANGED <<halt, closeReq>>
       \/ halt[channelFuture] = "no" /\ channelFuture = c /\ PutHalt(c)
       \/ /\ halt[channelFuture] = "no" /\ channelFuture # c
          /\ halt' = [halt EXCEPT ![channelFuture] = "added"]
          /\ UNCHANGED closeReq
    /\ UNCHANGED <<pc, monitors, calls, made, channelFuture, ch, authed, roc, onClose, timing>>

HandlerAdded(c) ==
    /\ halt[c] = "added" /\ LoopRuns(c)
    /\ PutHalt(c)
    /\ UNCHANGED <<pc, monitors, calls, made, channelFuture, ch, authed, roc, onClose, haltOn, timing>>

-----------------------------------------------------------------------------

ThreadStep(a) ==
    \/ HasConnectionInProgress(a) \/ StillInProgress(a)
    \/ DoConnect(a) \/ OnReconnect(a) \/ RequestReconnect(a)
    \/ AddReconnectListener(a) \/ AddCloseListener(a)
    \/ StopTimer(a)

LoopStep(c) ==
    \/ Connected(c) \/ ConnectFails(c)
    \/ OperationComplete(c) \/ CloseListener(c) \/ HaltListener(c) \/ HandlerAdded(c)

Next ==
    \/ \E u \in Users : Connect(u) \/ Disconnect(u) \/ RequestDisconnect(u) \/ CloseChannel(u)
    \/ BackendHalt \/ HaltIsReady \/ HaltConnect \/ AddHaltListener
    \/ \E a \in Actors : ThreadStep(a)
    \/ \E k \in Timers : FireTimeout(k)
    \/ \E c \in Channels : LoopStep(c) \/ Authenticate(c) \/ Closes(c)

(* Threads that are not blocked run, timeouts fall due, an attempt ends, a *)
(* listener is called, and a queued close is carried out.  Nobody has to   *)
(* call anything, and the backend owes neither an answer nor a close.      *)
(* Calls and attempts are bounded and every listener runs once, so a       *)
(* behaviour has finitely many steps: that none of these steps is left to  *)
(* be taken at its end is what fairness to each of them amounts to.        *)
Owed ==
    \/ \E u \in Users : RequestDisconnect(u) \/ CloseChannel(u)
    \/ HaltIsReady \/ HaltConnect \/ AddHaltListener
    \/ \E a \in Actors : ThreadStep(a)
    \/ \E k \in Timers : FireTimeout(k)
    \/ \E c \in Channels : LoopStep(c) \/ (closeReq[c] /\ Closes(c))

Fairness == WF_vars(Owed)

Spec == Init /\ [][Next]_vars /\ Fairness

-----------------------------------------------------------------------------
(* Properties.                                                             *)

(* Every variable has its type; the field channelFuture, the timers and    *)
(* the halt listeners name channels that were made: backendHalt() never    *)
(* adds its listener to a null future.                                     *)
TypeOK ==
    /\ pc \in [Actors -> PC]
    /\ conMonitor \in Actors \cup {None}
    /\ rocMonitor \in Users \cup {Service, None}
    /\ calls \in 0 .. MaxCalls
    /\ made \in 0 .. MaxChannels /\ channelFuture \in 0 .. made
    /\ ch \in [Channels -> {"none", "pending", "open", "failed", "closed"}]
    /\ authed \in [Channels -> BOOLEAN]
    /\ closeReq \in [Channels -> BOOLEAN]
    /\ roc \in [Channels -> {"no", "added", "late", "ran"}]
    /\ onClose \in [Channels -> {"no", "added", "late", "ran"}]
    /\ haltOn \subseteq Channels
    /\ halt \in [Channels -> {"no", "added", "in", "sent", "void"}]
    /\ disconnectRequested \in BOOLEAN
    /\ timer \in 0 .. made
    /\ timeouts \in [Timers -> Nat]
    /\ stopped \in [Timers -> BOOLEAN]

Attempting ==
    \E a \in Actors \ {Service} :
        pc[a] \in {"onReconnect", "connect", "requestReconnect", "addRoc", "addOnClose"}

Hopeful(c) ==
    \/ ch[c] \in {"pending", "open"}
    \/ ch[c] = "failed" /\ roc[c] \in {"added", "late"}
    \/ ch[c] = "closed" /\ authed[c] /\ onClose[c] \in {"added", "late"}

(* While reconnection is active something is left that connects: an open   *)
(* channel or attempt, a listener that will be called, a timeout, or a     *)
(* thread in doConnect().  The two ways it is lost: the current channel    *)
(* was closed before it was authenticated (the close listener does         *)
(* nothing, operationComplete() spins, and connect() is refused as long as *)
(* reconnection is active), or backendHalt() has put a channel nobody      *)
(* listens to into the field.                                              *)
ChainKept ==
    (~disconnectRequested /\ made > 0) =>
        \/ Attempting
        \/ \E k \in Timers : timeouts[k] > 0
        \/ \E c \in Channels : Hopeful(c)
        \/ ch[channelFuture] = "closed" /\ ~authed[channelFuture]
        \/ roc[channelFuture] = "no"

(* What makes it inductive: which listeners the current channel has.       *)
(* Between the two addListener() calls of doConnect() a channel can fail   *)
(* and be scheduled again, so that a thread there keeps the chain only     *)
(* for a channel that was authenticated and has closed.                    *)
ListenerInv ==
    /\ \A c \in Channels :
          /\ IF c <= made THEN ch[c] # "none" ELSE ch[c] = "none" /\ roc[c] = "no"
          /\ roc[c] \in {"late", "ran"} => Done(c)
          /\ onClose[c] \in {"late", "ran"} => Dead(c)
    /\ made > 0 => channelFuture # 0
    /\ made > 0 /\ roc[channelFuture] # "no" =>
          \/ onClose[channelFuture] # "no"
          \/ \E a \in Actors \ {Service} : pc[a] = "addOnClose"

ClosedAuthed == ch[channelFuture] = "closed" /\ authed[channelFuture]

Chained ==
    \/ \E a \in Actors \ {Service} :
          \/ pc[a] \in {"onReconnect", "connect", "requestReconnect", "addRoc"}
          \/ pc[a] = "addOnClose" /\ ClosedAuthed
    \/ \E k \in Timers : timeouts[k] > 0
    \/ Hopeful(channelFuture)
    \/ ch[channelFuture] = "closed" /\ ~authed[channelFuture]
    \/ roc[channelFuture] = "no"

ChainInv == ~disconnectRequested /\ made > 0 => Chained

(* Where a thread can be, and what it holds there.  All of doConnect() and *)
(* of disconnect() is under the monitor of the connection; requestReconnect *)
(* comes after the attempt it belongs to; backendHalt() adds its listener  *)
(* to a channel there is.                                                  *)
ConPC == {"isDone", "isDone2", "connect", "requestReconnect", "addRoc",
          "addOnClose", "requestDisconnect", "stop", "close"}

ThreadInv ==
    /\ \A a \in Actors \ {Service} : pc[a] \in ConPC => conMonitor = a
    /\ pc[Service] \in {"idle", "stop", "isReady", "isDone", "isDone2", "connect", "addHalt"}
    /\ pc[Service] \in {"isDone2", "addHalt"} => channelFuture # 0
    /\ \A a \in Actors : pc[a] = "requestReconnect" => timer < made
    /\ \A a \in Actors : pc[a] = "stop" => rocMonitor = a /\ disconnectRequested

(* A stopped timer has no timeout and its worker is in no task.  After a   *)
(* disconnect() or backendHalt() has got past stop() the current timer is  *)
(* stopped; while reconnection is active it is not, so that a timeout can  *)
(* be added to it.                                                         *)
TimerInv ==
    /\ \A k \in Timers :
          stopped[k] => k <= timer /\ timeouts[k] = 0 /\ pc[Worker(k)] = "idle"
    /\ disconnectRequested /\ rocMonitor = None => stopped[timer]
    /\ ~disconnectRequested => ~stopped[timer]

(* Halt sends its message either when it is added or when the channel is   *)
(* authenticated after that.  Whichever comes first, it never sits in the  *)
(* pipeline of an authenticated channel without having sent it.            *)
HaltNotMissed == \A c \in Channels : authed[c] => halt[c] # "in"

(* A disconnect() or backendHalt() is undone by a call of connect(), by    *)
(* the close listener of a channel, or by the timer of an attempt that has *)
(* been superseded; never by the timer it has stopped.                     *)
RevivedBy ==
    [][disconnectRequested /\ ~disconnectRequested' =>
          \E a \in Actors \ {Worker(timer)} : pc[a] = "requestReconnect"]_vars

(* The caller of requestDisconnect() holds the listener's monitor and      *)
(* joins a worker that needs this monitor, or that of the connection.  The *)
(* three threads never get out of it, and the connection is lost for good. *)
JoinCycle ==
    /\ rocMonitor # None
    /\ pc[Worker(timer)] \in {"onReconnect", "requestReconnect"}

(* A thread would make one more attempt than the bound allows.             *)
Exhausted == made = MaxChannels /\ \E a \in Actors : pc[a] \in {"connect", "onReconnect"}

(* A disconnect() that has begun returns: the only cycle of waiting is     *)
(* JoinCycle.                                                              *)
DisconnectReturns ==
    \A u \in Users :
        pc[u] \in {"requestDisconnect", "stop", "close"}
            ~> (pc[u] = "idle" \/ JoinCycle \/ Exhausted)

(* The current attempt has failed, and the reconnect listener is on it.    *)
Failing ==
    channelFuture # 0 /\ ch[channelFuture] = "failed" /\ roc[channelFuture] # "no"

(* A failed attempt is followed by another, unless disconnect() or         *)
(* backendHalt() is called, the threads have locked each other out, or the *)
(* event loop that has to call the listener spins.                         *)
Retries ==
    Failing ~> (\/ ~Failing \/ disconnectRequested
                \/ JoinCycle \/ Exhausted \/ ~OthersIdle(channelFuture))

=============================================================================
