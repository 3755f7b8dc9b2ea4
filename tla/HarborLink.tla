----------------------------- MODULE HarborLink -----------------------------
(***************************************************************************)
(* The link of the device to the harbor (cloud) server:                    *)
(*                                                                         *)
(*   MyWebSocketClientNetty  connect, disconnect and the channel in use    *)
(*   ReconnectManager        what happens when a channel is lost           *)
(*   NetConnectionReceiver   reconnection on a change of the network       *)
(*   HarborClient            onOpen, onClose and the loggedin flag         *)
(*                                                                         *)
(* Three kinds of threads touch this state.  The Android main thread runs  *)
(* connect() and disconnect(), the delayed Runnable of ReconnectManager    *)
(* and the broadcast receiver.  Every channel belongs to a Netty event     *)
(* loop, and different channels may be on different loops: that is where   *)
(* the listeners of its connect future and its close future run.  The      *)
(* steps of one handler are separate actions wherever another thread can   *)
(* come in between.                                                        *)
(*                                                                         *)
(* Channel identities are recycled: a closed channel that nothing refers   *)
(* to any more can be the next one bootstrap.connect() creates, so runs    *)
(* of any length fit into a finite set of channels.                        *)
(***************************************************************************)
EXTENDS Integers, Sequences, FiniteSets

CONSTANTS
    Channels,       \* identities of Netty channels
    NoChannel,      \* the null reference
    RETRIES,        \* short retries before the long sleep (6 in the code)
    Overshoot       \* how far below zero the counter of retries is counted

ASSUME ChannelsAssumption == NoChannel \notin Channels
ASSUME RetriesAssumption == RETRIES \in Nat
ASSUME OvershootAssumption == Overshoot \in Nat \ {0}

VARIABLES
    st,             \* life cycle of each channel
    fut,            \* result of the connect future of the channel in use
    closing,        \* channels whose close was requested from another thread
    lostListeners,  \* close futures holding ReconnectManager's listener
    closeListeners, \* close futures holding the onClose listener
    opListeners,    \* connect futures holding the operation-complete listener
    tasks,          \* listener calls queued on each channel's event loop
    loop,           \* where the event loop is inside a listener call
    left,           \* the value of reconnectTimes the event loop has read
    channel,        \* MyWebSocketClientNetty.channel
    rmChannel,      \* ReconnectManager.channel
    main,           \* where the main thread is inside connect or disconnect
    scheduled,      \* delayed reconnect Runnables in the handler's queue
    isRegistered,   \* the connectivity receiver is registered
    firstTime,      \* NetConnectionReceiver has not seen a broadcast yet
    reconnectTimes, \* short retries left
    sleepTime,      \* "short" or "long" delay before the next retry
    loggedin,       \* HarborAuthService.loggedin
    asked           \* history: the last request of the application

chanVars == <<st, fut, closing, lostListeners, closeListeners, opListeners>>
rmVars   == <<scheduled, isRegistered, firstTime, reconnectTimes, sleepTime>>
vars     == <<chanVars, tasks, loop, left, channel, rmChannel, main, rmVars,
              loggedin, asked>>

Status    == {"free", "connecting", "failed", "active", "refused", "open",
              "closed"}
Task      == {"opOk", "opFail", "lost", "onClose"}
LostPC    == {"update", "read", "write", "lengthen", "recheck", "clean", "post"}
LoopPC    == {"idle", "established"} \cup LostPC
MainPC    == {"idle", "check", "enable", "register", "listen",
              "removeListener", "unregister", "disconnect"}
DisablePC == {"removeListener", "unregister", "disconnect"}

(* Channel.isOpen(): a channel whose connect attempt is pending or has     *)
(* failed is still open until somebody closes it, and so is one whose web  *)
(* socket handshake was refused.                                           *)
IsOpen(c) == st[c] \in {"connecting", "failed", "active", "refused", "open"}

channelIsOpen == channel # NoChannel /\ IsOpen(channel)

(* Nothing refers to c any more: bootstrap.connect() may reuse it.         *)
Unreferenced(c) ==
    /\ st[c] \in {"free", "closed"}
    /\ tasks[c] = <<>> /\ loop[c] = "idle"
    /\ c \notin {channel, rmChannel}

(* connect() looks at the future of the attempt it has just made only: the *)
(* results of the earlier ones are forgotten.                              *)
NoFutures == [c \in Channels |-> "none"]

Init ==
    /\ st = [c \in Channels |-> "free"]
    /\ fut = NoFutures
    /\ closing = {}
    /\ lostListeners = {} /\ closeListeners = {} /\ opListeners = {}
    /\ tasks = [c \in Channels |-> <<>>]
    /\ loop = [c \in Channels |-> "idle"]
    /\ left = [c \in Channels |-> 0]
    /\ channel = NoChannel /\ rmChannel = NoChannel
    /\ main = "idle"
    /\ scheduled = 0
    /\ isRegistered = FALSE /\ firstTime = TRUE
    /\ reconnectTimes = RETRIES /\ sleepTime = "short"
    /\ loggedin = FALSE
    /\ asked = "no"

-----------------------------------------------------------------------------
(* The main thread: the ways into connect().                               *)

(* BackgroundService.startWebServices calls HarborClient.connect.          *)
(* asked records whether the close of an earlier disconnect() is still     *)
(* outstanding on the channel in use.                                      *)
HarborConnect ==
    /\ main = "idle"
    /\ main' = "check"
    /\ asked' = IF channel \in closing THEN "overlap" ELSE "yes"
    /\ UNCHANGED <<chanVars, tasks, loop, left, channel, rmChannel, rmVars,
                   loggedin>>

(* The delayed Runnable of scheduleReconnection comes due.                 *)
RunScheduled ==
    /\ main = "idle" /\ scheduled > 0
    /\ scheduled' = scheduled - 1
    /\ main' = "check"
    /\ UNCHANGED <<chanVars, tasks, loop, left, channel, rmChannel,
                   isRegistered, firstTime, reconnectTimes, sleepTime,
                   loggedin, asked>>

(* Faulty variant of OnReceive: the scheduled reconnections are dropped    *)
(* before the first broadcast is recognised and swallowed.                 *)
OnReceive_CleansFirst ==
    /\ main = "idle" /\ isRegistered
    /\ scheduled' = 0
    /\ firstTime' = FALSE
    /\ main' = IF firstTime THEN main ELSE "check"
    /\ UNCHANGED <<chanVars, tasks, loop, left, channel, rmChannel,
                   isRegistered, reconnectTimes, sleepTime, loggedin, asked>>

(* A connectivity broadcast: the first one ever is swallowed, a later one  *)
(* drops the scheduled reconnections and connects at once.                 *)
OnReceive ==
    /\ main = "idle" /\ isRegistered
    /\ IF firstTime
         THEN /\ firstTime' = FALSE
              /\ UNCHANGED <<scheduled, main>>
         ELSE /\ scheduled' = 0
              /\ main' = "check"
              /\ UNCHANGED firstTime
    /\ UNCHANGED <<chanVars, tasks, loop, left, channel, rmChannel,
                   isRegistered, reconnectTimes, sleepTime, loggedin, asked>>

(* Faulty variant of ConnectCheck: no look at the channel in use.          *)
ConnectCheck_Always ==
    /\ main = "check"
    /\ \E c \in Channels :
          /\ Unreferenced(c)
          /\ st' = [st EXCEPT ![c] = "connecting"]
          /\ fut' = [NoFutures EXCEPT ![c] = "pending"]
          /\ channel' = c
    /\ main' = "enable"
    /\ UNCHANGED <<closing, lostListeners, closeListeners, opListeners, tasks,
                   loop, left, rmChannel, rmVars, loggedin, asked>>

(* connect(), first part: an open channel is kept, otherwise               *)
(* bootstrap.connect() starts an attempt on a new channel.                 *)
ConnectCheck ==
    /\ main = "check"
    /\ \/ /\ channelIsOpen
          /\ main' = "idle"
          /\ UNCHANGED <<st, fut, channel>>
       \/ /\ ~channelIsOpen
          /\ \E c \in Channels :
                /\ Unreferenced(c)
                /\ st' = [st EXCEPT ![c] = "connecting"]
                /\ fut' = [NoFutures EXCEPT ![c] = "pending"]
                /\ channel' = c
          /\ main' = "enable"
    /\ UNCHANGED <<closing, lostListeners, closeListeners, opListeners, tasks,
                   loop, left, rmChannel, rmVars, loggedin, asked>>

(* addListener on a future: queued for later while the future is pending,  *)
(* called on the event loop at once when it is already complete.           *)
EnableReconnection ==
    /\ main = "enable"
    /\ rmChannel' = channel
    /\ IF IsOpen(channel)
         THEN /\ lostListeners' = lostListeners \cup {channel}
              /\ UNCHANGED tasks
         ELSE /\ tasks' = [tasks EXCEPT ![channel] = Append(@, "lost")]
              /\ UNCHANGED lostListeners
    /\ main' = "register"
    /\ UNCHANGED <<st, fut, closing, closeListeners, opListeners, loop, left,
                   channel, rmVars, loggedin, asked>>

(* Faulty variant of RegisterReceiver: the receiver is left alone.         *)
RegisterReceiver_Forgotten ==
    /\ main = "register"
    /\ main' = "listen"
    /\ UNCHANGED <<chanVars, tasks, loop, left, channel, rmChannel, rmVars,
                   loggedin, asked>>

(* enableReconnection, second part: registerReceiver().                    *)
RegisterReceiver ==
    /\ main = "register"
    /\ isRegistered' = TRUE
    /\ main' = "listen"
    /\ UNCHANGED <<chanVars, tasks, loop, left, channel, rmChannel, scheduled,
                   firstTime, reconnectTimes, sleepTime, loggedin, asked>>

(* addOperationCompleteListener and addOnCloseListener, the end of         *)
(* connect().                                                              *)
AddListeners ==
    /\ main = "listen"
    /\ LET c  == channel
           op == CASE fut[c] = "ok"   -> <<"opOk">>
                   [] fut[c] = "fail" -> <<"opFail">>
                   [] OTHER           -> <<>>
           cl == IF IsOpen(c) THEN <<>> ELSE <<"onClose">>
       IN /\ tasks' = [tasks EXCEPT ![c] = @ \o op \o cl]
          /\ opListeners' = IF op = <<>> THEN opListeners \cup {c}
                                         ELSE opListeners
          /\ closeListeners' = IF cl = <<>> THEN closeListeners \cup {c}
                                            ELSE closeListeners
    /\ main' = "idle"
    /\ UNCHANGED <<st, fut, closing, lostListeners, loop, left, channel,
                   rmChannel, rmVars, loggedin, asked>>

-----------------------------------------------------------------------------
(* disconnect(), which onDestroy and closeConns call on the main thread.   *)
(* (stopWebServices would call it on a thread of its own, and logOut and   *)
(* leftActivity from elsewhere: nothing in the program calls these.)       *)

(* disableReconnection: removeCallbacksAndMessages.                        *)
HarborDisconnect ==
    /\ main = "idle"
    /\ scheduled' = 0
    /\ main' = "removeListener"
    /\ asked' = "no"
    /\ UNCHANGED <<chanVars, tasks, loop, left, channel, rmChannel,
                   isRegistered, firstTime, reconnectTimes, sleepTime,
                   loggedin>>

(* disableReconnection: removeListener has no effect on a listener whose   *)
(* call is already queued or running.                                      *)
RemoveListener ==
    /\ main = "removeListener"
    /\ lostListeners' = lostListeners \ {rmChannel}
    /\ main' = "unregister"
    /\ UNCHANGED <<st, fut, closing, closeListeners, opListeners, tasks, loop,
                   left, channel, rmChannel, rmVars, loggedin, asked>>

(* disableReconnection: unregisterReceiver().                              *)
UnregisterReceiver ==
    /\ main = "unregister"
    /\ isRegistered' = FALSE
    /\ main' = "disconnect"
    /\ UNCHANGED <<chanVars, tasks, loop, left, channel, rmChannel, scheduled,
                   firstTime, reconnectTimes, sleepTime, loggedin, asked>>

(* channel.disconnect(): off the event loop this only queues the close.    *)
RequestClose ==
    /\ main = "disconnect"
    /\ closing' = IF channelIsOpen THEN closing \cup {channel} ELSE closing
    /\ main' = "idle"
    /\ UNCHANGED <<st, fut, lostListeners, closeListeners, opListeners, tasks,
                   loop, left, channel, rmChannel, rmVars, loggedin, asked>>

-----------------------------------------------------------------------------
(* The event loop of a channel: connection events.                         *)

(* The TCP connection is established or fails; the operation-complete      *)
(* listener is called if it was added.                                     *)
ConnectDone(c, ok) ==
    /\ st[c] = "connecting" 
    /\ st' = [st EXCEPT ![c] = IF ok THEN "active" ELSE "failed"]
    /\ fut' = [fut EXCEPT ![c] = IF ok THEN "ok" ELSE "fail"]
    /\ tasks' = IF c \in opListeners
                  THEN [tasks EXCEPT ![c] = Append(@, IF ok THEN "opOk"
                                                            ELSE "opFail")]
                  ELSE tasks
    /\ opListeners' = opListeners \ {c}
    /\ UNCHANGED <<closing, lostListeners, closeListeners, loop, left, channel,
                   rmChannel, main, rmVars, loggedin, asked>>

(* The channel closes: a queued disconnect() or close() is carried out, or *)
(* the server or the network ends the connection.  A pending connect       *)
(* future fails, then the listeners of the close future are called in the  *)
(* order they were added.                                                  *)
CloseChannel(c) ==
    LET op == IF st[c] = "connecting" /\ c \in opListeners
                THEN <<"opFail">> ELSE <<>>
        lo == IF c \in lostListeners THEN <<"lost">> ELSE <<>>
        cl == IF c \in closeListeners THEN <<"onClose">> ELSE <<>>
    IN /\ st' = [st EXCEPT ![c] = "closed"]
       /\ fut' = [fut EXCEPT ![c] = IF @ = "pending" THEN "fail" ELSE @]
       /\ tasks' = [tasks EXCEPT ![c] = @ \o op \o lo \o cl]
       /\ closing' = closing \ {c}
       /\ lostListeners' = lostListeners \ {c}
       /\ closeListeners' = closeListeners \ {c}
       /\ opListeners' = opListeners \ {c}

RemoteClose(c) ==
    /\ st[c] \in {"active", "refused", "open"} /\ loop[c] = "idle"
    /\ CloseChannel(c)
    /\ UNCHANGED <<loop, left, channel, rmChannel, main, rmVars, loggedin,
                   asked>>

DoClose(c) ==
    /\ c \in closing /\ IsOpen(c) /\ loop[c] = "idle"
    /\ CloseChannel(c)
    /\ UNCHANGED <<loop, left, channel, rmChannel, main, rmVars, loggedin,
                   asked>>

(* Netty's Bootstrap closes the channel of a failed attempt by itself.     *)
CloseOnFailure(c) ==
    /\ st[c] = "failed" /\ loop[c] = "idle"
    /\ CloseChannel(c)
    /\ UNCHANGED <<loop, left, channel, rmChannel, main, rmVars, loggedin,
                   asked>>

(* The web socket handshake completes: HarborClient's onOpen identifies    *)
(* the device (when it has a MAC address) and counts as logged in.  The    *)
(* visitor it creates is an action of Keyboard (HarborOpen).               *)
OnOpen(c, mac) ==
    /\ st[c] = "active" /\ tasks[c] = <<>> /\ loop[c] = "idle"
    /\ st' = [st EXCEPT ![c] = "open"]
    /\ loggedin' = (mac \/ loggedin)
    /\ UNCHANGED <<fut, closing, lostListeners, closeListeners, opListeners,
                   tasks, loop, left, channel, rmChannel, main, rmVars, asked>>

(* The server refuses the handshake: finishHandshake throws, the exception *)
(* is only logged, and the channel stays open.                             *)
HandshakeFails(c) ==
    /\ st[c] = "active" /\ tasks[c] = <<>> /\ loop[c] = "idle"
    /\ st' = [st EXCEPT ![c] = "refused"]
    /\ UNCHANGED <<fut, closing, lostListeners, closeListeners, opListeners,
                   tasks, loop, left, channel, rmChannel, main, rmVars,
                   loggedin, asked>>

(* An answer of the server about the login: HarborAuthService.onMessage    *)
(* writes the flag.  Its authListener is null, since doAuth is never       *)
(* called; the exception that follows is logged and the channel stays.     *)
AuthResponse(c, success) ==
    /\ st[c] = "open" /\ loop[c] = "idle"
    /\ loggedin' = success
    /\ UNCHANGED <<chanVars, tasks, loop, left, channel, rmChannel, main,
                   rmVars, asked>>

-----------------------------------------------------------------------------
(* The event loop of a channel: listener calls.                            *)

TaskIs(c, t) == loop[c] = "idle" /\ tasks[c] # <<>> /\ Head(tasks[c]) = t

TaskDone(c) == tasks' = [tasks EXCEPT ![c] = Tail(@)]

(* Faulty variant of OpFailed: a failed attempt schedules a retry itself.  *)
OpFailed_Retries(c) ==
    /\ TaskIs(c, "opFail") /\ TaskDone(c)
    /\ loop' = [loop EXCEPT ![c] = "update"]
    /\ UNCHANGED <<chanVars, channel, rmChannel, main, rmVars, loggedin, left,
                   asked>>

(* A failed attempt closes its channel, on its own event loop.             *)
OpFailed(c) ==
    /\ TaskIs(c, "opFail")
    /\ IF IsOpen(c)
         THEN LET lo == IF c \in lostListeners THEN <<"lost">> ELSE <<>>
                  cl == IF c \in closeListeners THEN <<"onClose">> ELSE <<>>
              IN /\ st' = [st EXCEPT ![c] = "closed"]
                 /\ tasks' = [tasks EXCEPT ![c] = Tail(@) \o lo \o cl]
                 /\ closing' = closing \ {c}
                 /\ lostListeners' = lostListeners \ {c}
                 /\ closeListeners' = closeListeners \ {c}
         ELSE /\ TaskDone(c)
              /\ UNCHANGED <<st, closing, lostListeners, closeListeners>>
    /\ UNCHANGED <<fut, opListeners, loop, left, channel, rmChannel, main,
                   rmVars, loggedin, asked>>

(* connectionEstablished writes two unsynchronized fields.                 *)
OpSucceeded(c) ==
    /\ TaskIs(c, "opOk") /\ TaskDone(c)
    /\ reconnectTimes' = RETRIES
    /\ loop' = [loop EXCEPT ![c] = "established"]
    /\ UNCHANGED <<chanVars, channel, rmChannel, main, scheduled, isRegistered,
                   firstTime, sleepTime, loggedin, left, asked>>

Established(c) ==
    /\ loop[c] = "established"
    /\ sleepTime' = "short"
    /\ loop' = [loop EXCEPT ![c] = "idle"]
    /\ UNCHANGED <<chanVars, tasks, channel, rmChannel, main, scheduled,
                   isRegistered, firstTime, reconnectTimes, loggedin, left,
                   asked>>

(* connectionLost asks the system whether there is a network (any answer): *)
(* without one the receiver is registered.                                 *)
ConnectionLost(c, available) ==
    /\ TaskIs(c, "lost") /\ TaskDone(c)
    /\ isRegistered' = (isRegistered \/ ~available)
    /\ loop' = [loop EXCEPT ![c] = "update"]
    /\ UNCHANGED <<chanVars, channel, rmChannel, main, scheduled, firstTime,
                   reconnectTimes, sleepTime, loggedin, left, asked>>

(* scheduleReconnection: updateReconnectTimes tests the retries left ...   *)
CheckTimes(c) ==
    /\ loop[c] = "update"
    /\ loop' = [loop EXCEPT ![c] = IF reconnectTimes > 0 THEN "read"
                                                        ELSE "lengthen"]
    /\ UNCHANGED <<chanVars, tasks, channel, rmChannel, main, rmVars, loggedin,
                   left, asked>>

(* ... and takes one away.  The field has no lock, and the loops of two    *)
(* channels may both be here: the decrement is a read ...                  *)
ReadTimes(c) ==
    /\ loop[c] = "read"
    /\ left' = [left EXCEPT ![c] = reconnectTimes]
    /\ loop' = [loop EXCEPT ![c] = "write"]
    /\ UNCHANGED <<chanVars, tasks, channel, rmChannel, main, rmVars, loggedin,
                   asked>>

(* Faulty variant of WriteTimes: every loss is granted one more retry.     *)
WriteTimes_Increments(c) ==
    /\ loop[c] = "write"
    /\ reconnectTimes' = left[c] + 1
    /\ left' = [left EXCEPT ![c] = 0]
    /\ loop' = [loop EXCEPT ![c] = "recheck"]
    /\ UNCHANGED <<chanVars, tasks, channel, rmChannel, main, scheduled,
                   isRegistered, firstTime, sleepTime, loggedin, asked>>

(* ... and a write.  Two loops that passed the test together take the      *)
(* counter below zero; every value up to zero means the same, and it is    *)
(* not counted below -Overshoot.                                           *)
WriteTimes(c) ==
    /\ loop[c] = "write"
    /\ reconnectTimes' = IF left[c] = -Overshoot THEN left[c] ELSE left[c] - 1
    /\ left' = [left EXCEPT ![c] = 0]
    /\ loop' = [loop EXCEPT ![c] = "recheck"]
    /\ UNCHANGED <<chanVars, tasks, channel, rmChannel, main, scheduled,
                   isRegistered, firstTime, sleepTime, loggedin, asked>>

(* updateReconnectTimes with no retry left: the long sleep.                *)
Lengthen(c) ==
    /\ loop[c] = "lengthen"
    /\ sleepTime' = "long"
    /\ loop' = [loop EXCEPT ![c] = "recheck"]
    /\ UNCHANGED <<chanVars, tasks, channel, rmChannel, main, scheduled,
                   isRegistered, firstTime, reconnectTimes, loggedin, left,
                   asked>>

(* scheduleReconnection looks at the retries left again, and with none     *)
(* registers the receiver.                                                 *)
Recheck(c) ==
    /\ loop[c] = "recheck"
    /\ isRegistered' = (isRegistered \/ reconnectTimes <= 0)
    /\ loop' = [loop EXCEPT ![c] = "clean"]
    /\ UNCHANGED <<chanVars, tasks, channel, rmChannel, main, scheduled,
                   firstTime, reconnectTimes, sleepTime, loggedin, left,
                   asked>>

(* scheduleReconnection: cleanScheduledReconnections ...                   *)
CleanScheduled(c) ==
    /\ loop[c] = "clean"
    /\ scheduled' = 0
    /\ loop' = [loop EXCEPT ![c] = "post"]
    /\ UNCHANGED <<chanVars, tasks, channel, rmChannel, main, isRegistered,
                   firstTime, reconnectTimes, sleepTime, loggedin, left,
                   asked>>

(* Faulty variant of PostDelayed: nothing is posted once a retry had to    *)
(* sleep for the long period.                                              *)
PostDelayed_GivesUp(c) ==
    /\ loop[c] = "post"
    /\ scheduled' = IF sleepTime = "short" THEN scheduled + 1 ELSE scheduled
    /\ loop' = [loop EXCEPT ![c] = "idle"]
    /\ UNCHANGED <<chanVars, tasks, channel, rmChannel, main, isRegistered,
                   firstTime, reconnectTimes, sleepTime, loggedin, left,
                   asked>>

(* ... and handler.postDelayed.                                            *)
PostDelayed(c) ==
    /\ loop[c] = "post"
    /\ scheduled' = scheduled + 1
    /\ loop' = [loop EXCEPT ![c] = "idle"]
    /\ UNCHANGED <<chanVars, tasks, channel, rmChannel, main, isRegistered,
                   firstTime, reconnectTimes, sleepTime, loggedin, left,
                   asked>>

(* Faulty variant of OnClose: the flag is not cleared.                     *)
OnClose_KeepsLogin(c) ==
    /\ TaskIs(c, "onClose") /\ TaskDone(c)
    /\ UNCHANGED <<chanVars, loop, left, channel, rmChannel, main, rmVars,
                   loggedin, asked>>

(* The onClose listener: HarborClient.connectionClosed.                    *)
OnClose(c) ==
    /\ TaskIs(c, "onClose") /\ TaskDone(c)
    /\ loggedin' = FALSE
    /\ UNCHANGED <<chanVars, loop, left, channel, rmChannel, main, rmVars,
                   asked>>

-----------------------------------------------------------------------------
MainStep == \/ ConnectCheck \/ EnableReconnection \/ RegisterReceiver
            \/ AddListeners \/ RemoveListener \/ UnregisterReceiver
            \/ RequestClose

ScheduleReconnection(c) ==
    \/ CheckTimes(c) \/ ReadTimes(c) \/ WriteTimes(c) \/ Lengthen(c)
    \/ Recheck(c) \/ CleanScheduled(c) \/ PostDelayed(c)

LoopStep(c) ==
    \/ DoClose(c) \/ CloseOnFailure(c)
    \/ OpFailed(c) \/ OpSucceeded(c) \/ Established(c)
    \/ \E b \in BOOLEAN : ConnectionLost(c, b)
    \/ ScheduleReconnection(c)
    \/ OnClose(c)

Next == \/ HarborConnect \/ HarborDisconnect \/ RunScheduled \/ OnReceive
        \/ MainStep
        \/ \E c \in Channels :
              \/ LoopStep(c)
              \/ RemoteClose(c) \/ HandshakeFails(c)
              \/ \E b \in BOOLEAN : \/ ConnectDone(c, b) \/ OnOpen(c, b)
                                   \/ AuthResponse(c, b)

Spec == Init /\ [][Next]_vars
-----------------------------------------------------------------------------
(* What the link promises.                                                 *)

HasTask(s, t) == \E i \in DOMAIN s : s[i] = t

LostPending(c) == HasTask(tasks[c], "lost")
OnClosePending(c) == HasTask(tasks[c], "onClose")

TypeOK ==
    /\ st \in [Channels -> Status]
    /\ fut \in [Channels -> {"none", "pending", "ok", "fail"}]
    /\ closing \subseteq Channels
    /\ lostListeners \subseteq Channels
    /\ closeListeners \subseteq Channels
    /\ opListeners \subseteq Channels
    /\ tasks \in [Channels -> Seq(Task)]
    /\ loop \in [Channels -> LoopPC]
    /\ left \in [Channels -> Int] /\ \A c \in Channels : left[c] <= RETRIES
    /\ channel \in Channels \cup {NoChannel}
    /\ rmChannel \in Channels \cup {NoChannel}
    /\ main \in MainPC
    /\ main \in {"enable", "register", "listen"} => channel \in Channels
    /\ scheduled \in Nat
    /\ isRegistered \in BOOLEAN /\ firstTime \in BOOLEAN
    /\ reconnectTimes \in Int /\ reconnectTimes <= RETRIES
    /\ sleepTime \in {"short", "long"}
    /\ loggedin \in BOOLEAN
    /\ asked \in {"no", "yes", "overlap"}

(* However connect() is reached (a request, a delayed retry, a broadcast)  *)
(* and however late the listeners of dead channels run, at most one        *)
(* channel to the server is open.                                          *)
SingleConnection ==
    \A c, d \in Channels : IsOpen(c) /\ IsOpen(d) => c = d

(* Once the application has asked for the link (and its connect() did not  *)
(* overlap the close of an earlier disconnect()), the reconnection chain   *)
(* is never broken: the channel in use is open and its loss will be        *)
(* noticed, or a loss is being handled, or a retry is scheduled, or the    *)
(* main thread is inside connect().                                        *)
NeverStranded ==
    asked = "yes" =>
        \/ channelIsOpen /\ channel \in lostListeners
        \/ main \in {"check", "enable"}
        \/ scheduled > 0
        \/ \E c \in Channels : LostPending(c) \/ loop[c] \in LostPC

(* While the link is wanted, the connectivity receiver stays registered    *)
(* from the first attempt on: a retry sleeping for the long period is      *)
(* always woken by a change of the network.                                *)
ReceiverArmed ==
    asked = "yes" /\ main \notin {"check", "enable", "register"} => isRegistered

(* isConnected() is never left on for good: if the client counts as logged *)
(* in, some channel is open or its onClose call is still to come.          *)
LoggedInIsLive ==
    loggedin =>
        \E c \in Channels :
            \/ st[c] = "open"
            \/ OnClosePending(c)
            \/ /\ c = channel /\ st[c] = "closed"
               /\ main \in {"enable", "register", "listen"}

(* The facts about the channel in use that make the promises above         *)
(* inductive.  Only the channel in use is open, and a close is outstanding *)
(* only for it; unless its close is under way, its loss will be noticed    *)
(* and the receiver is registered, or the main thread is about to do so.   *)
ChannelInv ==
    /\ \A c \in Channels : IsOpen(c) => c = channel
    /\ \A c \in closing : IsOpen(c)
    /\ channelIsOpen =>
          \/ channel \in lostListeners \cup closing
          \/ main \in {"enable", "unregister", "disconnect"}
    /\ channelIsOpen /\ channel \notin closing =>
          isRegistered \/ main \in {"enable", "register", "disconnect"}
    /\ channelIsOpen =>
          channel \in closeListeners \/ main \in {"enable", "register", "listen"}
    /\ asked = "yes" => main \notin DisablePC /\ channel \notin closing

(* Nothing is left that could bring the link up.                           *)
Dormant ==
    /\ main \in DisablePC \cup {"idle"}
    /\ scheduled = 0 /\ ~isRegistered
    /\ lostListeners = {}
    /\ \A c \in Channels :
          /\ ~LostPending(c) /\ loop[c] \notin LostPC
          /\ IsOpen(c) => c \in closing \/ main \in DisablePC

(* A link that disconnect() has brought to rest stays at rest until the    *)
(* application asks for it again: neither a late listener call nor a       *)
(* change of the network revives it.                                       *)
RestIsStable == [][Dormant => Dormant' \/ HarborConnect]_vars

(* Threads run, timers expire, attempts end, and when the server is tried  *)
(* again and again, the network is there and the server accepts again and  *)
(* again.  No handshake need succeed.                                      *)
Fairness ==
    /\ WF_vars(MainStep) /\ WF_vars(RunScheduled)
    /\ WF_vars(\E c \in Channels : LoopStep(c))
    /\ WF_vars(\E c \in Channels, ok \in BOOLEAN : ConnectDone(c, ok))
    /\ SF_vars(\E c \in Channels : ConnectDone(c, TRUE))

FairSpec == Spec /\ Fairness

LinkUp == \E c \in Channels : st[c] = "open"

(* The channel in use is connected, and its handshake is not answered or   *)
(* was refused: connect() takes it for an open link and leaves it alone.   *)
HandshakeMissing == channel \in Channels /\ st[channel] \in {"active", "refused"}

NoRemoteClose == [][\A c \in Channels : ~RemoteClose(c)]_vars

(* A wanted link comes up and stays up once the server and the network no  *)
(* longer break connections, whatever sequence of losses, late listener    *)
(* calls, retries and broadcasts came before; the one thing that can keep  *)
(* it down is a server that does not complete the handshake.               *)
Reconnects ==
    <>[](asked = "yes") /\ <>NoRemoteClose
        => <>[]LinkUp \/ <>[]HandshakeMissing

(* startWebServices always connects ("conectar aunque no este registrado", *)
(* BackgroundService.java:186), also right after closeConns().             *)
StartConnects ==
    <>[](asked # "no") /\ <>NoRemoteClose
        => <>[]LinkUp \/ <>[]HandshakeMissing
=============================================================================
