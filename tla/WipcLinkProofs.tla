--------------------------- MODULE WipcLinkProofs ---------------------------
(* Theorems of WipcLink: for any number of callers, event loops, attempts  *)
(* and calls.                                                              *)
EXTENDS WipcLink, TLAPS

(* Threads of different kinds are different threads.                       *)
LEMMA DistinctActors ==
    /\ Service \in Actors /\ Users \subseteq Actors
    /\ \A c \in Channels : Closer(c) \in Actors /\ Closer(c) # Service /\ Closer(c) \notin Users
    /\ \A k \in Timers : Worker(k) \in Actors /\ Worker(k) # Service /\ Worker(k) \notin Users
    /\ \A c \in Channels, k \in Timers : Closer(c) # Worker(k)
    /\ \A j, k \in Timers : Worker(j) = Worker(k) => j = k
    /\ None \notin Actors /\ Service \notin Users
<1>1. \A c \in Channels : Closer(c) \in Closers
  BY DEF Closers
<1>2. \A k \in Timers : Worker(k) \in Workers
  BY DEF Workers
<1>3. \A c \in Channels, k \in Timers : Closer(c) # Worker(k)
  BY DEF Closer, Worker
<1>4. \A j, k \in Timers : Worker(j) = Worker(k) => j = k
  BY DEF Worker
<1> QED BY <1>1, <1>2, <1>3, <1>4, ActorsAssumption DEF Actors

(* Numbers of attempts and timers.                                         *)
LEMMA Numbering ==
    ASSUME TypeOK
    PROVE  /\ timer \in Timers /\ timer \in Nat /\ made \in Nat /\ channelFuture \in Nat
           /\ timer <= made /\ made <= MaxChannels /\ channelFuture <= made
           /\ channelFuture # 0 => channelFuture \in Channels
BY BoundsAssumption DEF TypeOK, Timers, Channels

LEMMA WipcTypeInit == Init => TypeOK
<1> SUFFICES ASSUME Init PROVE TypeOK
  OBVIOUS
<1>1. calls \in 0 .. MaxCalls /\ made \in 0 .. MaxChannels
  BY BoundsAssumption DEF Init
<1>2. channelFuture \in 0 .. made /\ timer \in 0 .. made
  BY DEF Init
<1>3. pc \in [Actors -> PC]
  BY DEF Init, PC
<1> QED BY <1>1, <1>2, <1>3 DEF Init, TypeOK

(* An attempt is numbered after those before it.                           *)
LEMMA AttemptTyped ==
    ASSUME TypeOK, BootstrapConnect
    PROVE  /\ made' \in 0 .. MaxChannels /\ channelFuture' \in 0 .. made'
           /\ channelFuture' # 0 /\ made' = made + 1
           /\ ch' \in [Channels -> {"none", "pending", "open", "failed", "closed"}]
           /\ timer \in 0 .. made'
BY BoundsAssumption, Numbering DEF TypeOK, BootstrapConnect, Channels

LEMMA WipcTypeStep == TypeOK /\ ThreadInv /\ [Next]_vars => TypeOK'
<1> SUFFICES ASSUME TypeOK, ThreadInv, [Next]_vars PROVE TypeOK'
  OBVIOUS
<1> USE DistinctActors, Numbering, BoundsAssumption
<1>1. ASSUME NEW u \in Users, Connect(u) PROVE TypeOK'
  BY <1>1 DEF Connect, TypeOK, Go, PC, chans, listeners, timing
<1>2. ASSUME NEW u \in Users, Disconnect(u) PROVE TypeOK'
  BY <1>2 DEF Disconnect, TypeOK, Go, PC, chans, listeners, timing
<1>3. ASSUME NEW u \in Users, RequestDisconnect(u) PROVE TypeOK'
  BY <1>3 DEF RequestDisconnect, TypeOK, Go, PC, chans, listeners, timing
<1>4. ASSUME NEW u \in Users, CloseChannel(u) PROVE TypeOK'
  BY <1>4 DEF CloseChannel, TypeOK, Go, PC, listeners, timing
<1>5. ASSUME BackendHalt PROVE TypeOK'
  BY <1>5 DEF BackendHalt, TypeOK, Go, PC, chans, listeners
<1>6. ASSUME HaltIsReady PROVE TypeOK'
  BY <1>6 DEF HaltIsReady, TypeOK, Go, PC, monitors, chans, listeners, timing
<1>7. ASSUME HaltConnect PROVE TypeOK'
  BY <1>7, AttemptTyped DEF HaltConnect, BootstrapConnect, TypeOK, Go, PC, monitors, listeners, timing
<1>8. ASSUME AddHaltListener PROVE TypeOK'
  BY <1>8 DEF AddHaltListener, ThreadInv, TypeOK, Go, PC, monitors, chans, timing
<1>9. ASSUME NEW a \in Actors, HasConnectionInProgress(a) PROVE TypeOK'
  BY <1>9 DEF HasConnectionInProgress, Refuse, Proceed, TypeOK, Go, PC, chans, listeners, timing
<1>10. ASSUME NEW a \in Actors, StillInProgress(a) PROVE TypeOK'
  BY <1>10 DEF StillInProgress, Refuse, Proceed, TypeOK, Go, PC, chans, listeners, timing
<1>11. ASSUME NEW a \in Actors, DoConnect(a) PROVE TypeOK'
  BY <1>11, AttemptTyped DEF DoConnect, BootstrapConnect, TypeOK, Go, PC, monitors, listeners, timing
<1>12. ASSUME NEW a \in Actors, OnReconnect(a) PROVE TypeOK'
  BY <1>12, AttemptTyped DEF OnReconnect, BootstrapConnect, TypeOK, Go, PC, listeners, timing
<1>13. ASSUME NEW a \in Actors, RequestReconnect(a) PROVE TypeOK'
  <2>1. timer' \in 0 .. made'
    BY <1>13 DEF RequestReconnect, ThreadInv, chans
  <2> QED BY <1>13, <2>1 DEF RequestReconnect, TypeOK, Go, PC, monitors, chans, listeners
<1>14. ASSUME NEW a \in Actors, AddReconnectListener(a) PROVE TypeOK'
  BY <1>14 DEF AddReconnectListener, TypeOK, Go, PC, monitors, chans, timing
<1>15. ASSUME NEW a \in Actors, AddCloseListener(a) PROVE TypeOK'
  BY <1>15 DEF AddCloseListener, TypeOK, Go, PC, chans, timing
<1>16. ASSUME NEW a \in Actors, StopTimer(a) PROVE TypeOK'
  BY <1>16 DEF StopTimer, TypeOK, Go, PC, chans, listeners
<1>17. ASSUME NEW k \in Timers, FireTimeout(k) PROVE TypeOK'
  BY <1>17 DEF FireTimeout, TypeOK, Go, PC, monitors, chans, listeners
<1>18. ASSUME NEW c \in Channels, Connected(c) \/ ConnectFails(c) \/ Closes(c) PROVE TypeOK'
  BY <1>18 DEF Connected, ConnectFails, Closes, TypeOK, monitors, listeners, timing
<1>19. ASSUME NEW c \in Channels, OperationComplete(c) PROVE TypeOK'
  BY <1>19 DEF OperationComplete, TypeOK, monitors, chans
<1>20. ASSUME NEW c \in Channels, CloseListener(c) PROVE TypeOK'
  BY <1>20 DEF CloseListener, TypeOK, Go, PC, monitors, chans, timing
<1>21. ASSUME NEW c \in Channels, HaltListener(c) PROVE TypeOK'
  BY <1>21 DEF HaltListener, PutHalt, TypeOK, monitors, timing
<1>22. ASSUME NEW c \in Channels, HandlerAdded(c) PROVE TypeOK'
  BY <1>22 DEF HandlerAdded, PutHalt, TypeOK, monitors, timing
<1>23. ASSUME NEW c \in Channels, Authenticate(c) PROVE TypeOK'
  BY <1>23 DEF Authenticate, TypeOK, monitors, timing
<1>24. CASE UNCHANGED vars
  BY <1>24 DEF vars, TypeOK, monitors, chans, listeners, timing
<1> QED
  BY <1>1, <1>2, <1>3, <1>4, <1>5, <1>6, <1>7, <1>8, <1>9, <1>10, <1>11, <1>12, <1>13,
     <1>14, <1>15, <1>16, <1>17, <1>18, <1>19, <1>20, <1>21, <1>22, <1>23, <1>24
     DEF Next, ThreadStep, LoopStep

-----------------------------------------------------------------------------
(* What the threads hold.                                                  *)

LEMMA ThreadInvInit == Init => ThreadInv
BY DistinctActors DEF Init, ThreadInv, ConPC

LEMMA ThreadInvStep == TypeOK /\ ThreadInv /\ [Next]_vars => ThreadInv'
<1> SUFFICES ASSUME TypeOK, ThreadInv, [Next]_vars PROVE ThreadInv'
  OBVIOUS
<1> USE DistinctActors, Numbering DEF ThreadInv
<1>1. ASSUME NEW u \in Users, Connect(u) PROVE ThreadInv'
  BY <1>1 DEF Connect, TypeOK, Go, ConPC, chans, timing
<1>2. ASSUME NEW u \in Users, Disconnect(u) PROVE ThreadInv'
  BY <1>2 DEF Disconnect, TypeOK, Go, ConPC, chans, timing
<1>3. ASSUME NEW u \in Users, RequestDisconnect(u) PROVE ThreadInv'
  BY <1>3 DEF RequestDisconnect, TypeOK, Go, ConPC, chans
<1>4. ASSUME NEW u \in Users, CloseChannel(u) PROVE ThreadInv'
  BY <1>4 DEF CloseChannel, TypeOK, Go, ConPC, timing
<1>5. ASSUME BackendHalt PROVE ThreadInv'
  BY <1>5 DEF BackendHalt, TypeOK, Go, ConPC, chans
<1>6. ASSUME HaltIsReady PROVE ThreadInv'
  BY <1>6 DEF HaltIsReady, IsReady, TypeOK, Go, ConPC, monitors, chans, timing
<1>7. ASSUME HaltConnect PROVE ThreadInv'
  BY <1>7, AttemptTyped DEF HaltConnect, TypeOK, Go, ConPC, monitors, timing
<1>8. ASSUME AddHaltListener PROVE ThreadInv'
  BY <1>8 DEF AddHaltListener, TypeOK, Go, ConPC, monitors, chans, timing
<1>9. ASSUME NEW a \in Actors, HasConnectionInProgress(a) PROVE ThreadInv'
  BY <1>9 DEF HasConnectionInProgress, Refuse, Proceed, TypeOK, Go, ConPC, chans, timing
<1>10. ASSUME NEW a \in Actors, StillInProgress(a) PROVE ThreadInv'
  BY <1>10 DEF StillInProgress, Refuse, Proceed, TypeOK, Go, ConPC, chans, timing
<1>11. ASSUME NEW a \in Actors, DoConnect(a) PROVE ThreadInv'
  BY <1>11, AttemptTyped DEF DoConnect, TypeOK, Go, ConPC, monitors, timing
<1>12. ASSUME NEW a \in Actors, OnReconnect(a) PROVE ThreadInv'
  BY <1>12, AttemptTyped DEF OnReconnect, TypeOK, Go, ConPC, timing
<1>13. ASSUME NEW a \in Actors, RequestReconnect(a) PROVE ThreadInv'
  BY <1>13 DEF RequestReconnect, TypeOK, Go, ConPC, monitors, chans
<1>14. ASSUME NEW a \in Actors, AddReconnectListener(a) PROVE ThreadInv'
  BY <1>14 DEF AddReconnectListener, TypeOK, Go, ConPC, monitors, chans, timing
<1>15. ASSUME NEW a \in Actors, AddCloseListener(a) PROVE ThreadInv'
  BY <1>15 DEF AddCloseListener, TypeOK, Go, ConPC, chans, timing
<1>16. ASSUME NEW a \in Actors, StopTimer(a) PROVE ThreadInv'
  BY <1>16 DEF StopTimer, TypeOK, Go, ConPC, chans
<1>17. ASSUME NEW k \in Timers, FireTimeout(k) PROVE ThreadInv'
  BY <1>17 DEF FireTimeout, TypeOK, Go, ConPC, monitors, chans
<1>18. ASSUME NEW c \in Channels, CloseListener(c) PROVE ThreadInv'
  BY <1>18 DEF CloseListener, TypeOK, Go, ConPC, monitors, chans, timing
<1>19. ASSUME NEW c \in Channels,
              \/ Connected(c) \/ ConnectFails(c) \/ Closes(c) \/ OperationComplete(c)
              \/ HaltListener(c) \/ HandlerAdded(c) \/ Authenticate(c)
       PROVE  ThreadInv'
  BY <1>19 DEF Connected, ConnectFails, Closes, OperationComplete, HaltListener,
               HandlerAdded, Authenticate, monitors, chans, timing
<1>20. CASE UNCHANGED vars
  BY <1>20 DEF vars, monitors, chans, timing
<1> QED
  BY <1>1, <1>2, <1>3, <1>4, <1>5, <1>6, <1>7, <1>8, <1>9, <1>10, <1>11, <1>12, <1>13,
     <1>14, <1>15, <1>16, <1>17, <1>18, <1>19, <1>20
     DEF Next, ThreadStep, LoopStep

(* Every variable of the connection keeps its type, and with it: no timer  *)
(* without an attempt, and no halt listener without a channel.             *)
THEOREM WipcTypeCorrect == Spec => [](TypeOK /\ ThreadInv)
<1>1. Init => TypeOK /\ ThreadInv
  BY WipcTypeInit, ThreadInvInit
<1>2. TypeOK /\ ThreadInv /\ [Next]_vars => (TypeOK /\ ThreadInv)'
  BY WipcTypeStep, ThreadInvStep
<1> QED BY <1>1, <1>2, PTL DEF Spec

-----------------------------------------------------------------------------
(* The halt handler.                                                       *)

LEMMA HaltNotMissedStep ==
    TypeOK /\ ThreadInv /\ HaltNotMissed /\ [Next]_vars => HaltNotMissed'
<1> SUFFICES ASSUME TypeOK, ThreadInv, HaltNotMissed, [Next]_vars PROVE HaltNotMissed'
  OBVIOUS
<1> USE DEF HaltNotMissed
<1>1. ASSUME NEW c \in Channels, HaltListener(c) PROVE HaltNotMissed'
  BY <1>1 DEF HaltListener, PutHalt, TypeOK
<1>2. ASSUME NEW c \in Channels, HandlerAdded(c) PROVE HaltNotMissed'
  BY <1>2 DEF HandlerAdded, PutHalt, TypeOK
<1>3. ASSUME NEW c \in Channels, Authenticate(c) PROVE HaltNotMissed'
  BY <1>3 DEF Authenticate, TypeOK
<1>4. ASSUME UNCHANGED <<authed, halt>> PROVE HaltNotMissed'
  BY <1>4
<1>5. ASSUME NEW u \in Users, Connect(u) \/ Disconnect(u) \/ RequestDisconnect(u) \/ CloseChannel(u)
      PROVE  HaltNotMissed'
  BY <1>4, <1>5 DEF Connect, Disconnect, RequestDisconnect, CloseChannel, chans, listeners
<1>6. ASSUME BackendHalt \/ HaltIsReady \/ HaltConnect \/ AddHaltListener PROVE HaltNotMissed'
  BY <1>4, <1>6 DEF BackendHalt, HaltIsReady, HaltConnect, AddHaltListener, BootstrapConnect,
                    chans, listeners
<1>7. ASSUME NEW a \in Actors, ThreadStep(a) PROVE HaltNotMissed'
  BY <1>4, <1>7 DEF ThreadStep, HasConnectionInProgress, StillInProgress, DoConnect, OnReconnect,
                    RequestReconnect, AddReconnectListener, AddCloseListener, StopTimer,
                    BootstrapConnect, chans, listeners
<1>8. ASSUME NEW k \in Timers, FireTimeout(k) PROVE HaltNotMissed'
  BY <1>4, <1>8 DEF FireTimeout, chans, listeners
<1>9. ASSUME NEW c \in Channels,
             Connected(c) \/ ConnectFails(c) \/ Closes(c) \/ OperationComplete(c) \/ CloseListener(c)
      PROVE  HaltNotMissed'
  BY <1>4, <1>9 DEF Connected, ConnectFails, Closes, OperationComplete, CloseListener,
                    chans, listeners
<1>10. CASE UNCHANGED vars
  BY <1>4, <1>10 DEF vars, chans, listeners
<1> QED
  BY <1>1, <1>2, <1>3, <1>5, <1>6, <1>7, <1>8, <1>9, <1>10 DEF Next, LoopStep

(* Whether the halt handler or the authentication comes first, HALT is     *)
(* sent on an authenticated channel: Halt.handlerAdded and fireChannelActive *)
(* of AuthenticationHandler leave no gap between them.                     *)
THEOREM HaltSent == Spec => []HaltNotMissed
<1>1. Init => HaltNotMissed
  BY DEF Init, HaltNotMissed
<1>2. TypeOK /\ ThreadInv /\ HaltNotMissed /\ [Next]_vars => HaltNotMissed'
  BY HaltNotMissedStep
<1> QED BY <1>1, <1>2, WipcTypeCorrect, PTL DEF Spec

-----------------------------------------------------------------------------
(* The timers.                                                             *)

LEMMA TimerInvInit == Init => TimerInv
BY BoundsAssumption DEF Init, TimerInv, Timers

(* A step that leaves the timers alone and gives their workers nothing to  *)
(* do.                                                                     *)
LEMMA TimerInvKept ==
    ASSUME TypeOK, ThreadInv, TimerInv, UNCHANGED <<timing, rocMonitor>>,
           \A k \in Timers : pc[Worker(k)] = "idle" => pc'[Worker(k)] = "idle"
    PROVE  TimerInv'
BY DEF TimerInv, timing

LEMMA TimerInvStep == TypeOK /\ ThreadInv /\ TimerInv /\ [Next]_vars => TimerInv'
<1> SUFFICES ASSUME TypeOK, ThreadInv, TimerInv, [Next]_vars PROVE TimerInv'
  OBVIOUS
<1> USE DistinctActors
<1>1. ASSUME NEW u \in Users, Connect(u) \/ Disconnect(u) \/ CloseChannel(u) PROVE TimerInv'
  BY <1>1, TimerInvKept DEF Connect, Disconnect, CloseChannel, TypeOK, Go
<1>2. ASSUME NEW u \in Users, RequestDisconnect(u) PROVE TimerInv'
  BY <1>2 DEF RequestDisconnect, TimerInv, TypeOK, Go
<1>3. ASSUME BackendHalt PROVE TimerInv'
  BY <1>3 DEF BackendHalt, TimerInv, TypeOK, Go
<1>4. ASSUME HaltIsReady \/ HaltConnect \/ AddHaltListener PROVE TimerInv'
  BY <1>4, TimerInvKept DEF HaltIsReady, HaltConnect, AddHaltListener, TypeOK, Go, monitors
<1>5. ASSUME NEW a \in Actors,
             \/ HasConnectionInProgress(a) \/ StillInProgress(a) \/ DoConnect(a) \/ OnReconnect(a)
             \/ AddReconnectListener(a) \/ AddCloseListener(a)
      PROVE  TimerInv'
  BY <1>5, TimerInvKept DEF HasConnectionInProgress, StillInProgress, DoConnect, OnReconnect,
            AddReconnectListener, AddCloseListener, Refuse, Proceed, TypeOK, Go, monitors
<1>6. ASSUME NEW a \in Actors, RequestReconnect(a) PROVE TimerInv'
  <2>1. timer + 1 \in Timers /\ ~(timer + 1 <= timer)
    BY <1>6, Numbering, BoundsAssumption DEF RequestReconnect, ThreadInv, Timers
  <2>2. ~stopped[timer + 1]
    BY <2>1 DEF TimerInv
  <2>3. \A k \in Timers : k <= timer => k <= timer + 1
    BY Numbering, BoundsAssumption DEF Timers
  <2>4. \A k \in Timers : pc[Worker(k)] = "idle" => pc'[Worker(k)] = "idle"
    BY <1>6 DEF RequestReconnect, TypeOK, Go
  <2>5. timer' = timer + 1 /\ ~disconnectRequested' /\ UNCHANGED <<stopped, timeouts>>
    BY <1>6 DEF RequestReconnect
  <2> QED BY <2>2, <2>3, <2>4, <2>5 DEF TimerInv
<1>7. ASSUME NEW a \in Actors, StopTimer(a) PROVE TimerInv'
  BY <1>7, Numbering DEF StopTimer, ThreadInv, TimerInv, TypeOK, Go
<1>8. ASSUME NEW k \in Timers, FireTimeout(k) PROVE TimerInv'
  BY <1>8, Numbering DEF FireTimeout, TimerInv, TypeOK, Go, monitors
<1>9. ASSUME NEW c \in Channels, OperationComplete(c) PROVE TimerInv'
  BY <1>9, Numbering DEF OperationComplete, TimerInv, TypeOK, monitors
<1>10. ASSUME NEW c \in Channels, CloseListener(c) PROVE TimerInv'
  BY <1>10, TimerInvKept DEF CloseListener, TypeOK, Go, monitors
<1>11. ASSUME NEW c \in Channels,
              \/ Connected(c) \/ ConnectFails(c) \/ Closes(c)
              \/ HaltListener(c) \/ HandlerAdded(c) \/ Authenticate(c)
       PROVE  TimerInv'
  BY <1>11, TimerInvKept DEF Connected, ConnectFails, Closes, HaltListener, HandlerAdded,
             Authenticate, monitors
<1>12. CASE UNCHANGED vars
  BY <1>12, TimerInvKept DEF vars, monitors
<1> QED
  BY <1>1, <1>2, <1>3, <1>4, <1>5, <1>6, <1>7, <1>8, <1>9, <1>10, <1>11, <1>12
     DEF Next, ThreadStep, LoopStep

(* A timer that requestDisconnect() has stopped fires no more, and         *)
(* scheduleReconnect() never adds a timeout to a stopped one.              *)
THEOREM StoppedIsSilent == Spec => []TimerInv
<1>1. TypeOK /\ ThreadInv /\ TimerInv /\ [Next]_vars => TimerInv'
  BY TimerInvStep
<1> QED BY <1>1, TimerInvInit, WipcTypeCorrect, PTL DEF Spec

(* Only requestReconnect() ends a disconnection.                           *)
LEMMA OnlyRequestReconnect ==
    ASSUME [Next]_vars, disconnectRequested, ~disconnectRequested'
    PROVE  \E a \in Actors : RequestReconnect(a)
BY DEF Next, ThreadStep, LoopStep, vars, timing, Connect, Disconnect, RequestDisconnect, CloseChannel,
       BackendHalt, HaltIsReady, HaltConnect, AddHaltListener, HasConnectionInProgress,
       StillInProgress, DoConnect, OnReconnect, AddReconnectListener, AddCloseListener, StopTimer,
       FireTimeout, Connected, ConnectFails, Closes, OperationComplete, CloseListener, HaltListener,
       HandlerAdded, Authenticate

(* A disconnect() or backendHalt() is never undone by the timer it has     *)
(* stopped: timer.stop() joins the worker before it returns.               *)
THEOREM RevivedByOthers == Spec => RevivedBy
<1>1. TypeOK /\ ThreadInv /\ TimerInv /\ [Next]_vars =>
        [disconnectRequested /\ ~disconnectRequested' =>
           \E a \in Actors \ {Worker(timer)} : pc[a] = "requestReconnect"]_vars
  <2> SUFFICES ASSUME TypeOK, ThreadInv, TimerInv, [Next]_vars,
                      disconnectRequested, ~disconnectRequested'
               PROVE  \E a \in Actors \ {Worker(timer)} : pc[a] = "requestReconnect"
    OBVIOUS
  <2>1. PICK a \in Actors : RequestReconnect(a)
    BY OnlyRequestReconnect
  <2>2. pc[Worker(timer)] = "idle"
    BY <2>1, Numbering DEF RequestReconnect, TimerInv
  <2> QED BY <2>1, <2>2 DEF RequestReconnect
<1> QED BY <1>1, WipcTypeCorrect, StoppedIsSilent, PTL DEF Spec, RevivedBy

-----------------------------------------------------------------------------
(* The chain of attempts.                                                  *)

LEMMA ListenerInvInit == Init => ListenerInv
BY BoundsAssumption DEF Init, ListenerInv, Channels, Done, Dead

(* A step that touches neither channels nor listeners, and leaves a thread *)
(* between the two calls of addListener() where it is.                     *)
LEMMA ListenerInvKept ==
    ASSUME ListenerInv, UNCHANGED <<made, channelFuture, ch, roc, onClose>>,
           \A a \in Actors \ {Service} : pc[a] = "addOnClose" => pc'[a] = "addOnClose"
    PROVE  ListenerInv'
BY DEF ListenerInv, Done, Dead

(* A new attempt is one that had no listeners.                             *)
LEMMA ListenerInvAttempt ==
    ASSUME TypeOK, ListenerInv, BootstrapConnect, UNCHANGED <<roc, onClose>>
    PROVE  ListenerInv'
<1> USE BoundsAssumption, Numbering
<1>1. made + 1 \in Channels /\ ~(made + 1 <= made) /\ made' = made + 1 /\ channelFuture' = made + 1
  BY DEF BootstrapConnect, Channels
<1>2. ch[made + 1] = "none" /\ roc[made + 1] = "no" /\ onClose[made + 1] \notin {"late", "ran"}
  BY <1>1 DEF ListenerInv, Dead
<1>3. ch' = [ch EXCEPT ![made + 1] = "pending"]
  BY DEF BootstrapConnect
<1>4. ASSUME NEW c \in Channels
      PROVE  /\ IF c <= made' THEN ch'[c] # "none" ELSE ch'[c] = "none" /\ roc'[c] = "no"
             /\ roc'[c] \in {"late", "ran"} => Done(c)'
             /\ onClose'[c] \in {"late", "ran"} => Dead(c)'
  <2>1. CASE c = made + 1
    BY <1>1, <1>2, <1>3, <2>1 DEF TypeOK
  <2>2. CASE c # made + 1
    <3>1. ch'[c] = ch[c] /\ (c <= made' <=> c <= made)
      BY <1>1, <1>3, <2>2 DEF TypeOK, Channels
    <3> QED BY <3>1 DEF ListenerInv, Done, Dead
  <2> QED BY <2>1, <2>2
<1>5. roc'[channelFuture'] = "no" /\ channelFuture' # 0
  BY <1>1, <1>2
<1> QED BY <1>4, <1>5 DEF ListenerInv

LEMMA ListenerInvStep ==
    TypeOK /\ ThreadInv /\ ListenerInv /\ [Next]_vars => ListenerInv'
<1> SUFFICES ASSUME TypeOK, ThreadInv, ListenerInv, [Next]_vars PROVE ListenerInv'
  OBVIOUS
<1> USE DistinctActors
<1>1. ASSUME NEW u \in Users, Connect(u) \/ Disconnect(u) \/ RequestDisconnect(u) \/ CloseChannel(u)
      PROVE  ListenerInv'
  BY <1>1, ListenerInvKept DEF Connect, Disconnect, RequestDisconnect, CloseChannel,
            TypeOK, Go, chans, listeners
<1>2. ASSUME BackendHalt \/ HaltIsReady \/ AddHaltListener PROVE ListenerInv'
  BY <1>2, ListenerInvKept DEF BackendHalt, HaltIsReady, AddHaltListener, TypeOK, Go,
            chans, listeners
<1>3. ASSUME HaltConnect PROVE ListenerInv'
  BY <1>3, ListenerInvAttempt DEF HaltConnect, listeners
<1>4. ASSUME NEW a \in Actors, DoConnect(a) \/ OnReconnect(a) PROVE ListenerInv'
  BY <1>4, ListenerInvAttempt DEF DoConnect, OnReconnect, listeners
<1>5. ASSUME NEW a \in Actors,
             \/ HasConnectionInProgress(a) \/ StillInProgress(a)
             \/ RequestReconnect(a) \/ StopTimer(a)
      PROVE  ListenerInv'
  BY <1>5, ListenerInvKept DEF HasConnectionInProgress, StillInProgress, Refuse, Proceed,
            RequestReconnect, StopTimer, TypeOK, Go, chans, listeners
<1>6. ASSUME NEW a \in Actors, AddReconnectListener(a) PROVE ListenerInv'
  <2>1. a # Service
    BY <1>6 DEF AddReconnectListener, ThreadInv
  <2>2. channelFuture # 0 => channelFuture <= made /\ channelFuture \in Channels
    BY Numbering
  <2> QED BY <1>6, <2>1, <2>2 DEF AddReconnectListener, ListenerInv, TypeOK, Go, Done, Dead, chans, monitors
<1>7. ASSUME NEW a \in Actors, AddCloseListener(a) PROVE ListenerInv'
  BY <1>7, Numbering DEF AddCloseListener, ListenerInv, TypeOK, Done, Dead, chans
<1>8. ASSUME NEW k \in Timers, FireTimeout(k) PROVE ListenerInv'
  BY <1>8, ListenerInvKept DEF FireTimeout, TypeOK, Go, chans, listeners
<1>9. ASSUME NEW c \in Channels, Connected(c) \/ ConnectFails(c) \/ Closes(c) PROVE ListenerInv'
  BY <1>9 DEF Connected, ConnectFails, Closes, ListenerInv, TypeOK, Done, Dead, listeners
<1>10. ASSUME NEW c \in Channels, OperationComplete(c) PROVE ListenerInv'
  BY <1>10 DEF OperationComplete, Notifying, ListenerInv, TypeOK, Done, Dead, chans
<1>11. ASSUME NEW c \in Channels, CloseListener(c) PROVE ListenerInv'
  <2>1. \A a \in Actors \ {Service} : pc[a] = "addOnClose" => pc'[a] = "addOnClose"
    BY <1>11 DEF CloseListener, TypeOK, Go
  <2> QED BY <1>11, <2>1 DEF CloseListener, ListenerInv, TypeOK, Done, Dead, chans
<1>12. ASSUME NEW c \in Channels, HaltListener(c) \/ HandlerAdded(c) \/ Authenticate(c)
       PROVE  ListenerInv'
  BY <1>12, ListenerInvKept DEF HaltListener, HandlerAdded, Authenticate
<1>13. CASE UNCHANGED vars
  BY <1>13, ListenerInvKept DEF vars, chans, listeners
<1> QED
  BY <1>1, <1>2, <1>3, <1>4, <1>5, <1>6, <1>7, <1>8, <1>9, <1>10, <1>11, <1>12, <1>13
     DEF Next, ThreadStep, LoopStep

LEMMA ChainInvInit == Init => ChainInv
BY DEF Init, ChainInv

(* The current channel and its listeners stay as they are, no timeout is   *)
(* taken away, and no thread leaves doConnect().                           *)
LEMMA ChainedKept ==
    ASSUME ChainInv, UNCHANGED <<made, channelFuture, ch, authed, roc, onClose, timeouts>>,
           ~disconnectRequested' => ~disconnectRequested,
           \A a \in Actors \ {Service} :
              pc[a] \in {"onReconnect", "connect", "requestReconnect", "addRoc", "addOnClose"}
                 => pc'[a] = pc[a]
    PROVE  ChainInv'
<1> SUFFICES ASSUME ~disconnectRequested', made' > 0 PROVE Chained'
  BY DEF ChainInv
<1>1. Chained
  BY DEF ChainInv
<1> QED BY <1>1 DEF Chained, ClosedAuthed, Hopeful

LEMMA ChainInvStep ==
    TypeOK /\ ThreadInv /\ ListenerInv /\ ChainInv /\ [Next]_vars => ChainInv'
<1> SUFFICES ASSUME TypeOK, ThreadInv, ListenerInv, ChainInv, [Next]_vars PROVE ChainInv'
  OBVIOUS
<1> USE DistinctActors
<1>1. ASSUME NEW u \in Users, Connect(u) \/ Disconnect(u) \/ RequestDisconnect(u) \/ CloseChannel(u)
      PROVE  ChainInv'
  BY <1>1, ChainedKept DEF Connect, Disconnect, RequestDisconnect, CloseChannel, TypeOK, Go,
            chans, listeners, timing
<1>2. ASSUME BackendHalt \/ HaltIsReady \/ AddHaltListener PROVE ChainInv'
  BY <1>2, ChainedKept DEF BackendHalt, HaltIsReady, AddHaltListener, TypeOK, Go,
            chans, listeners, timing
<1>3. ASSUME HaltConnect PROVE ChainInv'
  <2>1. made + 1 \in Channels /\ channelFuture' = made + 1
    BY <1>3, Numbering, BoundsAssumption DEF HaltConnect, BootstrapConnect, Channels
  <2>2. ch'[channelFuture'] = "pending"
    BY <1>3, <2>1 DEF HaltConnect, BootstrapConnect, TypeOK
  <2> QED BY <2>2 DEF ChainInv, Chained, Hopeful
<1>4. ASSUME NEW a \in Actors, DoConnect(a) \/ OnReconnect(a) \/ RequestReconnect(a) PROVE ChainInv'
  <2>1. a # Service /\ pc'[a] \in {"requestReconnect", "addRoc"}
    BY <1>4 DEF DoConnect, OnReconnect, RequestReconnect, ThreadInv, TypeOK, Go
  <2> QED BY <2>1 DEF ChainInv, Chained
<1>5. ASSUME NEW a \in Actors, HasConnectionInProgress(a) \/ StillInProgress(a) PROVE ChainInv'
  BY <1>5, ChainedKept DEF HasConnectionInProgress, StillInProgress, Refuse, Proceed, TypeOK, Go,
            chans, listeners, timing
<1>6. ASSUME NEW a \in Actors, StopTimer(a) PROVE ChainInv'
  BY <1>6 DEF StopTimer, ThreadInv, ChainInv
<1>7. ASSUME NEW a \in Actors, AddReconnectListener(a) PROVE ChainInv'
  <2> SUFFICES ASSUME made > 0 PROVE Chained'
    BY <1>7 DEF AddReconnectListener, ChainInv, chans
  <2>1. a # Service /\ pc'[a] = "addOnClose"
    BY <1>7 DEF AddReconnectListener, ThreadInv, TypeOK, Go
  <2>2. channelFuture \in Channels /\ ch[channelFuture] # "none"
    BY Numbering DEF ListenerInv
  <2>3. ch[channelFuture] \in {"pending", "open", "failed", "closed"}
    BY <2>2 DEF TypeOK
  <2>4. ch[channelFuture] = "failed" => roc'[channelFuture] = "late"
    BY <1>7, <2>2 DEF AddReconnectListener, TypeOK, Done
  <2> QED BY <1>7, <2>1, <2>3, <2>4 DEF AddReconnectListener, Chained, ClosedAuthed, Hopeful, chans
<1>8. ASSUME NEW a \in Actors, AddCloseListener(a) PROVE ChainInv'
  <2> SUFFICES ASSUME ~disconnectRequested, made > 0 PROVE Chained'
    BY <1>8 DEF AddCloseListener, ChainInv, chans, timing
  <2>1. channelFuture \in Channels
    BY Numbering DEF ListenerInv
  <2>2. onClose'[channelFuture] \in {"added", "late"}
    BY <1>8, <2>1 DEF AddCloseListener, TypeOK
  <2>3. CASE ClosedAuthed
    BY <1>8, <2>2, <2>3 DEF AddCloseListener, Chained, Hopeful, ClosedAuthed, chans
  <2>4. CASE ~ClosedAuthed
    <3>1. Chained
      BY DEF ChainInv
    <3>2. \A b \in Actors \ {Service} :
             pc[b] \in {"onReconnect", "connect", "requestReconnect", "addRoc"} => pc'[b] = pc[b]
      BY <1>8 DEF AddCloseListener, TypeOK, Go
    <3> QED BY <1>8, <2>4, <3>1, <3>2
              DEF AddCloseListener, Chained, Hopeful, ClosedAuthed, chans, timing
  <2> QED BY <2>3, <2>4
<1>9. ASSUME NEW k \in Timers, FireTimeout(k) PROVE ChainInv'
  <2>1. pc'[Worker(k)] = "onReconnect"
    BY <1>9 DEF FireTimeout, TypeOK, Go
  <2> QED BY <2>1 DEF ChainInv, Chained
<1>10. ASSUME NEW c \in Channels, Connected(c) \/ ConnectFails(c) \/ Closes(c) PROVE ChainInv'
  <2> SUFFICES ASSUME ~disconnectRequested, made > 0 PROVE Chained'
    BY <1>10 DEF Connected, ConnectFails, Closes, ChainInv, timing
  <2>1. Chained
    BY DEF ChainInv
  <2>2. UNCHANGED <<channelFuture, pc, authed, roc, onClose, timeouts>>
    BY <1>10 DEF Connected, ConnectFails, Closes, listeners, timing
  <2>3. CASE c # channelFuture
    <3>1. ch'[channelFuture] = ch[channelFuture]
      BY <1>10, <2>3, Numbering DEF ListenerInv, Connected, ConnectFails, Closes, TypeOK
    <3> QED BY <2>1, <2>2, <3>1 DEF Chained, Hopeful, ClosedAuthed
  <2>4. CASE c = channelFuture /\ Connected(c)
    BY <2>2, <2>4 DEF Connected, Chained, Hopeful, TypeOK
  <2>5. CASE c = channelFuture /\ ConnectFails(c)
    <3>1. roc[c] # "ran" /\ roc[c] \in {"no", "added", "late", "ran"}
      BY <2>5 DEF ConnectFails, ListenerInv, Done, TypeOK
    <3> QED BY <2>2, <2>5, <3>1 DEF ConnectFails, Chained, Hopeful, TypeOK
  <2>6. CASE c = channelFuture /\ Closes(c)
    <3>1. onClose[c] # "ran" /\ onClose[c] \in {"no", "added", "late", "ran"}
      BY <2>6 DEF Closes, ListenerInv, Dead, TypeOK
    <3>2. ch'[c] = "closed"
      BY <2>6 DEF Closes, TypeOK
    <3> QED BY <2>2, <2>6, <3>1, <3>2 DEF ListenerInv, Chained, Hopeful, ClosedAuthed
  <2> QED BY <1>10, <2>3, <2>4, <2>5, <2>6
<1>11. ASSUME NEW c \in Channels, OperationComplete(c) PROVE ChainInv'
  <2> SUFFICES ASSUME ~disconnectRequested, made > 0 PROVE Chained'
    BY <1>11 DEF OperationComplete, ChainInv, chans
  <2>1. Chained
    BY DEF ChainInv
  <2>2. CASE ch[c] = "failed"
    <3>1. timeouts'[timer] > 0
      BY <1>11, <2>2, Numbering DEF OperationComplete, TypeOK
    <3> QED BY <3>1, <1>11, Numbering DEF OperationComplete, Chained
  <2>3. CASE ch[c] # "failed"
    <3>1. UNCHANGED <<timeouts, pc, channelFuture, ch, authed, onClose>>
      BY <1>11, <2>3 DEF OperationComplete, chans
    <3>2. roc'[channelFuture] = roc[channelFuture] \/ (c = channelFuture /\ roc[c] \in {"added", "late"})
      BY <1>11 DEF OperationComplete, Notifying, TypeOK
    <3> QED BY <2>1, <2>3, <3>1, <3>2 DEF Chained, Hopeful, ClosedAuthed
  <2> QED BY <2>2, <2>3
<1>12. ASSUME NEW c \in Channels, CloseListener(c) PROVE ChainInv'
  <2> SUFFICES ASSUME ~disconnectRequested, made > 0 PROVE Chained'
    BY <1>12 DEF CloseListener, ChainInv, chans, timing
  <2>1. Chained
    BY DEF ChainInv
  <2>2. CASE pc'[Closer(c)] = "onReconnect"
    BY <2>2 DEF Chained
  <2>3. CASE pc'[Closer(c)] # "onReconnect"
    <3>1. ~authed[c] /\ UNCHANGED pc
      BY <1>12, <2>3 DEF CloseListener, TypeOK, Go
    <3>2. authed[channelFuture] => onClose'[channelFuture] = onClose[channelFuture]
      BY <1>12, <3>1 DEF CloseListener, TypeOK
    <3> QED BY <1>12, <2>1, <3>1, <3>2
              DEF CloseListener, Chained, Hopeful, ClosedAuthed, chans, timing
  <2> QED BY <2>2, <2>3
<1>13. ASSUME NEW c \in Channels, HaltListener(c) \/ HandlerAdded(c) PROVE ChainInv'
  BY <1>13, ChainedKept DEF HaltListener, HandlerAdded, timing
<1>14. ASSUME NEW c \in Channels, Authenticate(c) PROVE ChainInv'
  <2> SUFFICES ASSUME ~disconnectRequested, made > 0 PROVE Chained'
    BY <1>14 DEF Authenticate, ChainInv, timing
  <2>1. Chained
    BY DEF ChainInv
  <2>2. authed'[channelFuture] = authed[channelFuture] \/ (c = channelFuture /\ ch[c] = "open")
    BY <1>14, Numbering DEF ListenerInv, Authenticate, TypeOK
  <2> QED BY <1>14, <2>1, <2>2 DEF Authenticate, Chained, Hopeful, ClosedAuthed, timing
<1>15. CASE UNCHANGED vars
  BY <1>15, ChainedKept DEF vars, chans, listeners, timing
<1> QED
  BY <1>1, <1>2, <1>3, <1>4, <1>5, <1>6, <1>7, <1>8, <1>9, <1>10, <1>11, <1>12, <1>13, <1>14, <1>15
     DEF Next, ThreadStep, LoopStep

(* While reconnection is active, something that will connect is always     *)
(* under way, except in the two cases ChainKept names: for any number of   *)
(* attempts, event loops and callers.                                      *)
THEOREM WipcChainUnbroken == Spec => []ChainKept
<1>1. TypeOK /\ ListenerInv /\ ChainInv => ChainKept
  <2> SUFFICES ASSUME TypeOK, ListenerInv, ~disconnectRequested, made > 0, Chained
               PROVE  ChainKept
    BY DEF ChainInv, ChainKept
  <2>1. channelFuture \in Channels
    BY Numbering DEF ListenerInv
  <2> QED BY <2>1 DEF Chained, ChainKept, Attempting
<1>2. TypeOK /\ ThreadInv /\ ListenerInv /\ [Next]_vars => ListenerInv'
  BY ListenerInvStep
<1>3. TypeOK /\ ThreadInv /\ ListenerInv /\ ChainInv /\ [Next]_vars => ChainInv'
  BY ChainInvStep
<1> QED BY <1>1, <1>2, <1>3, ListenerInvInit, ChainInvInit, WipcTypeCorrect, PTL DEF Spec

=============================================================================
