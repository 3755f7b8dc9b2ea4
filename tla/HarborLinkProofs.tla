-------------------------- MODULE HarborLinkProofs --------------------------
(* Proofs that HarborLink keeps its promises for any set of channels and   *)
(* any number of retries.                                                  *)
EXTENDS HarborLink, TLAPS

(* Appending to a task queue keeps what is in it and adds what is new.     *)
LEMMA ConcatTask ==
    ASSUME NEW s \in Seq(Task), NEW u \in Seq(Task), NEW t
    PROVE  /\ s \o u \in Seq(Task)
           /\ HasTask(s \o u, t) <=> HasTask(s, t) \/ HasTask(u, t)
<1>1. s \o u \in Seq(Task)
  OBVIOUS
<1>2. ASSUME HasTask(s, t) PROVE HasTask(s \o u, t)
  <2>1. PICK i \in DOMAIN s : s[i] = t
    BY <1>2 DEF HasTask
  <2>2. i \in DOMAIN (s \o u) /\ (s \o u)[i] = t
    BY <2>1
  <2> QED BY <2>2 DEF HasTask
<1>3. ASSUME HasTask(u, t) PROVE HasTask(s \o u, t)
  <2>1. PICK i \in DOMAIN u : u[i] = t
    BY <1>3 DEF HasTask
  <2>2. Len(s) + i \in DOMAIN (s \o u) /\ (s \o u)[Len(s) + i] = t
    BY <2>1
  <2> QED BY <2>2 DEF HasTask
<1>4. ASSUME HasTask(s \o u, t) PROVE HasTask(s, t) \/ HasTask(u, t)
  <2>1. PICK i \in DOMAIN (s \o u) : (s \o u)[i] = t
    BY <1>4 DEF HasTask
  <2>2. CASE i <= Len(s)
    <3>1. i \in DOMAIN s /\ s[i] = t
      BY <2>1, <2>2
    <3> QED BY <3>1 DEF HasTask
  <2>3. CASE i > Len(s)
    <3>1. i - Len(s) \in DOMAIN u /\ u[i - Len(s)] = t
      BY <2>1, <2>3
    <3> QED BY <3>1 DEF HasTask
  <2> QED BY <2>1, <2>2, <2>3
<1> QED BY <1>1, <1>2, <1>3, <1>4

(* Taking the first task off a queue loses no other task.                  *)
LEMMA TailTask ==
    ASSUME NEW s \in Seq(Task), s # <<>>, NEW t
    PROVE  /\ Tail(s) \in Seq(Task) /\ Head(s) \in Task
           /\ HasTask(Tail(s), t) => HasTask(s, t)
           /\ HasTask(s, t) => Head(s) = t \/ HasTask(Tail(s), t)
<1>1. Tail(s) \in Seq(Task) /\ Head(s) \in Task
  OBVIOUS
<1>2. ASSUME HasTask(Tail(s), t) PROVE HasTask(s, t)
  <2>1. PICK i \in DOMAIN Tail(s) : Tail(s)[i] = t
    BY <1>2 DEF HasTask
  <2>2. i + 1 \in DOMAIN s /\ s[i + 1] = t
    BY <2>1
  <2> QED BY <2>2 DEF HasTask
<1>3. ASSUME HasTask(s, t), Head(s) # t PROVE HasTask(Tail(s), t)
  <2>1. PICK i \in DOMAIN s : s[i] = t
    BY <1>3 DEF HasTask
  <2>2. i # 1
    BY <2>1, <1>3
  <2>3. i - 1 \in DOMAIN Tail(s) /\ Tail(s)[i - 1] = t
    BY <2>1, <2>2
  <2> QED BY <2>3 DEF HasTask
<1> QED BY <1>1, <1>2, <1>3

(* A queue with one task, or with none.                                    *)
LEMMA OneTask ==
    ASSUME NEW a \in Task, NEW t
    PROVE  /\ <<a>> \in Seq(Task) /\ <<>> \in Seq(Task)
           /\ HasTask(<<a>>, t) <=> a = t
           /\ ~HasTask(<<>>, t)
<1>1. <<a>> \in Seq(Task) /\ <<>> \in Seq(Task)
  OBVIOUS
<1>2. HasTask(<<a>>, t) <=> a = t
  <2>1. DOMAIN <<a>> = {1} /\ <<a>>[1] = a
    OBVIOUS
  <2> QED BY <2>1 DEF HasTask
<1>3. ~HasTask(<<>>, t)
  BY DEF HasTask
<1> QED BY <1>1, <1>2, <1>3
-----------------------------------------------------------------------------
(* Type correctness.                                                       *)
LEMMA TypeInit == Init => TypeOK
<1>1. <<>> \in Seq(Task)
  OBVIOUS
<1> SUFFICES ASSUME Init PROVE TypeOK
  OBVIOUS
<1>2. /\ tasks \in [Channels -> Seq(Task)]
      /\ st \in [Channels -> Status] /\ loop \in [Channels -> LoopPC]
      /\ fut \in [Channels -> {"none", "pending", "ok", "fail"}]
  BY <1>1 DEF Init, NoFutures, Status, LoopPC, LostPC
<1>3. /\ reconnectTimes \in Int /\ reconnectTimes <= RETRIES /\ scheduled \in Nat
      /\ left \in [Channels -> Int] /\ \A c \in Channels : left[c] <= RETRIES
  BY RetriesAssumption DEF Init
<1> QED BY <1>2, <1>3 DEF Init, TypeOK, MainPC

LEMMA CloseTyped ==
    ASSUME TypeOK, NEW c \in Channels, CloseChannel(c)
    PROVE  /\ st' \in [Channels -> Status]
           /\ fut' \in [Channels -> {"none", "pending", "ok", "fail"}]
           /\ tasks' \in [Channels -> Seq(Task)]
           /\ closing' \subseteq Channels /\ lostListeners' \subseteq Channels
           /\ closeListeners' \subseteq Channels /\ opListeners' \subseteq Channels
<1> DEFINE op == IF st[c] = "connecting" /\ c \in opListeners
                   THEN <<"opFail">> ELSE <<>>
           lo == IF c \in lostListeners THEN <<"lost">> ELSE <<>>
           cl == IF c \in closeListeners THEN <<"onClose">> ELSE <<>>
<1>1. op \in Seq(Task) /\ lo \in Seq(Task) /\ cl \in Seq(Task)
  BY OneTask DEF Task
<1>2. tasks[c] \in Seq(Task)
  BY DEF TypeOK
<1>3. tasks[c] \o op \o lo \o cl \in Seq(Task)
  BY <1>1, <1>2
<1>4. tasks' = [tasks EXCEPT ![c] = tasks[c] \o op \o lo \o cl]
  BY DEF CloseChannel
<1> HIDE DEF op, lo, cl
<1>5. tasks' \in [Channels -> Seq(Task)]
  BY <1>3, <1>4 DEF TypeOK
<1> QED BY <1>5 DEF CloseChannel, TypeOK, Status

LEMMA TaskDoneTyped ==
    ASSUME TypeOK, NEW c \in Channels, NEW t, TaskIs(c, t), TaskDone(c)
    PROVE  tasks' \in [Channels -> Seq(Task)]
<1>1. tasks[c] \in Seq(Task) /\ tasks[c] # <<>>
  BY DEF TypeOK, TaskIs
<1>2. Tail(tasks[c]) \in Seq(Task)
  BY <1>1
<1> QED BY <1>2 DEF TaskDone, TypeOK

LEMMA TypeStep == TypeOK /\ [Next]_vars => TypeOK'
<1> SUFFICES ASSUME TypeOK, [Next]_vars PROVE TypeOK'
  OBVIOUS
<1> USE RetriesAssumption, ChannelsAssumption DEF vars, chanVars, rmVars
<1>1. CASE HarborConnect
  BY <1>1 DEF HarborConnect, TypeOK, MainPC
<1>2. CASE HarborDisconnect
  BY <1>2 DEF HarborDisconnect, TypeOK, MainPC
<1>3. CASE RunScheduled
  BY <1>3 DEF RunScheduled, TypeOK, MainPC
<1>4. CASE OnReceive
  <2>1. CASE firstTime
    BY <1>4, <2>1 DEF OnReceive, TypeOK, MainPC
  <2>2. CASE ~firstTime
    BY <1>4, <2>2 DEF OnReceive, TypeOK, MainPC
  <2> QED BY <2>1, <2>2
<1>5. CASE ConnectCheck
  <2>1. CASE channelIsOpen
    BY <1>5, <2>1 DEF ConnectCheck, TypeOK, MainPC
  <2>2. CASE ~channelIsOpen
    BY <1>5, <2>2 DEF ConnectCheck, NoFutures, TypeOK, MainPC, Status
  <2> QED BY <2>1, <2>2
<1>6. CASE EnableReconnection
  <2>1. channel \in Channels
    BY <1>6 DEF EnableReconnection, TypeOK
  <2>2. Append(tasks[channel], "lost") \in Seq(Task)
    BY <2>1 DEF TypeOK, Task
  <2>3. tasks' \in [Channels -> Seq(Task)] /\ lostListeners' \subseteq Channels
    BY <1>6, <2>1, <2>2 DEF EnableReconnection, TypeOK
  <2> QED BY <1>6, <2>1, <2>3 DEF EnableReconnection, TypeOK, MainPC
<1>7. CASE RegisterReceiver
  BY <1>7 DEF RegisterReceiver, TypeOK, MainPC
<1>8. CASE AddListeners
  <2> DEFINE op == CASE fut[channel] = "ok"   -> <<"opOk">>
                     [] fut[channel] = "fail" -> <<"opFail">>
                     [] OTHER                 -> <<>>
             cl == IF IsOpen(channel) THEN <<>> ELSE <<"onClose">>
  <2>1. channel \in Channels
    BY <1>8 DEF AddListeners, TypeOK
  <2>2. op \in Seq(Task) /\ cl \in Seq(Task)
    BY OneTask DEF Task
  <2>3. tasks[channel] \o op \o cl \in Seq(Task)
    BY <2>1, <2>2 DEF TypeOK
  <2>4. tasks' = [tasks EXCEPT ![channel] = tasks[channel] \o op \o cl]
    BY <1>8 DEF AddListeners
  <2>5. opListeners' \subseteq Channels /\ closeListeners' \subseteq Channels
    BY <1>8, <2>1 DEF AddListeners, TypeOK
  <2> HIDE DEF op, cl
  <2>6. tasks' \in [Channels -> Seq(Task)]
    BY <2>3, <2>4 DEF TypeOK
  <2> QED BY <1>8, <2>5, <2>6 DEF AddListeners, TypeOK, MainPC
<1>9. CASE RemoveListener
  BY <1>9 DEF RemoveListener, TypeOK, MainPC
<1>10. CASE UnregisterReceiver
  BY <1>10 DEF UnregisterReceiver, TypeOK, MainPC
<1>11. CASE RequestClose
  BY <1>11 DEF RequestClose, TypeOK, MainPC, channelIsOpen
<1>13. ASSUME NEW c \in Channels, RemoteClose(c) PROVE TypeOK'
  BY <1>13, CloseTyped DEF RemoteClose, TypeOK, LoopPC, LostPC
<1>14. ASSUME NEW c \in Channels, DoClose(c) PROVE TypeOK'
  BY <1>14, CloseTyped DEF DoClose, TypeOK, LoopPC, LostPC
<1>15. ASSUME NEW c \in Channels, CloseOnFailure(c) PROVE TypeOK'
  BY <1>15, CloseTyped DEF CloseOnFailure, TypeOK, LoopPC, LostPC
<1>16. ASSUME NEW c \in Channels, OpFailed(c) PROVE TypeOK'
  <2>1. tasks[c] \in Seq(Task) /\ tasks[c] # <<>>
    BY <1>16 DEF OpFailed, TaskIs, TypeOK
  <2>2. CASE IsOpen(c)
    <3> DEFINE lo == IF c \in lostListeners THEN <<"lost">> ELSE <<>>
               cl == IF c \in closeListeners THEN <<"onClose">> ELSE <<>>
    <3>1. lo \in Seq(Task) /\ cl \in Seq(Task)
      BY OneTask DEF Task
    <3>2. Tail(tasks[c]) \o lo \o cl \in Seq(Task)
      BY <2>1, <3>1
    <3>3. tasks' = [tasks EXCEPT ![c] = Tail(tasks[c]) \o lo \o cl]
      BY <1>16, <2>2 DEF OpFailed
    <3> HIDE DEF lo, cl
    <3>4. tasks' \in [Channels -> Seq(Task)]
      BY <3>2, <3>3 DEF TypeOK
    <3> QED BY <1>16, <2>2, <3>4 DEF OpFailed, TypeOK, Status
  <2>3. CASE ~IsOpen(c)
    <3>1. tasks' \in [Channels -> Seq(Task)]
      BY <1>16, <2>3, TaskDoneTyped DEF OpFailed
    <3> QED BY <1>16, <2>3, <3>1 DEF OpFailed, TypeOK
  <2> QED BY <2>2, <2>3
<1>17. ASSUME NEW c \in Channels, OpSucceeded(c) PROVE TypeOK'
  <2>1. tasks' \in [Channels -> Seq(Task)]
    BY <1>17, TaskDoneTyped DEF OpSucceeded
  <2>2. reconnectTimes' \in Int /\ reconnectTimes' <= RETRIES
    BY <1>17 DEF OpSucceeded
  <2>3. loop' \in [Channels -> LoopPC]
    BY <1>17 DEF OpSucceeded, TypeOK, LoopPC, LostPC
  <2> QED BY <1>17, <2>1, <2>2, <2>3 DEF OpSucceeded, TypeOK
<1>18. ASSUME NEW c \in Channels, Established(c) PROVE TypeOK'
  BY <1>18, CloseTyped DEF Established, TypeOK, LoopPC, LostPC
<1>19. ASSUME NEW c \in Channels, NEW b \in BOOLEAN, ConnectionLost(c, b)
      PROVE  TypeOK'
  <2>1. tasks' \in [Channels -> Seq(Task)]
    BY <1>19, TaskDoneTyped DEF ConnectionLost
  <2>2. isRegistered' \in BOOLEAN
    BY <1>19 DEF ConnectionLost
  <2> QED BY <1>19, <2>1, <2>2 DEF ConnectionLost, TypeOK, LoopPC, LostPC
<1>20. ASSUME NEW c \in Channels, ScheduleReconnection(c) PROVE TypeOK'
  <2>1. CASE CheckTimes(c) \/ Lengthen(c) \/ Recheck(c)
    BY <2>1 DEF CheckTimes, Lengthen, Recheck, TypeOK, LoopPC, LostPC
  <2>2. CASE ReadTimes(c)
    BY <2>2 DEF ReadTimes, TypeOK, LoopPC, LostPC
  <2>3. CASE WriteTimes(c)
    BY <2>3, OvershootAssumption DEF WriteTimes, TypeOK, LoopPC, LostPC
  <2>4. CASE CleanScheduled(c)
    BY <2>4 DEF CleanScheduled, TypeOK, LoopPC, LostPC
  <2>5. CASE PostDelayed(c)
    BY <2>5 DEF PostDelayed, TypeOK, LoopPC, LostPC
  <2> QED BY <1>20, <2>1, <2>2, <2>3, <2>4, <2>5 DEF ScheduleReconnection
<1>21. ASSUME NEW c \in Channels, HandshakeFails(c) PROVE TypeOK'
  BY <1>21 DEF HandshakeFails, TypeOK, Status
<1>23. ASSUME NEW c \in Channels, OnClose(c) PROVE TypeOK'
  <2>1. tasks' \in [Channels -> Seq(Task)]
    BY <1>23, TaskDoneTyped DEF OnClose
  <2> QED BY <1>23, <2>1 DEF OnClose, TypeOK, LoopPC, LostPC
<1>24. ASSUME NEW c \in Channels, NEW b \in BOOLEAN, ConnectDone(c, b)
      PROVE  TypeOK'
  <2>1. /\ st' \in [Channels -> Status]
        /\ fut' \in [Channels -> {"none", "pending", "ok", "fail"}]
    BY <1>24 DEF ConnectDone, TypeOK, Status
  <2>2. Append(tasks[c], IF b THEN "opOk" ELSE "opFail") \in Seq(Task)
    BY DEF TypeOK, Task
  <2>3. tasks' \in [Channels -> Seq(Task)]
    BY <1>24, <2>2 DEF ConnectDone, TypeOK
  <2> QED BY <1>24, <2>1, <2>3 DEF ConnectDone, TypeOK
<1>25. ASSUME NEW c \in Channels, NEW b \in BOOLEAN, OnOpen(c, b)
      PROVE  TypeOK'
  BY <1>25 DEF OnOpen, TypeOK, Status
<1>26. CASE UNCHANGED vars
  BY <1>26 DEF TypeOK
<1>27. ASSUME NEW c \in Channels, NEW b \in BOOLEAN, AuthResponse(c, b)
      PROVE  TypeOK'
  BY <1>27 DEF AuthResponse, TypeOK
<1> QED BY <1>1, <1>2, <1>3, <1>4, <1>5, <1>6, <1>7, <1>8, <1>9, <1>10, <1>11,
       <1>13, <1>14, <1>15, <1>16, <1>17, <1>18, <1>19, <1>20, <1>21,
       <1>23, <1>24, <1>25, <1>26, <1>27 DEF Next, MainStep, LoopStep

(* Every variable keeps its type and a half finished connect() has a       *)
(* channel; the retry counter never exceeds RETRIES, although two loops    *)
(* may undo each other's decrements (that it stays positive is not true).  *)
THEOREM TypeCorrect == Spec => []TypeOK
BY TypeInit, TypeStep, PTL DEF Spec
-----------------------------------------------------------------------------
(* The channel in use.                                                     *)

LEMMA ChannelInit == Init => ChannelInv
BY DEF Init, ChannelInv, IsOpen, channelIsOpen, DisablePC

LEMMA CloseFrame ==
    ASSUME TypeOK, ChannelInv, NEW c \in Channels, IsOpen(c),
           st' = [st EXCEPT ![c] = "closed"], closing' = closing \ {c},
           lostListeners' = lostListeners \ {c},
           closeListeners' = closeListeners \ {c},
           UNCHANGED <<channel, main, asked, isRegistered>>
    PROVE  ChannelInv'
BY DEF ChannelInv, TypeOK, IsOpen, channelIsOpen, DisablePC

LEMMA ChannelStep == TypeOK /\ ChannelInv /\ [Next]_vars => ChannelInv'
<1> SUFFICES ASSUME TypeOK, ChannelInv, [Next]_vars PROVE ChannelInv'
  OBVIOUS
<1> USE ChannelsAssumption DEF vars, chanVars, rmVars, IsOpen, channelIsOpen, DisablePC
<1>1. CASE HarborConnect
  BY <1>1 DEF HarborConnect, ChannelInv, TypeOK
<1>2. CASE HarborDisconnect
  BY <1>2 DEF HarborDisconnect, ChannelInv, TypeOK
<1>3. CASE RunScheduled
  BY <1>3 DEF RunScheduled, ChannelInv, TypeOK
<1>4. CASE OnReceive
  BY <1>4 DEF OnReceive, ChannelInv, TypeOK
<1>5. CASE ConnectCheck
  BY <1>5 DEF ConnectCheck, ChannelInv, TypeOK
<1>6. CASE EnableReconnection
  BY <1>6 DEF EnableReconnection, ChannelInv, TypeOK
<1>7. CASE RegisterReceiver
  BY <1>7 DEF RegisterReceiver, ChannelInv, TypeOK
<1>8. CASE AddListeners
  BY <1>8 DEF AddListeners, ChannelInv, TypeOK
<1>9. CASE RemoveListener
  BY <1>9 DEF RemoveListener, ChannelInv, TypeOK
<1>10. CASE UnregisterReceiver
  BY <1>10 DEF UnregisterReceiver, ChannelInv, TypeOK
<1>11. CASE RequestClose
  BY <1>11 DEF RequestClose, ChannelInv, TypeOK
<1>13. ASSUME NEW c \in Channels, RemoteClose(c) PROVE ChannelInv'
  BY <1>13, CloseFrame DEF RemoteClose, CloseChannel
<1>14. ASSUME NEW c \in Channels, DoClose(c) PROVE ChannelInv'
  BY <1>14, CloseFrame DEF DoClose, CloseChannel
<1>15. ASSUME NEW c \in Channels, CloseOnFailure(c) PROVE ChannelInv'
  BY <1>15, CloseFrame DEF CloseOnFailure, CloseChannel
<1>16. ASSUME NEW c \in Channels, OpFailed(c) PROVE ChannelInv'
  <2>1. CASE IsOpen(c)
    BY <1>16, <2>1, CloseFrame DEF OpFailed
  <2>2. CASE ~IsOpen(c)
    BY <1>16, <2>2 DEF OpFailed, ChannelInv
  <2> QED BY <2>1, <2>2
<1>17. ASSUME NEW c \in Channels, OpSucceeded(c) PROVE ChannelInv'
  BY <1>17 DEF OpSucceeded, ChannelInv
<1>18. ASSUME NEW c \in Channels, Established(c) PROVE ChannelInv'
  BY <1>18 DEF Established, ChannelInv
<1>19. ASSUME NEW c \in Channels, NEW b \in BOOLEAN, ConnectionLost(c, b)
      PROVE  ChannelInv'
  BY <1>19 DEF ConnectionLost, ChannelInv
<1>20. ASSUME NEW c \in Channels, ScheduleReconnection(c) PROVE ChannelInv'
  BY <1>20 DEF ScheduleReconnection, CheckTimes, ReadTimes, WriteTimes, Lengthen,
     Recheck, CleanScheduled, PostDelayed, ChannelInv
<1>21. ASSUME NEW c \in Channels, HandshakeFails(c) PROVE ChannelInv'
  BY <1>21 DEF HandshakeFails, ChannelInv, TypeOK
<1>23. ASSUME NEW c \in Channels, OnClose(c) PROVE ChannelInv'
  BY <1>23 DEF OnClose, ChannelInv
<1>24. ASSUME NEW c \in Channels, NEW b \in BOOLEAN, ConnectDone(c, b)
      PROVE  ChannelInv'
  BY <1>24 DEF ConnectDone, ChannelInv, TypeOK
<1>25. ASSUME NEW c \in Channels, NEW b \in BOOLEAN, OnOpen(c, b)
      PROVE  ChannelInv'
  BY <1>25 DEF OnOpen, ChannelInv, TypeOK
<1>26. CASE UNCHANGED vars
  BY <1>26 DEF ChannelInv
<1>27. ASSUME NEW c \in Channels, NEW b \in BOOLEAN, AuthResponse(c, b)
      PROVE  ChannelInv'
  BY <1>27 DEF AuthResponse, ChannelInv
<1> QED BY <1>1, <1>2, <1>3, <1>4, <1>5, <1>6, <1>7, <1>8, <1>9, <1>10, <1>11,
       <1>13, <1>14, <1>15, <1>16, <1>17, <1>18, <1>19, <1>20, <1>21,
       <1>23, <1>24, <1>25, <1>26, <1>27
       DEF Next, MainStep, LoopStep

(* However connect() is reached and however late the listeners of dead     *)
(* channels run, there is at most one open channel.                        *)
THEOREM OneConnection == Spec => []SingleConnection
<1>1. ChannelInv => SingleConnection
  BY DEF ChannelInv, SingleConnection
<1> QED BY <1>1, TypeInit, TypeStep, ChannelInit, ChannelStep, PTL DEF Spec
-----------------------------------------------------------------------------
(* The reconnection chain.                                                 *)

(* What is queued when a channel closes: a listener of the close future    *)
(* becomes a call, and no queued call is dropped.                          *)
LEMMA CloseTasks ==
    ASSUME TypeOK, NEW c \in Channels, CloseChannel(c)
    PROVE  /\ \A d \in Channels : \A t :
                 HasTask(tasks[d], t) => HasTask(tasks'[d], t)
           /\ c \in lostListeners => HasTask(tasks'[c], "lost")
           /\ c \in closeListeners => HasTask(tasks'[c], "onClose")
           /\ \A d \in Channels : HasTask(tasks'[d], "lost") =>
                 HasTask(tasks[d], "lost") \/ c \in lostListeners
<1> DEFINE op == IF st[c] = "connecting" /\ c \in opListeners
                   THEN <<"opFail">> ELSE <<>>
           lo == IF c \in lostListeners THEN <<"lost">> ELSE <<>>
           cl == IF c \in closeListeners THEN <<"onClose">> ELSE <<>>
<1>1. op \in Seq(Task) /\ lo \in Seq(Task) /\ cl \in Seq(Task)
  BY OneTask DEF Task
<1>2. tasks[c] \in Seq(Task)
  BY DEF TypeOK
<1>3. tasks' = [tasks EXCEPT ![c] = tasks[c] \o op \o lo \o cl]
  BY DEF CloseChannel
<1>4. /\ c \in lostListeners => HasTask(lo, "lost")
      /\ c \in closeListeners => HasTask(cl, "onClose")
      /\ HasTask(lo, "lost") => c \in lostListeners
      /\ ~HasTask(op, "lost") /\ ~HasTask(cl, "lost")
  BY OneTask DEF Task
<1> HIDE DEF op, lo, cl
<1>5. tasks[c] \o op \in Seq(Task) /\ tasks[c] \o op \o lo \in Seq(Task)
  BY <1>1, <1>2
<1>6. ASSUME NEW t
      PROVE  HasTask(tasks[c] \o op \o lo \o cl, t) <=>
                \/ HasTask(tasks[c], t) \/ HasTask(op, t)
                \/ HasTask(lo, t) \/ HasTask(cl, t)
  <2>1. HasTask(tasks[c] \o op, t) <=> HasTask(tasks[c], t) \/ HasTask(op, t)
    BY <1>1, <1>2, ConcatTask
  <2>2. HasTask(tasks[c] \o op \o lo, t) <=>
           HasTask(tasks[c] \o op, t) \/ HasTask(lo, t)
    BY <1>1, <1>5, ConcatTask
  <2>3. HasTask(tasks[c] \o op \o lo \o cl, t) <=>
           HasTask(tasks[c] \o op \o lo, t) \/ HasTask(cl, t)
    BY <1>1, <1>5, ConcatTask
  <2> QED BY <2>1, <2>2, <2>3
<1>7. ASSUME NEW d \in Channels
      PROVE  tasks'[d] = IF d = c THEN tasks[c] \o op \o lo \o cl ELSE tasks[d]
  BY <1>3 DEF TypeOK
<1> QED BY <1>4, <1>6, <1>7

(* A listener call that ends takes only itself off the queue.              *)
LEMMA DoneTasks ==
    ASSUME TypeOK, NEW c \in Channels, NEW t, TaskIs(c, t), TaskDone(c)
    PROVE  \A d \in Channels : \A u :
              /\ HasTask(tasks'[d], u) => HasTask(tasks[d], u)
              /\ HasTask(tasks[d], u) /\ u # t => HasTask(tasks'[d], u)
              /\ HasTask(tasks[d], u) /\ d # c => HasTask(tasks'[d], u)
<1>1. tasks[c] \in Seq(Task) /\ tasks[c] # <<>> /\ Head(tasks[c]) = t
  BY DEF TypeOK, TaskIs
<1>2. ASSUME NEW d \in Channels
      PROVE  tasks'[d] = IF d = c THEN Tail(tasks[c]) ELSE tasks[d]
  BY DEF TaskDone, TypeOK
<1> QED BY <1>1, <1>2, TailTask

(* The close of OpFailed: the same, less the call itself.                  *)
LEMMA FailTasks ==
    ASSUME TypeOK, NEW c \in Channels, OpFailed(c), IsOpen(c)
    PROVE  /\ \A d \in Channels : \A t :
                 HasTask(tasks[d], t) /\ t # "opFail" => HasTask(tasks'[d], t)
           /\ c \in lostListeners => HasTask(tasks'[c], "lost")
           /\ c \in closeListeners => HasTask(tasks'[c], "onClose")
           /\ \A d \in Channels : HasTask(tasks'[d], "lost") =>
                 HasTask(tasks[d], "lost") \/ c \in lostListeners
<1> DEFINE lo == IF c \in lostListeners THEN <<"lost">> ELSE <<>>
           cl == IF c \in closeListeners THEN <<"onClose">> ELSE <<>>
<1>1. lo \in Seq(Task) /\ cl \in Seq(Task)
  BY OneTask DEF Task
<1>2. tasks[c] \in Seq(Task) /\ tasks[c] # <<>> /\ Head(tasks[c]) = "opFail"
  BY DEF TypeOK, OpFailed, TaskIs
<1>3. tasks' = [tasks EXCEPT ![c] = Tail(tasks[c]) \o lo \o cl]
  BY DEF OpFailed
<1>4. /\ c \in lostListeners => HasTask(lo, "lost")
      /\ c \in closeListeners => HasTask(cl, "onClose")
      /\ HasTask(lo, "lost") => c \in lostListeners
      /\ ~HasTask(cl, "lost")
  BY OneTask DEF Task
<1> HIDE DEF lo, cl
<1>5. Tail(tasks[c]) \in Seq(Task) /\ Tail(tasks[c]) \o lo \in Seq(Task)
  BY <1>1, <1>2
<1>6. ASSUME NEW t
      PROVE  HasTask(Tail(tasks[c]) \o lo \o cl, t) <=>
                HasTask(Tail(tasks[c]), t) \/ HasTask(lo, t) \/ HasTask(cl, t)
  <2>1. HasTask(Tail(tasks[c]) \o lo, t) <=>
           HasTask(Tail(tasks[c]), t) \/ HasTask(lo, t)
    BY <1>1, <1>5, ConcatTask
  <2>2. HasTask(Tail(tasks[c]) \o lo \o cl, t) <=>
           HasTask(Tail(tasks[c]) \o lo, t) \/ HasTask(cl, t)
    BY <1>1, <1>5, ConcatTask
  <2> QED BY <2>1, <2>2
<1>7. ASSUME NEW d \in Channels
      PROVE  tasks'[d] = IF d = c THEN Tail(tasks[c]) \o lo \o cl ELSE tasks[d]
  BY <1>3 DEF TypeOK
<1> QED BY <1>2, <1>4, <1>6, <1>7, TailTask
(* The other actions that queue calls drop none.                           *)
LEMMA AppendTask ==
    ASSUME NEW s \in Seq(Task), NEW a \in Task, NEW t
    PROVE  HasTask(Append(s, a), t) <=> HasTask(s, t) \/ a = t
<1>1. Append(s, a) = s \o <<a>> /\ <<a>> \in Seq(Task)
  OBVIOUS
<1>2. HasTask(s \o <<a>>, t) <=> HasTask(s, t) \/ HasTask(<<a>>, t)
  BY <1>1, ConcatTask
<1>3. HasTask(<<a>>, t) <=> a = t
  BY OneTask
<1> QED BY <1>1, <1>2, <1>3

LEMMA EnableTasks ==
    ASSUME TypeOK, EnableReconnection
    PROVE  /\ \A d \in Channels : \A t :
                 HasTask(tasks[d], t) => HasTask(tasks'[d], t)
           /\ ~IsOpen(channel) => HasTask(tasks'[channel], "lost")
<1>1. channel \in Channels
  BY DEF EnableReconnection, TypeOK
<1>2. tasks[channel] \in Seq(Task) /\ "lost" \in Task
  BY <1>1 DEF TypeOK, Task
<1>3. CASE IsOpen(channel)
  BY <1>3 DEF EnableReconnection
<1>4. CASE ~IsOpen(channel)
  <2>1. ASSUME NEW d \in Channels
        PROVE  tasks'[d] = IF d = channel THEN Append(tasks[channel], "lost")
                                          ELSE tasks[d]
    BY <1>1, <1>4 DEF EnableReconnection, TypeOK
  <2> QED BY <1>1, <1>2, <2>1, AppendTask
<1> QED BY <1>3, <1>4

LEMMA AddTasks ==
    ASSUME TypeOK, AddListeners
    PROVE  /\ \A d \in Channels : \A t :
                 HasTask(tasks[d], t) => HasTask(tasks'[d], t)
           /\ \A d \in Channels : HasTask(tasks'[d], "lost")
                                     => HasTask(tasks[d], "lost")
           /\ ~IsOpen(channel) => HasTask(tasks'[channel], "onClose")
<1> DEFINE op == CASE fut[channel] = "ok"   -> <<"opOk">>
                   [] fut[channel] = "fail" -> <<"opFail">>
                   [] OTHER                 -> <<>>
           cl == IF IsOpen(channel) THEN <<>> ELSE <<"onClose">>
<1>1. channel \in Channels
  BY DEF AddListeners, TypeOK
<1>2. op \in {<<"opOk">>, <<"opFail">>, <<>>}
  OBVIOUS
<1>3. cl \in Seq(Task) /\ (~IsOpen(channel) => HasTask(cl, "onClose"))
                       /\ ~HasTask(cl, "lost")
  BY OneTask DEF Task
<1>4. tasks' = [tasks EXCEPT ![channel] = tasks[channel] \o op \o cl]
  BY DEF AddListeners
<1> HIDE DEF op, cl
<1>5. op \in Seq(Task) /\ ~HasTask(op, "lost")
  BY <1>2, OneTask DEF Task
<1>6. tasks[channel] \in Seq(Task) /\ tasks[channel] \o op \in Seq(Task)
  BY <1>1, <1>5 DEF TypeOK
<1>7. ASSUME NEW t
      PROVE  HasTask(tasks[channel] \o op \o cl, t) <=>
                HasTask(tasks[channel], t) \/ HasTask(op, t) \/ HasTask(cl, t)
  <2>1. HasTask(tasks[channel] \o op, t) <=>
           HasTask(tasks[channel], t) \/ HasTask(op, t)
    BY <1>5, <1>6, ConcatTask
  <2>2. HasTask(tasks[channel] \o op \o cl, t) <=>
           HasTask(tasks[channel] \o op, t) \/ HasTask(cl, t)
    BY <1>3, <1>6, ConcatTask
  <2> QED BY <2>1, <2>2
<1>8. ASSUME NEW d \in Channels
      PROVE  tasks'[d] = IF d = channel THEN tasks[channel] \o op \o cl
                                        ELSE tasks[d]
  BY <1>1, <1>4 DEF TypeOK
<1> QED BY <1>1, <1>3, <1>5, <1>7, <1>8

LEMMA ConnectTasks ==
    ASSUME TypeOK, NEW c \in Channels, NEW b \in BOOLEAN, ConnectDone(c, b)
    PROVE  /\ \A d \in Channels : \A t :
                 HasTask(tasks[d], t) => HasTask(tasks'[d], t)
           /\ \A d \in Channels : HasTask(tasks'[d], "lost")
                                     => HasTask(tasks[d], "lost")
<1> DEFINE a == IF b THEN "opOk" ELSE "opFail"
<1>1. tasks[c] \in Seq(Task) /\ a \in Task /\ a # "lost"
  BY DEF TypeOK, Task
<1>2. CASE c \notin opListeners
  BY <1>2 DEF ConnectDone
<1>3. CASE c \in opListeners
  <2>1. ASSUME NEW d \in Channels
        PROVE  tasks'[d] = IF d = c THEN Append(tasks[c], a) ELSE tasks[d]
    BY <1>3 DEF ConnectDone, TypeOK
  <2> HIDE DEF a
  <2> QED BY <1>1, <2>1, AppendTask
<1> QED BY <1>2, <1>3

(* Closing a channel hands its lost-listener over to the event loop.       *)
LEMMA CloseChain ==
    ASSUME TypeOK, NeverStranded, ReceiverArmed, NEW c \in Channels,
           \A d \in Channels : HasTask(tasks[d], "lost")
                                => HasTask(tasks'[d], "lost"),
           c \in lostListeners => HasTask(tasks'[c], "lost"),
           st' = [st EXCEPT ![c] = "closed"],
           lostListeners' = lostListeners \ {c},
           UNCHANGED <<loop, channel, main, scheduled, isRegistered, asked>>
    PROVE  NeverStranded' /\ ReceiverArmed'
<1>1. ReceiverArmed'
  BY DEF ReceiverArmed
<1>2. CASE channelIsOpen /\ channel \in lostListeners /\ channel # c
  BY <1>1, <1>2 DEF NeverStranded, LostPC, LostPending, channelIsOpen, IsOpen,
     TypeOK
<1>3. CASE channel \in lostListeners /\ channel = c
  BY <1>1, <1>3 DEF NeverStranded, LostPC, LostPending, channelIsOpen
<1>4. CASE ~(channelIsOpen /\ channel \in lostListeners)
  BY <1>1, <1>4 DEF NeverStranded, LostPC, LostPending, channelIsOpen, IsOpen
<1> QED BY <1>1, <1>2, <1>3, <1>4

LEMMA ChainInit == Init => NeverStranded /\ ReceiverArmed
BY DEF Init, NeverStranded, ReceiverArmed

(* A wanted link always has something that will bring it back.             *)
LEMMA ChainStep ==
    ASSUME TypeOK, TypeOK', ChannelInv, ChannelInv', NeverStranded, ReceiverArmed,
           [Next]_vars
    PROVE  NeverStranded' /\ ReceiverArmed'
<1> USE ChannelsAssumption DEF vars, chanVars, rmVars, NeverStranded,
        ReceiverArmed, LostPending
<1>1. CASE HarborConnect
  BY <1>1 DEF HarborConnect, channelIsOpen, IsOpen
<1>2. CASE HarborDisconnect
  BY <1>2 DEF HarborDisconnect, channelIsOpen, IsOpen
<1>3. CASE RunScheduled
  BY <1>3 DEF RunScheduled, channelIsOpen, IsOpen
<1>4. CASE OnReceive
  BY <1>4 DEF OnReceive, channelIsOpen, IsOpen
<1>5. CASE ConnectCheck
  BY <1>5 DEF ConnectCheck, channelIsOpen, IsOpen, ChannelInv, DisablePC, TypeOK
<1>6. CASE EnableReconnection
  BY <1>6, EnableTasks DEF EnableReconnection, channelIsOpen, IsOpen, TypeOK
<1>7. CASE RegisterReceiver
  BY <1>7 DEF RegisterReceiver, channelIsOpen, IsOpen
<1>8. CASE AddListeners
  BY <1>8, AddTasks DEF AddListeners, channelIsOpen, IsOpen
<1>9. CASE RemoveListener
  BY <1>9 DEF RemoveListener, ChannelInv, DisablePC
<1>10. CASE UnregisterReceiver
  BY <1>10 DEF UnregisterReceiver, ChannelInv, DisablePC
<1>11. CASE RequestClose
  BY <1>11 DEF RequestClose, ChannelInv, DisablePC
<1>13. ASSUME NEW c \in Channels, RemoteClose(c)
      PROVE  NeverStranded' /\ ReceiverArmed'
  <2>1. CloseChannel(c)
    BY <1>13 DEF RemoteClose
  <2> QED BY <1>13, <2>1, CloseTasks, CloseChain DEF RemoteClose, CloseChannel
<1>14. ASSUME NEW c \in Channels, DoClose(c)
      PROVE  NeverStranded' /\ ReceiverArmed'
  <2>1. CloseChannel(c)
    BY <1>14 DEF DoClose
  <2> QED BY <1>14, <2>1, CloseTasks, CloseChain DEF DoClose, CloseChannel
<1>15. ASSUME NEW c \in Channels, CloseOnFailure(c)
      PROVE  NeverStranded' /\ ReceiverArmed'
  <2>1. CloseChannel(c)
    BY <1>15 DEF CloseOnFailure
  <2> QED BY <1>15, <2>1, CloseTasks, CloseChain DEF CloseOnFailure, CloseChannel
<1>16. ASSUME NEW c \in Channels, OpFailed(c)
      PROVE  NeverStranded' /\ ReceiverArmed'
  <2>1. CASE IsOpen(c)
    BY <1>16, <2>1, FailTasks, CloseChain DEF OpFailed
  <2>2. CASE ~IsOpen(c)
    BY <1>16, <2>2, DoneTasks DEF OpFailed, channelIsOpen, IsOpen
  <2> QED BY <2>1, <2>2
<1>17. ASSUME NEW c \in Channels, OpSucceeded(c)
      PROVE  NeverStranded' /\ ReceiverArmed'
  <2>1. \A d \in Channels : HasTask(tasks[d], "lost") => HasTask(tasks'[d], "lost")
    BY <1>17, DoneTasks DEF OpSucceeded
  <2>2. \A d \in Channels : loop[d] \in LostPC => loop'[d] \in LostPC
    BY <1>17 DEF OpSucceeded, TaskIs, LostPC, TypeOK
  <2> QED BY <1>17, <2>1, <2>2 DEF OpSucceeded, channelIsOpen, IsOpen
<1>18. ASSUME NEW c \in Channels, NEW b \in BOOLEAN, ConnectionLost(c, b)
      PROVE  NeverStranded' /\ ReceiverArmed'
  BY <1>18, DoneTasks DEF ConnectionLost, channelIsOpen, IsOpen, LostPC, TypeOK
<1>19. ASSUME NEW c \in Channels, OnClose(c)
      PROVE  NeverStranded' /\ ReceiverArmed'
  BY <1>19, DoneTasks DEF OnClose, channelIsOpen, IsOpen, LostPC, TypeOK
<1>20. ASSUME NEW c \in Channels, Established(c)
      PROVE  NeverStranded' /\ ReceiverArmed'
  BY <1>20 DEF Established, channelIsOpen, IsOpen, LostPC, TypeOK
<1>21. ASSUME NEW c \in Channels, ScheduleReconnection(c)
      PROVE  NeverStranded' /\ ReceiverArmed'
  <2>1. CASE PostDelayed(c)
    BY <2>1 DEF PostDelayed, channelIsOpen, IsOpen, LostPC, TypeOK
  <2>2. CASE CheckTimes(c) \/ ReadTimes(c) \/ WriteTimes(c) \/ Lengthen(c)
    BY <2>2 DEF CheckTimes, ReadTimes, WriteTimes, Lengthen, channelIsOpen,
       IsOpen, LostPC, TypeOK
  <2>3. CASE Recheck(c) \/ CleanScheduled(c)
    BY <2>3 DEF Recheck, CleanScheduled, channelIsOpen, IsOpen, LostPC, TypeOK
  <2> QED BY <1>21, <2>1, <2>2, <2>3 DEF ScheduleReconnection
<1>22. ASSUME NEW c \in Channels, HandshakeFails(c)
      PROVE  NeverStranded' /\ ReceiverArmed'
  BY <1>22 DEF HandshakeFails, channelIsOpen, IsOpen, TypeOK
<1>24. ASSUME NEW c \in Channels, NEW b \in BOOLEAN, ConnectDone(c, b)
      PROVE  NeverStranded' /\ ReceiverArmed'
  BY <1>24, ConnectTasks DEF ConnectDone, channelIsOpen, IsOpen, TypeOK
<1>25. ASSUME NEW c \in Channels, NEW b \in BOOLEAN, OnOpen(c, b)
      PROVE  NeverStranded' /\ ReceiverArmed'
  BY <1>25 DEF OnOpen, channelIsOpen, IsOpen, TypeOK
<1>26. CASE UNCHANGED vars
  BY <1>26 DEF channelIsOpen, IsOpen
<1>27. ASSUME NEW c \in Channels, NEW b \in BOOLEAN, AuthResponse(c, b)
      PROVE  NeverStranded' /\ ReceiverArmed'
  BY <1>27 DEF AuthResponse, channelIsOpen, IsOpen
<1> QED BY <1>1, <1>2, <1>3, <1>4, <1>5, <1>6, <1>7, <1>8, <1>9, <1>10, <1>11,
       <1>13, <1>14, <1>15, <1>16, <1>17, <1>18, <1>19, <1>20, <1>21,
       <1>22, <1>24, <1>25, <1>26, <1>27
       DEF Next, MainStep, LoopStep

(* The reconnection chain is never broken.                                 *)
THEOREM ChainUnbroken == Spec => []NeverStranded
BY TypeInit, TypeStep, ChannelInit, ChannelStep, ChainInit, ChainStep, PTL
   DEF Spec

(* A wanted link always listens for changes of the network.                *)
THEOREM StaysArmed == Spec => []ReceiverArmed
BY TypeInit, TypeStep, ChannelInit, ChannelStep, ChainInit, ChainStep, PTL
   DEF Spec
-----------------------------------------------------------------------------
(* The logged-in flag.                                                     *)

LEMMA LoginInit == Init => LoggedInIsLive
BY DEF Init, LoggedInIsLive

(* Closing a channel hands its onClose listener over to the event loop.    *)
LEMMA CloseLogin ==
    ASSUME TypeOK, ChannelInv, LoggedInIsLive, NEW c \in Channels, IsOpen(c),
           \A d \in Channels : HasTask(tasks[d], "onClose")
                                => HasTask(tasks'[d], "onClose"),
           c \in closeListeners => HasTask(tasks'[c], "onClose"),
           st' = [st EXCEPT ![c] = "closed"],
           UNCHANGED <<channel, main, loggedin>>
    PROVE  LoggedInIsLive'
<1>1. c = channel /\ channelIsOpen
  BY ChannelsAssumption DEF ChannelInv, channelIsOpen
<1>2. c \in closeListeners \/ main \in {"enable", "register", "listen"}
  BY <1>1 DEF ChannelInv
<1>3. st'[c] = "closed" /\ \A d \in Channels : d # c => st'[d] = st[d]
  BY DEF TypeOK
<1> QED BY <1>1, <1>2, <1>3 DEF LoggedInIsLive, OnClosePending

LEMMA LoginStep ==
    ASSUME TypeOK, ChannelInv, LoggedInIsLive, [Next]_vars
    PROVE  LoggedInIsLive'
<1> USE ChannelsAssumption DEF vars, chanVars, rmVars, LoggedInIsLive, OnClosePending
<1>1. CASE HarborConnect
  BY <1>1 DEF HarborConnect
<1>2. CASE HarborDisconnect
  BY <1>2 DEF HarborDisconnect
<1>3. CASE RunScheduled
  BY <1>3 DEF RunScheduled
<1>4. CASE OnReceive
  BY <1>4 DEF OnReceive
<1>5. CASE ConnectCheck
  BY <1>5 DEF ConnectCheck, channelIsOpen, IsOpen, Unreferenced, TypeOK
<1>6. CASE EnableReconnection
  BY <1>6, EnableTasks DEF EnableReconnection
<1>7. CASE RegisterReceiver
  BY <1>7 DEF RegisterReceiver
<1>8. CASE AddListeners
  BY <1>8, AddTasks DEF AddListeners, IsOpen
<1>9. CASE RemoveListener
  BY <1>9 DEF RemoveListener
<1>10. CASE UnregisterReceiver
  BY <1>10 DEF UnregisterReceiver
<1>11. CASE RequestClose
  BY <1>11 DEF RequestClose
<1>13. ASSUME NEW c \in Channels, RemoteClose(c) PROVE LoggedInIsLive'
  <2>1. CloseChannel(c) /\ IsOpen(c)
    BY <1>13 DEF RemoteClose, IsOpen
  <2> QED BY <1>13, <2>1, CloseTasks, CloseLogin DEF RemoteClose, CloseChannel
<1>14. ASSUME NEW c \in Channels, DoClose(c) PROVE LoggedInIsLive'
  <2>1. CloseChannel(c) /\ IsOpen(c)
    BY <1>14 DEF DoClose, IsOpen
  <2> QED BY <1>14, <2>1, CloseTasks, CloseLogin DEF DoClose, CloseChannel
<1>15. ASSUME NEW c \in Channels, CloseOnFailure(c) PROVE LoggedInIsLive'
  <2>1. CloseChannel(c) /\ IsOpen(c)
    BY <1>15 DEF CloseOnFailure, IsOpen
  <2> QED BY <1>15, <2>1, CloseTasks, CloseLogin DEF CloseOnFailure, CloseChannel
<1>16. ASSUME NEW c \in Channels, OpFailed(c) PROVE LoggedInIsLive'
  <2>1. CASE IsOpen(c)
    BY <1>16, <2>1, FailTasks, CloseLogin DEF OpFailed
  <2>2. CASE ~IsOpen(c)
    BY <1>16, <2>2, DoneTasks DEF OpFailed
  <2> QED BY <2>1, <2>2
<1>17. ASSUME NEW c \in Channels, OpSucceeded(c) PROVE LoggedInIsLive'
  BY <1>17, DoneTasks DEF OpSucceeded
<1>18. ASSUME NEW c \in Channels, Established(c) PROVE LoggedInIsLive'
  BY <1>18 DEF Established
<1>19. ASSUME NEW c \in Channels, NEW b \in BOOLEAN, ConnectionLost(c, b)
      PROVE  LoggedInIsLive'
  BY <1>19, DoneTasks DEF ConnectionLost
<1>20. ASSUME NEW c \in Channels, ScheduleReconnection(c) PROVE LoggedInIsLive'
  BY <1>20 DEF ScheduleReconnection, CheckTimes, ReadTimes, WriteTimes, Lengthen,
     Recheck, CleanScheduled, PostDelayed
<1>21. ASSUME NEW c \in Channels, HandshakeFails(c) PROVE LoggedInIsLive'
  BY <1>21 DEF HandshakeFails, TypeOK
<1>23. ASSUME NEW c \in Channels, OnClose(c) PROVE LoggedInIsLive'
  BY <1>23 DEF OnClose
<1>24. ASSUME NEW c \in Channels, NEW b \in BOOLEAN, ConnectDone(c, b)
      PROVE  LoggedInIsLive'
  BY <1>24, ConnectTasks DEF ConnectDone, TypeOK
<1>25. ASSUME NEW c \in Channels, NEW b \in BOOLEAN, OnOpen(c, b)
      PROVE  LoggedInIsLive'
  BY <1>25 DEF OnOpen, TypeOK
<1>26. CASE UNCHANGED vars
  BY <1>26
<1>27. ASSUME NEW c \in Channels, NEW b \in BOOLEAN, AuthResponse(c, b)
      PROVE  LoggedInIsLive'
  BY <1>27 DEF AuthResponse
<1> QED BY <1>1, <1>2, <1>3, <1>4, <1>5, <1>6, <1>7, <1>8, <1>9, <1>10, <1>11,
       <1>13, <1>14, <1>15, <1>16, <1>17, <1>18, <1>19, <1>20, <1>21,
       <1>23, <1>24, <1>25, <1>26, <1>27
       DEF Next, MainStep, LoopStep

(* isConnected() is never left on for good.                                *)
THEOREM LoginEnds == Spec => []LoggedInIsLive
BY TypeInit, TypeStep, ChannelInit, ChannelStep, LoginInit, LoginStep, PTL
   DEF Spec
-----------------------------------------------------------------------------
(* A link at rest.                                                         *)

LEMMA CloseRest ==
    ASSUME TypeOK, Dormant, NEW c \in Channels,
           \A d \in Channels : HasTask(tasks'[d], "lost") =>
                 HasTask(tasks[d], "lost") \/ c \in lostListeners,
           st' = [st EXCEPT ![c] = "closed"], closing' = closing \ {c},
           lostListeners' = lostListeners \ {c},
           UNCHANGED <<loop, main, scheduled, isRegistered>>
    PROVE  Dormant'
BY DEF Dormant, LostPending, IsOpen, LostPC, DisablePC, TypeOK

LEMMA RestStep ==
    ASSUME TypeOK, ChannelInv, Dormant, [Next]_vars
    PROVE  Dormant' \/ HarborConnect
<1> USE ChannelsAssumption DEF vars, chanVars, rmVars, Dormant, LostPending,
        IsOpen, LostPC, DisablePC
<1>1. CASE HarborConnect
  BY <1>1 DEF HarborConnect
<1>2. CASE HarborDisconnect
  BY <1>2 DEF HarborDisconnect
<1>3. CASE RunScheduled
  BY <1>3 DEF RunScheduled
<1>4. CASE OnReceive
  BY <1>4 DEF OnReceive
<1>5. CASE ConnectCheck
  BY <1>5 DEF ConnectCheck
<1>6. CASE EnableReconnection
  BY <1>6 DEF EnableReconnection
<1>7. CASE RegisterReceiver
  BY <1>7 DEF RegisterReceiver
<1>8. CASE AddListeners
  BY <1>8 DEF AddListeners
<1>9. CASE RemoveListener
  BY <1>9 DEF RemoveListener
<1>10. CASE UnregisterReceiver
  BY <1>10 DEF UnregisterReceiver
<1>11. CASE RequestClose
  BY <1>11 DEF RequestClose, ChannelInv, channelIsOpen
<1>13. ASSUME NEW c \in Channels, RemoteClose(c) PROVE Dormant'
  <2>1. CloseChannel(c)
    BY <1>13 DEF RemoteClose
  <2> QED BY <1>13, <2>1, CloseTasks, CloseRest DEF RemoteClose, CloseChannel
<1>14. ASSUME NEW c \in Channels, DoClose(c) PROVE Dormant'
  <2>1. CloseChannel(c)
    BY <1>14 DEF DoClose
  <2> QED BY <1>14, <2>1, CloseTasks, CloseRest DEF DoClose, CloseChannel
<1>15. ASSUME NEW c \in Channels, CloseOnFailure(c) PROVE Dormant'
  <2>1. CloseChannel(c)
    BY <1>15 DEF CloseOnFailure
  <2> QED BY <1>15, <2>1, CloseTasks, CloseRest DEF CloseOnFailure, CloseChannel
<1>16. ASSUME NEW c \in Channels, OpFailed(c) PROVE Dormant'
  <2>1. CASE IsOpen(c)
    BY <1>16, <2>1, FailTasks, CloseRest DEF OpFailed
  <2>2. CASE ~IsOpen(c)
    BY <1>16, <2>2, DoneTasks DEF OpFailed
  <2> QED BY <2>1, <2>2
<1>17. ASSUME NEW c \in Channels, OpSucceeded(c) PROVE Dormant'
  BY <1>17, DoneTasks DEF OpSucceeded, TypeOK
<1>18. ASSUME NEW c \in Channels, Established(c) PROVE Dormant'
  BY <1>18 DEF Established, TypeOK
<1>19. ASSUME NEW c \in Channels, NEW b \in BOOLEAN, ConnectionLost(c, b)
      PROVE  Dormant'
  <2>1. tasks[c] \in Seq(Task) /\ tasks[c] # <<>> /\ Head(tasks[c]) = "lost"
    BY <1>19 DEF ConnectionLost, TaskIs, TypeOK
  <2>2. HasTask(tasks[c], "lost")
    BY <2>1 DEF HasTask
  <2> QED BY <2>2
<1>20. ASSUME NEW c \in Channels, ScheduleReconnection(c) PROVE Dormant'
  BY <1>20 DEF ScheduleReconnection, CheckTimes, ReadTimes, WriteTimes, Lengthen,
     Recheck, CleanScheduled, PostDelayed
<1>21. ASSUME NEW c \in Channels, HandshakeFails(c) PROVE Dormant'
  BY <1>21 DEF HandshakeFails, TypeOK
<1>23. ASSUME NEW c \in Channels, OnClose(c) PROVE Dormant'
  BY <1>23, DoneTasks DEF OnClose
<1>24. ASSUME NEW c \in Channels, NEW b \in BOOLEAN, ConnectDone(c, b)
      PROVE  Dormant'
  BY <1>24, ConnectTasks DEF ConnectDone, TypeOK
<1>25. ASSUME NEW c \in Channels, NEW b \in BOOLEAN, OnOpen(c, b)
      PROVE  Dormant'
  BY <1>25 DEF OnOpen, TypeOK
<1>26. CASE UNCHANGED vars
  BY <1>26
<1>27. ASSUME NEW c \in Channels, NEW b \in BOOLEAN, AuthResponse(c, b)
      PROVE  Dormant'
  BY <1>27 DEF AuthResponse
<1> QED BY <1>1, <1>2, <1>3, <1>4, <1>5, <1>6, <1>7, <1>8, <1>9, <1>10, <1>11,
       <1>13, <1>14, <1>15, <1>16, <1>17, <1>18, <1>19, <1>20, <1>21,
       <1>23, <1>24, <1>25, <1>26, <1>27
       DEF Next, MainStep, LoopStep

(* Once disconnect() has brought the link to rest, only the application    *)
(* brings it back.                                                         *)
THEOREM RestKept == Spec => RestIsStable
<1>1. TypeOK /\ ChannelInv /\ [Next]_vars =>
         [Dormant => Dormant' \/ HarborConnect]_vars
  BY RestStep
<1> QED BY <1>1, TypeInit, TypeStep, ChannelInit, ChannelStep, PTL
        DEF Spec, RestIsStable
=============================================================================
