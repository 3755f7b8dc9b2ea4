-------------------------- MODULE MessagePumpProofs --------------------------
(* Proofs about MessagePump for any number of connections, any length of   *)
(* the queue and any number of messages.                                   *)
EXTENDS MessagePump, FiniteSetTheorems, SequenceTheorems, TLAPS

LEMMA PumpTypeInit == Init => TypeOK
BY CapacityAssumption, MaxMessagesAssumption DEF Init, TypeOK, SenderPC

LEMMA FailTyped ==
    ASSUME TypeOK, NEW c \in Channels, TrafficGenerator(c, FALSE)
    PROVE  /\ hand' \in [Channels -> 0..MaxMessages]
           /\ sender' \in [Channels -> SenderPC]
           /\ written' \in Seq(1..MaxMessages)
           /\ lost' \in Nat
BY MaxMessagesAssumption DEF TrafficGenerator, TypeOK, SenderPC

LEMMA SuccessTyped ==
    ASSUME TypeOK, NEW c \in Channels, hand[c] # 0, TrafficGenerator(c, TRUE)
    PROVE  /\ hand' \in [Channels -> 0..MaxMessages]
           /\ sender' \in [Channels -> SenderPC]
           /\ written' \in Seq(1..MaxMessages)
           /\ lost' \in Nat
<1>1. hand[c] \in 1..MaxMessages
  BY MaxMessagesAssumption DEF TypeOK
<1>2. written' = Append(written, hand[c])
  BY DEF TrafficGenerator
<1>3. written' \in Seq(1..MaxMessages)
  BY <1>1, <1>2 DEF TypeOK
<1>4. hand' \in [Channels -> 0..MaxMessages]
  BY MaxMessagesAssumption DEF TrafficGenerator, TypeOK
<1>5. sender' \in [Channels -> SenderPC] /\ lost' \in Nat
  BY DEF TrafficGenerator, TypeOK, SenderPC
<1> QED BY <1>3, <1>4, <1>5

LEMMA PumpTypeStep ==
    ASSUME TypeOK, SenderInv, [Next]_vars
    PROVE  TypeOK'
<1> USE CapacityAssumption, MaxMessagesAssumption
<1>1. CASE AddMessage
  <2>1. CASE Len(msgQueue) < Capacity
    <3>1. sentMsgs + 1 \in 1..MaxMessages
      BY <1>1 DEF AddMessage, TypeOK
    <3>2. msgQueue' = Append(msgQueue, sentMsgs + 1)
      BY <1>1, <2>1 DEF AddMessage
    <3>3. msgQueue' \in Seq(1..MaxMessages) /\ Len(msgQueue') <= Capacity
      BY <2>1, <3>1, <3>2 DEF TypeOK
    <3> QED BY <1>1, <2>1, <3>1, <3>3 DEF AddMessage, TypeOK
  <2>2. CASE ~(Len(msgQueue) < Capacity)
    BY <1>1, <2>2 DEF AddMessage, TypeOK
  <2> QED BY <2>1, <2>2
<1>2. ASSUME NEW c \in Channels, AddChanel(c) PROVE TypeOK'
  BY <1>2 DEF AddChanel, TypeOK, SenderPC
<1>3. ASSUME NEW c \in Channels, Take(c) PROVE TypeOK'
  <2>1. Head(msgQueue) \in 0..MaxMessages
    BY <1>3 DEF Take, TypeOK
  <2>2. Tail(msgQueue) \in Seq(1..MaxMessages) /\ Len(Tail(msgQueue)) <= Capacity
    BY <1>3 DEF Take, TypeOK
  <2> QED BY <1>3, <2>1, <2>2 DEF Take, TypeOK, SenderPC
<1>4. ASSUME NEW c \in Channels, Write(c) PROVE TypeOK'
  <2>1. CASE chan[c] = "live"
    BY <1>4, <2>1 DEF Write, TypeOK, SenderPC
  <2>2. CASE chan[c] # "live"
    BY <1>4, <2>2, FailTyped DEF Write, TypeOK
  <2> QED BY <2>1, <2>2
<1>5. ASSUME NEW c \in Channels, Flush(c) PROVE TypeOK'
  BY <1>5, SuccessTyped DEF Flush, SenderInv, TypeOK
<1>6. ASSUME NEW c \in Channels, Close(c) PROVE TypeOK'
  <2>1. chan' \in [Channels -> {"new", "live", "closed"}]
    BY <1>6 DEF Close, TypeOK
  <2>2. CASE sender[c] = "flush"
    BY <1>6, <2>1, <2>2, FailTyped DEF Close, TypeOK
  <2>3. CASE sender[c] # "flush"
    BY <1>6, <2>1, <2>3 DEF Close, TypeOK
  <2> QED BY <2>2, <2>3
<1>7. CASE UNCHANGED vars
  BY <1>7 DEF vars, TypeOK
<1> QED BY <1>1, <1>2, <1>3, <1>4, <1>5, <1>6, <1>7 DEF Next, SenderStep

-----------------------------------------------------------------------------
(* The senders.                                                            *)
LEMMA SenderInit == Init => SenderInv
BY DEF Init, SenderInv, Live

LEMMA SenderStepInv == TypeOK /\ SenderInv /\ [Next]_vars => SenderInv'
<1> SUFFICES ASSUME TypeOK, SenderInv, [Next]_vars PROVE SenderInv'
  OBVIOUS
<1> USE MaxMessagesAssumption DEF SenderInv, Live
<1>1. CASE AddMessage
  BY <1>1 DEF AddMessage
<1>2. ASSUME NEW c \in Channels, AddChanel(c) PROVE SenderInv'
  BY <1>2 DEF AddChanel, TypeOK
<1>3. ASSUME NEW c \in Channels, Take(c) PROVE SenderInv'
  <2>1. Head(msgQueue) \in 1..MaxMessages
    BY <1>3 DEF Take, TypeOK
  <2>2. Head(msgQueue) # 0
    BY <2>1
  <2> QED BY <1>3, <2>2 DEF Take, TypeOK
<1>4. ASSUME NEW c \in Channels, Write(c) PROVE SenderInv'
  BY <1>4 DEF Write, TrafficGenerator, TypeOK
<1>5. ASSUME NEW c \in Channels, Flush(c) PROVE SenderInv'
  BY <1>5 DEF Flush, TrafficGenerator, TypeOK
<1>6. ASSUME NEW c \in Channels, Close(c) PROVE SenderInv'
  BY <1>6 DEF Close, TrafficGenerator, TypeOK
<1>7. CASE UNCHANGED vars
  BY <1>7 DEF vars
<1> QED BY <1>1, <1>2, <1>3, <1>4, <1>5, <1>6, <1>7 DEF Next, SenderStep

(* Every variable keeps its type; in particular the queue never holds more *)
(* than its capacity.                                                      *)
THEOREM PumpTypeCorrect == Spec => []TypeOK
BY PumpTypeInit, PumpTypeStep, SenderInit, SenderStepInv, PTL DEF Spec
-----------------------------------------------------------------------------
(* The losses.                                                             *)
LEMMA LossInit == Init => LossInv
<1> SUFFICES ASSUME Init PROVE LossInv
  OBVIOUS
<1>1. Stopped = {}
  BY DEF Init, Stopped
<1>2. Cardinality(Stopped) = 0
  BY <1>1, FS_EmptySet
<1> QED BY <1>1, <1>2 DEF Init, LossInv

(* A failed write stops a sender of a closed channel and loses one         *)
(* message: the count of losses follows the number of stopped senders.     *)
LEMMA StopCounts ==
    ASSUME TypeOK, LossInv, NEW c \in Channels, sender[c] # "stopped",
           TrafficGenerator(c, FALSE), chan'[c] = "closed",
           \A d \in Channels : d # c => chan'[d] = chan[d]
    PROVE  LossInv'
<1>1. Stopped' = Stopped \cup {c} /\ c \notin Stopped
  BY DEF TrafficGenerator, Stopped, TypeOK
<1>2. IsFiniteSet(Stopped)
  BY ChannelsAssumption, FS_Subset DEF Stopped
<1>3. Cardinality(Stopped') = Cardinality(Stopped) + 1
  BY <1>1, <1>2, FS_AddElement
<1>4. Stopped' \subseteq Closed'
  BY <1>1 DEF LossInv, Closed, Stopped
<1>5. lost' = lost + 1
  BY DEF TrafficGenerator
<1> QED BY <1>3, <1>4, <1>5 DEF LossInv

LEMMA LossStep ==
    ASSUME TypeOK, SenderInv, LossInv, [Next]_vars
    PROVE  LossInv'
<1>0. ASSUME Stopped' = Stopped, Closed \subseteq Closed', lost' = lost
      PROVE  LossInv'
  BY <1>0 DEF LossInv
<1>1. CASE AddMessage
  BY <1>0, <1>1 DEF AddMessage, Stopped, Closed
<1>2. ASSUME NEW c \in Channels, AddChanel(c) PROVE LossInv'
  BY <1>0, <1>2 DEF AddChanel, Stopped, Closed, SenderInv, TypeOK
<1>3. ASSUME NEW c \in Channels, Take(c) PROVE LossInv'
  BY <1>0, <1>3 DEF Take, Stopped, Closed, TypeOK
<1>4. ASSUME NEW c \in Channels, Write(c) PROVE LossInv'
  <2>1. CASE chan[c] = "live"
    BY <1>0, <1>4, <2>1 DEF Write, Stopped, Closed, TypeOK
  <2>2. CASE chan[c] # "live"
    <3>1. chan[c] = "closed"
      BY <1>4, <2>2 DEF Write, SenderInv, TypeOK
    <3> QED BY <1>4, <2>2, <3>1, StopCounts DEF Write
  <2> QED BY <2>1, <2>2
<1>5. ASSUME NEW c \in Channels, Flush(c) PROVE LossInv'
  BY <1>0, <1>5 DEF Flush, TrafficGenerator, Stopped, Closed, TypeOK
<1>6. ASSUME NEW c \in Channels, Close(c) PROVE LossInv'
  <2>1. chan'[c] = "closed" /\ \A d \in Channels : d # c => chan'[d] = chan[d]
    BY <1>6 DEF Close, TypeOK
  <2>2. CASE sender[c] = "flush"
    BY <1>6, <2>1, <2>2, StopCounts DEF Close
  <2>3. CASE sender[c] # "flush"
    BY <1>0, <1>6, <2>1, <2>3 DEF Close, Stopped, Closed
  <2> QED BY <2>2, <2>3
<1>7. CASE UNCHANGED vars
  BY <1>0, <1>7 DEF vars, Stopped, Closed
<1> QED BY <1>1, <1>2, <1>3, <1>4, <1>5, <1>6, <1>7 DEF Next, SenderStep

(* No more messages are lost than connections have ended.                  *)
THEOREM LossBounded == Spec => []BoundedLoss
<1>1. LossInv => BoundedLoss
  <2> SUFFICES ASSUME LossInv PROVE BoundedLoss
    OBVIOUS
  <2>1. IsFiniteSet(Closed)
    BY ChannelsAssumption, FS_Subset DEF Closed
  <2>2. Cardinality(Stopped) <= Cardinality(Closed)
    BY <2>1, FS_Subset DEF LossInv
  <2> QED BY <2>2 DEF LossInv, BoundedLoss
<1> QED BY <1>1, PumpTypeInit, PumpTypeStep, SenderInit, SenderStepInv,
           LossInit, LossStep, PTL DEF Spec
-----------------------------------------------------------------------------
(* The order of the messages.                                              *)
LEMMA OrderInit == Init => OrderInv /\ InOrder
BY DEF Init, OrderInv, InOrder, Live

(* A failed write changes neither the messages written nor those queued.   *)
LEMMA StopOrder ==
    ASSUME TypeOK, OrderInv, InOrder, NEW c \in Channels,
           TrafficGenerator(c, FALSE), UNCHANGED <<sentMsgs, msgQueue>>,
           Live' \subseteq Live
    PROVE  (OrderInv /\ InOrder)'
<1>1. written' = written /\ msgQueue' = msgQueue /\ sentMsgs' = sentMsgs
  BY DEF TrafficGenerator
<1>2. \A d \in Channels : hand'[d] = IF d = c THEN 0 ELSE hand[d]
  BY DEF TrafficGenerator, TypeOK
<1>3. InOrder'
  BY <1>1 DEF InOrder
<1>4. \A d \in Live' : hand'[d] # 0 => Between(hand[d]) /\ hand'[d] = hand[d]
  BY <1>2 DEF OrderInv, Live
<1>5. \A d \in Live' : hand'[d] # 0 => Between(hand[d])'
  BY <1>1, <1>4 DEF Between
<1>6. \A d \in Channels : hand'[d] <= sentMsgs'
  BY <1>1, <1>2 DEF OrderInv, TypeOK
<1> QED BY <1>1, <1>3, <1>5, <1>6 DEF OrderInv

LEMMA OrderStep ==
    ASSUME TypeOK, SenderInv, OrderInv, InOrder, [Next]_vars
    PROVE  (OrderInv /\ InOrder)'
<1> USE MaxMessagesAssumption
<1>1. CASE AddMessage
  <2>1. CASE Len(msgQueue) < Capacity
    <3> DEFINE n == sentMsgs + 1
    <3>1. /\ sentMsgs' = n /\ n \in Nat /\ sentMsgs \in Nat /\ sentMsgs < n
          /\ written' = written /\ hand' = hand /\ Live' = Live
      BY <1>1 DEF AddMessage, TypeOK, Live
    <3>2. msgQueue \in Seq(Nat) /\ msgQueue' = Append(msgQueue, n)
      BY <1>1, <2>1 DEF AddMessage, TypeOK
    <3>3. ASSUME NEW j \in DOMAIN msgQueue'
          PROVE  \/ j \in DOMAIN msgQueue /\ msgQueue'[j] = msgQueue[j]
                 \/ j = Len(msgQueue) + 1 /\ msgQueue'[j] = n
      BY <3>1, <3>2
    <3>4. /\ \A j \in DOMAIN msgQueue : msgQueue[j] \in Nat /\ j <= Len(msgQueue)
          /\ \A i \in DOMAIN written : written[i] \in Nat
          /\ \A d \in Channels : hand[d] \in Nat
          /\ DOMAIN msgQueue' \subseteq Nat /\ Len(msgQueue) \in Nat
      BY <3>1, <3>2 DEF TypeOK
    <3> HIDE DEF n
    <3>5. InOrder'
      BY <3>1, <3>3, <3>4 DEF InOrder, OrderInv
    <3>6. \A d \in Live' : hand'[d] # 0 => Between(hand[d])'
      BY <3>1, <3>3, <3>4 DEF OrderInv, Between, Live
    <3>7. \A i, j \in DOMAIN msgQueue' : i < j => msgQueue'[i] < msgQueue'[j]
      BY <3>1, <3>3, <3>4 DEF OrderInv
    <3>8. \A j \in DOMAIN msgQueue' : msgQueue'[j] <= sentMsgs'
      BY <3>1, <3>3, <3>4 DEF OrderInv
    <3>9. /\ \A i \in DOMAIN written' : written'[i] <= sentMsgs'
          /\ \A d \in Channels : hand'[d] <= sentMsgs'
      BY <3>1, <3>4 DEF OrderInv
    <3> QED BY <3>5, <3>6, <3>7, <3>8, <3>9 DEF OrderInv
  <2>2. CASE ~(Len(msgQueue) < Capacity)
    BY <1>1, <2>2 DEF AddMessage, TypeOK, OrderInv, InOrder, Between, Live
  <2> QED BY <2>1, <2>2
<1>2. ASSUME NEW c \in Channels, AddChanel(c) PROVE (OrderInv /\ InOrder)'
  BY <1>2 DEF AddChanel, TypeOK, OrderInv, InOrder, Between, Live, SenderInv
<1>3. ASSUME NEW c \in Channels, Take(c) PROVE (OrderInv /\ InOrder)'
  <2>1. /\ msgQueue \in Seq(1..MaxMessages) /\ msgQueue # <<>>
        /\ msgQueue' = Tail(msgQueue)
        /\ written' = written /\ sentMsgs' = sentMsgs /\ Live' = Live
    BY <1>3 DEF Take, TypeOK, Live
  <2>2. ASSUME NEW j \in DOMAIN msgQueue'
        PROVE  /\ j + 1 \in DOMAIN msgQueue /\ msgQueue'[j] = msgQueue[j + 1]
               /\ j \in Nat \ {0}
    BY <2>1
  <2>3. 1 \in DOMAIN msgQueue /\ Head(msgQueue) = msgQueue[1]
    BY <2>1
  <2>4. \A d \in Channels : hand'[d] = IF d = c THEN msgQueue[1] ELSE hand[d]
    BY <1>3, <2>3 DEF Take, TypeOK
  <2>5. InOrder'
    BY <2>1, <2>2 DEF InOrder
  <2>6. \A i, j \in DOMAIN msgQueue' : i < j => msgQueue'[i] < msgQueue'[j]
    BY <2>2 DEF OrderInv
  <2>7. \A j \in DOMAIN msgQueue' : msgQueue'[j] <= sentMsgs'
    BY <2>1, <2>2 DEF OrderInv
  <2>8. \A d \in Channels : hand'[d] <= sentMsgs'
    BY <2>1, <2>3, <2>4 DEF OrderInv
  <2>9. \A j \in DOMAIN msgQueue' : 1 < j + 1
    BY <2>2
  <2>10. ASSUME NEW d \in Live', hand'[d] # 0
         PROVE  Between(hand[d])'
    <3>1. d \in Channels /\ d \in Live
      BY <2>1 DEF Live
    <3>2. CASE d = c
      <4>1. \A i \in DOMAIN written : written[i] < msgQueue[1]
        BY <2>3 DEF InOrder
      <4>2. \A j \in DOMAIN msgQueue' : msgQueue[1] < msgQueue'[j]
        BY <2>2, <2>3, <2>9 DEF OrderInv
      <4> QED BY <2>1, <2>4, <3>1, <3>2, <4>1, <4>2 DEF Between
    <3>3. CASE d # c
      <4>1. hand'[d] = hand[d] /\ Between(hand[d])
        BY <2>4, <2>10, <3>1, <3>3 DEF OrderInv
      <4>2. \A j \in DOMAIN msgQueue' : hand[d] < msgQueue'[j]
        BY <2>2, <4>1 DEF Between
      <4> QED BY <2>1, <4>1, <4>2 DEF Between
    <3> QED BY <3>2, <3>3
  <2>11. \A i \in DOMAIN written' : written'[i] <= sentMsgs'
    BY <2>1 DEF OrderInv
  <2> QED BY <2>5, <2>6, <2>7, <2>8, <2>10, <2>11 DEF OrderInv
<1>4. ASSUME NEW c \in Channels, Write(c) PROVE (OrderInv /\ InOrder)'
  <2>1. CASE chan[c] = "live"
    BY <1>4, <2>1 DEF Write, OrderInv, InOrder, Between, Live
  <2>2. CASE chan[c] # "live"
    BY <1>4, <2>2, StopOrder DEF Write, Live
  <2> QED BY <2>1, <2>2
<1>5. ASSUME NEW c \in Channels, Flush(c) PROVE (OrderInv /\ InOrder)'
  <2> DEFINE m == hand[c]
  <2>1. c \in Live /\ m # 0 /\ m \in Nat /\ Between(m) /\ m <= sentMsgs
    BY <1>5 DEF Flush, Live, SenderInv, OrderInv, TypeOK
  <2>2. /\ msgQueue' = msgQueue /\ sentMsgs' = sentMsgs /\ Live' = Live
        /\ written' = Append(written, m) /\ written \in Seq(Nat)
    BY <1>5 DEF Flush, TrafficGenerator, Live, TypeOK
  <2>3. \A d \in Channels : hand'[d] = IF d = c THEN 0 ELSE hand[d]
    BY <1>5 DEF Flush, TrafficGenerator, TypeOK
  <2>4. ASSUME NEW i \in DOMAIN written'
        PROVE  \/ i \in DOMAIN written /\ written'[i] = written[i]
               \/ i = Len(written) + 1 /\ written'[i] = m
    BY <2>1, <2>2
  <2>5. /\ \A i \in DOMAIN written : i <= Len(written)
        /\ DOMAIN written' \subseteq Nat /\ Len(written) \in Nat
    BY <2>1, <2>2
  <2>6. \A d \in Live' : hand'[d] = 0
    BY <2>1, <2>2, <2>3 DEF SenderInv, Live
  <2> HIDE DEF m
  <2>7. InOrder'
    BY <2>1, <2>2, <2>4, <2>5 DEF InOrder, Between
  <2>8. \A i \in DOMAIN written' : written'[i] <= sentMsgs'
    BY <2>1, <2>2, <2>4 DEF OrderInv
  <2>9. \A d \in Channels : hand'[d] <= sentMsgs'
    BY <2>2, <2>3 DEF OrderInv, TypeOK
  <2> QED BY <2>2, <2>6, <2>7, <2>8, <2>9 DEF OrderInv
<1>6. ASSUME NEW c \in Channels, Close(c) PROVE (OrderInv /\ InOrder)'
  <2>1. Live' \subseteq Live
    BY <1>6 DEF Close, Live, TypeOK
  <2>2. CASE sender[c] = "flush"
    BY <1>6, <2>1, <2>2, StopOrder DEF Close
  <2>3. CASE sender[c] # "flush"
    BY <1>6, <2>1, <2>3 DEF Close, OrderInv, InOrder, Between
  <2> QED BY <2>2, <2>3
<1>7. CASE UNCHANGED vars
  BY <1>7 DEF vars, OrderInv, InOrder, Between, Live
<1> QED BY <1>1, <1>2, <1>3, <1>4, <1>5, <1>6, <1>7 DEF Next, SenderStep
(* The backend sees the messages in the order they were sent, over all     *)
(* reconnections.                                                          *)
THEOREM OrderKept == Spec => []InOrder
BY PumpTypeInit, PumpTypeStep, SenderInit, SenderStepInv, OrderInit, OrderStep,
   PTL DEF Spec
-----------------------------------------------------------------------------
(* The number of messages.                                                 *)
LEMMA AccountInit == Init => Accounted
<1> SUFFICES ASSUME Init PROVE Accounted
  OBVIOUS
<1>1. Holding = {}
  BY DEF Init, Holding
<1>2. Cardinality(Holding) = 0
  BY <1>1, FS_EmptySet
<1> QED BY <1>2 DEF Init, Accounted

LEMMA HoldingFinite == IsFiniteSet(Holding) /\ Cardinality(Holding) \in Nat
BY ChannelsAssumption, FS_Subset, FS_CardinalityType DEF Holding

LEMMA HandEmptied ==
    ASSUME TypeOK, NEW c \in Channels, hand[c] # 0,
           hand' = [hand EXCEPT ![c] = 0]
    PROVE  Cardinality(Holding) = Cardinality(Holding') + 1
<1>1. Holding' = Holding \ {c} /\ c \in Holding
  BY DEF Holding, TypeOK
<1>2. Cardinality(Holding \ {c}) = Cardinality(Holding) - 1
  BY <1>1, HoldingFinite, FS_RemoveElement
<1> QED BY <1>1, <1>2, HoldingFinite

LEMMA AccountStep ==
    ASSUME TypeOK, SenderInv, Accounted, [Next]_vars
    PROVE  Accounted'
<1> USE MaxMessagesAssumption
<1>0. /\ sentMsgs \in Nat /\ refused \in Nat /\ lost \in Nat
      /\ Len(written) \in Nat /\ Len(msgQueue) \in Nat
      /\ Cardinality(Holding) \in Nat
  BY HoldingFinite DEF TypeOK
<1>1. CASE AddMessage
  <2>1. Holding' = Holding /\ written' = written /\ lost' = lost
    BY <1>1 DEF AddMessage, Holding
  <2>2. \/ Len(msgQueue') = Len(msgQueue) + 1 /\ refused' = refused
        \/ Len(msgQueue') = Len(msgQueue) /\ refused' = refused + 1
    BY <1>1, <1>0 DEF AddMessage, TypeOK
  <2>3. sentMsgs' = sentMsgs + 1
    BY <1>1 DEF AddMessage
  <2> QED BY <1>0, <2>1, <2>2, <2>3, SMTT(30) DEF Accounted
<1>2. ASSUME NEW c \in Channels, AddChanel(c) PROVE Accounted'
  BY <1>2 DEF AddChanel, Accounted, Holding
<1>3. ASSUME NEW c \in Channels, Take(c) PROVE Accounted'
  <2>1. hand[c] = 0
    BY <1>3 DEF Take, SenderInv
  <2>2. Head(msgQueue) \in 1..MaxMessages
    BY <1>3 DEF Take, TypeOK
  <2>3. Holding' = Holding \cup {c} /\ c \notin Holding
    BY <1>3, <2>1, <2>2 DEF Take, Holding, TypeOK
  <2>4. Cardinality(Holding') = Cardinality(Holding) + 1
    BY <2>3, HoldingFinite, FS_AddElement
  <2>5. Len(msgQueue') = Len(msgQueue) - 1
    BY <1>3 DEF Take, TypeOK
  <2>6. UNCHANGED <<sentMsgs, refused, written, lost>>
    BY <1>3 DEF Take
  <2> QED BY <1>0, <2>4, <2>5, <2>6 DEF Accounted
<1>4. ASSUME NEW c \in Channels, TrafficGenerator(c, FALSE), hand[c] # 0,
             UNCHANGED <<sentMsgs, msgQueue, refused>>
      PROVE  Accounted'
  <2>1. lost' = lost + 1 /\ written' = written
    BY <1>4 DEF TrafficGenerator
  <2>2. Cardinality(Holding) = Cardinality(Holding') + 1
    BY <1>4, HandEmptied DEF TrafficGenerator
  <2>3. Cardinality(Holding') \in Nat
    BY ChannelsAssumption, FS_Subset, FS_CardinalityType DEF Holding
  <2> QED BY <1>0, <1>4, <2>1, <2>2, <2>3 DEF Accounted
<1>5. ASSUME NEW c \in Channels, Write(c) PROVE Accounted'
  <2>1. CASE chan[c] = "live"
    BY <1>5, <2>1 DEF Write, Accounted, Holding
  <2>2. CASE chan[c] # "live"
    BY <1>4, <1>5, <2>2 DEF Write, SenderInv
  <2> QED BY <2>1, <2>2
<1>6. ASSUME NEW c \in Channels, Flush(c) PROVE Accounted'
  <2>1. hand[c] # 0
    BY <1>6 DEF Flush, SenderInv
  <2>2. Len(written') = Len(written) + 1 /\ lost' = lost
    BY <1>6 DEF Flush, TrafficGenerator, TypeOK
  <2>3. Cardinality(Holding) = Cardinality(Holding') + 1
    BY <1>6, <2>1, HandEmptied DEF Flush, TrafficGenerator
  <2>4. Cardinality(Holding') \in Nat
    BY ChannelsAssumption, FS_Subset, FS_CardinalityType DEF Holding
  <2>5. UNCHANGED <<sentMsgs, msgQueue, refused>>
    BY <1>6 DEF Flush
  <2> QED BY <1>0, <2>2, <2>3, <2>4, <2>5 DEF Accounted
<1>7. ASSUME NEW c \in Channels, Close(c) PROVE Accounted'
  <2>1. CASE sender[c] = "flush"
    BY <1>4, <1>7, <2>1 DEF Close, SenderInv
  <2>2. CASE sender[c] # "flush"
    BY <1>7, <2>2 DEF Close, Accounted, Holding
  <2> QED BY <2>1, <2>2
<1>8. CASE UNCHANGED vars
  BY <1>8 DEF vars, Accounted, Holding
<1> QED BY <1>1, <1>2, <1>3, <1>5, <1>6, <1>7, <1>8 DEF Next, SenderStep

(* No message is duplicated and none disappears uncounted.                 *)
THEOREM AllAccounted == Spec => []Accounted
BY PumpTypeInit, PumpTypeStep, SenderInit, SenderStepInv, AccountInit,
   AccountStep, PTL DEF Spec
-----------------------------------------------------------------------------
(* The pump implements the lossy queue.  What the mapping makes of a state *)
(* depends on the live channel, of which there is at most one.             *)
LEMMA PendingIs ==
    ASSUME SenderInv
    PROVE  /\ (\A c \in Live : hand[c] = 0) => pendingBar = msgQueue
           /\ \A c \in Live : hand[c] # 0 => pendingBar = <<hand[c]>> \o msgQueue
<1>1. ASSUME \A c \in Live : hand[c] = 0 PROVE pendingBar = msgQueue
  BY <1>1 DEF pendingBar, LiveHand
<1>2. ASSUME NEW c \in Live, hand[c] # 0 PROVE pendingBar = <<hand[c]>> \o msgQueue
  <2>1. LiveHand = {c}
    BY <1>2 DEF LiveHand, SenderInv
  <2> QED BY <2>1 DEF pendingBar
<1> QED BY <1>1, <1>2

(* The same of the next state.                                             *)
LEMMA PendingWillBe ==
    ASSUME SenderInv'
    PROVE  /\ (\A c \in Live' : hand'[c] = 0) => pendingBar' = msgQueue'
           /\ \A c \in Live' : hand'[c] # 0 => pendingBar' = <<hand'[c]>> \o msgQueue'
<1>1. ASSUME \A c \in Live' : hand'[c] = 0 PROVE pendingBar' = msgQueue'
  BY <1>1 DEF pendingBar, LiveHand
<1>2. ASSUME NEW c \in Live', hand'[c] # 0 PROVE pendingBar' = <<hand'[c]>> \o msgQueue'
  <2>1. LiveHand' = {c}
    BY <1>2 DEF LiveHand, SenderInv
  <2> QED BY <2>1 DEF pendingBar
<1> QED BY <1>1, <1>2

(* A dead sender's message counts as lost before its write fails: it can   *)
(* still be charged to a connection that has ended.                        *)
Doomed == Holding \ Live

LEMMA DoomedFinite == IsFiniteSet(Doomed) /\ Cardinality(Doomed) \in Nat
BY ChannelsAssumption, FS_Subset, FS_CardinalityType DEF Holding, Doomed

LEMMA RoomForLoss ==
    ASSUME TypeOK, SenderInv, LossInv, NEW c \in Channels,
           chan[c] = "closed", sender[c] = "take"
    PROVE  lostBar < Cardinality(Closed)
<1>1. /\ IsFiniteSet(Stopped) /\ IsFiniteSet(Closed)
      /\ Cardinality(Stopped) \in Nat /\ Cardinality(Closed) \in Nat
  BY ChannelsAssumption, FS_Subset, FS_CardinalityType DEF Stopped, Closed
<1>2. Doomed \subseteq Closed /\ Stopped \subseteq Closed
  BY DEF Doomed, Holding, Live, Closed, SenderInv, LossInv, TypeOK
<1>3. Stopped \cap Doomed = {} /\ c \notin Stopped \cup Doomed /\ c \in Closed
  BY DEF Doomed, Holding, Stopped, Closed, SenderInv
<1>4. Cardinality(Stopped \cup Doomed) = Cardinality(Stopped) + Cardinality(Doomed)
  <2>1. Cardinality(Stopped \cap Doomed) = 0
    BY <1>3, FS_EmptySet
  <2>2. Cardinality(Stopped \cup Doomed)
          = Cardinality(Stopped) + Cardinality(Doomed) - Cardinality(Stopped \cap Doomed)
    BY <1>1, DoomedFinite, FS_Union
  <2> QED BY <1>1, <2>1, <2>2, DoomedFinite
<1>5. IsFiniteSet(Stopped \cup Doomed)
  BY <1>1, DoomedFinite, FS_Union
<1>6. Cardinality((Stopped \cup Doomed) \cup {c}) = Cardinality(Stopped \cup Doomed) + 1
  BY <1>3, <1>5, FS_AddElement
<1>7. Cardinality((Stopped \cup Doomed) \cup {c}) <= Cardinality(Closed)
  <2>1. (Stopped \cup Doomed) \cup {c} \subseteq Closed
    BY <1>2, <1>3
  <2> QED BY <1>1, <2>1, FS_Subset
<1> QED BY <1>1, <1>4, <1>6, <1>7, DoomedFinite DEF lostBar, Doomed, LossInv

(* Taking the first message of the queue removes it from the pending ones, *)
(* whether or not the live sender holds one before it.                     *)
LEMMA WithoutFirst ==
    ASSUME NEW S, NEW q \in Seq(S), q # <<>>
    PROVE  Fifo!Without(q, 1) = Tail(q)
<1>1. Len(q) \in Nat \ {0} /\ Tail(q) \in Seq(S) /\ Len(Tail(q)) = Len(q) - 1
  OBVIOUS
<1> DEFINE w == Fifo!Without(q, 1)
           g == Tail(q)
<1>2. w = [j \in 1 .. Len(q) - 1 |-> q[j + 1]]
  BY <1>1 DEF Fifo!Without
<1>3. \A j \in 1 .. Len(q) - 1 : g[j] = q[j + 1] /\ g[j] \in S
  BY <1>1
<1> HIDE DEF w, g
<1>4. \A j \in 1 .. Len(q) - 1 : w[j] = g[j] /\ w[j] \in S
  BY <1>1, <1>2, <1>3
<1>5. w \in Seq(S) /\ Len(w) = Len(q) - 1
  BY <1>1, <1>2, <1>4
<1>6. g \in Seq(S) /\ Len(g) = Len(q) - 1
  BY <1>1 DEF g
<1>7. w = g
  BY <1>4, <1>5, <1>6, SeqEqual
<1> QED BY <1>7 DEF w, g

LEMMA WithoutSecond ==
    ASSUME NEW S, NEW h \in S, NEW q \in Seq(S), q # <<>>
    PROVE  Fifo!Without(<<h>> \o q, 2) = <<h>> \o Tail(q)
<1>1. Len(q) \in Nat \ {0} /\ Tail(q) \in Seq(S) /\ Len(Tail(q)) = Len(q) - 1
  OBVIOUS
<1> DEFINE f == <<h>> \o q
           g == <<h>> \o Tail(q)
           w == Fifo!Without(f, 2)
<1>2. f \in Seq(S) /\ Len(f) = Len(q) + 1 /\ g \in Seq(S) /\ Len(g) = Len(q)
  BY <1>1
<1>3. \A j \in 1 .. Len(f) : f[j] = IF j = 1 THEN h ELSE q[j - 1]
  BY <1>1
<1>4. \A j \in 1 .. Len(q) : g[j] = IF j = 1 THEN h ELSE q[j]
  BY <1>1
<1> HIDE DEF f, g
<1>5. w = [j \in 1 .. Len(q) |-> IF j < 2 THEN f[j] ELSE f[j + 1]]
  BY <1>1, <1>2 DEF Fifo!Without
<1> HIDE DEF w
<1>6. \A j \in 1 .. Len(q) : w[j] \in S /\ w[j] = g[j]
  BY <1>1, <1>2, <1>3, <1>4, <1>5
<1>7. w \in Seq(S) /\ Len(w) = Len(q)
  BY <1>1, <1>5, <1>6
<1> QED BY <1>2, <1>6, <1>7, SeqEqual DEF w, f, g

(* Every step of the pump is a step of the lossy queue or changes nothing  *)
(* in it.                                                                  *)
LEMMA FifoInit == Init => Fifo!Init
<1> SUFFICES ASSUME Init PROVE Fifo!Init
  OBVIOUS
<1>1. Holding \ Live = {} /\ Closed = {} /\ LiveHand = {}
  BY DEF Init, Holding, Live, Closed, LiveHand
<1>2. Cardinality(Holding \ Live) = 0 /\ Cardinality(Closed) = 0
  BY <1>1, FS_EmptySet
<1>3. pendingBar = <<>> /\ lostBar = 0
  BY <1>1, <1>2 DEF Init, pendingBar, lostBar
<1> QED BY <1>2, <1>3 DEF Init, Fifo!Init

LEMMA FifoStep ==
    ASSUME TypeOK, TypeOK', SenderInv, SenderInv', LossInv, [Next]_vars
    PROVE  [Fifo!Next]_(Fifo!vars)
<1> USE MaxMessagesAssumption, CapacityAssumption
<1>t. /\ msgQueue \in Seq(1..MaxMessages) /\ Len(msgQueue) <= Capacity
      /\ chan \in [Channels -> {"new", "live", "closed"}]
      /\ sender \in [Channels -> SenderPC] /\ hand \in [Channels -> 0..MaxMessages]
      /\ lost \in Nat
  BY DEF TypeOK
<1>s. ASSUME pendingBar' = pendingBar, written' = written, lostBar' = lostBar, Closed' = Closed
      PROVE  [Fifo!Next]_(Fifo!vars)
  BY <1>s DEF Fifo!vars
<1>d. ASSUME Doomed' = Doomed, lost' = lost PROVE lostBar' = lostBar
  BY <1>d DEF lostBar, Doomed
<1>1. CASE AddMessage
  <2>1. UNCHANGED <<chan, sender, hand, written, lost>>
    BY <1>1 DEF AddMessage
  <2>2. Live' = Live /\ Closed' = Closed /\ Doomed' = Doomed /\ LiveHand' = LiveHand
    BY <2>1 DEF Live, Closed, Doomed, Holding, LiveHand
  <2>3. CASE Len(msgQueue) < Capacity
    <3> DEFINE m == sentMsgs + 1
    <3>1. msgQueue' = Append(msgQueue, m) /\ m \in 1..MaxMessages
      BY <1>1, <2>3 DEF AddMessage, TypeOK
    <3> HIDE DEF m
    <3>2. pendingBar' = Append(pendingBar, m) /\ Len(pendingBar) < Capacity + 1
      <4>1. CASE \A c \in Live : hand[c] = 0
        BY <1>t, <2>1, <2>2, <2>3, <3>1, <4>1, PendingIs, PendingWillBe
      <4>2. ASSUME NEW c \in Live, hand[c] # 0
            PROVE  pendingBar' = Append(pendingBar, m) /\ Len(pendingBar) < Capacity + 1
        <5>1. pendingBar = <<hand[c]>> \o msgQueue /\ pendingBar' = <<hand[c]>> \o msgQueue'
          BY <2>1, <2>2, <4>2, PendingIs, PendingWillBe
        <5>2. hand[c] \in 1..MaxMessages
          BY <1>t, <4>2 DEF Live
        <5>3. Len(<<hand[c]>> \o msgQueue) = Len(msgQueue) + 1
          BY <1>t, <5>2
        <5>4. <<hand[c]>> \o Append(msgQueue, m) = Append(<<hand[c]>> \o msgQueue, m)
          BY <1>t, <3>1, <5>2
        <5>5. pendingBar' = Append(pendingBar, m)
          BY <3>1, <5>1, <5>4, Zenon
        <5>6. Len(pendingBar) < Capacity + 1
          BY <1>t, <2>3, <5>1, <5>3
        <5> QED BY <5>5, <5>6
      <4> QED BY <4>1, <4>2
    <3>3. lostBar' = lostBar
      BY <1>d, <2>1, <2>2
    <3>4. Fifo!Accept
      BY <2>1, <2>2, <3>1, <3>2, <3>3 DEF Fifo!Accept
    <3> QED BY <3>4 DEF Fifo!Next
  <2>4. CASE ~(Len(msgQueue) < Capacity)
    <3>1. msgQueue' = msgQueue
      BY <1>1, <2>4 DEF AddMessage
    <3>2. pendingBar' = pendingBar
      BY <2>1, <2>2, <3>1 DEF pendingBar
    <3> QED BY <1>d, <1>s, <2>1, <2>2, <3>2
  <2> QED BY <2>3, <2>4
<1>2. ASSUME NEW c \in Channels, AddChanel(c) PROVE [Fifo!Next]_(Fifo!vars)
  <2>1. UNCHANGED <<msgQueue, hand, written, lost>> /\ chan[c] = "new" /\ Live = {}
        /\ chan' = [chan EXCEPT ![c] = "live"]
    BY <1>2 DEF AddChanel
  <2>2. hand[c] = 0
    BY <2>1 DEF SenderInv
  <2>3. Live' = {c} /\ Closed' = Closed /\ Doomed' = Doomed
    BY <1>t, <2>1, <2>2 DEF Live, Closed, Doomed, Holding
  <2>4. pendingBar = msgQueue /\ pendingBar' = msgQueue'
    BY <2>1, <2>2, <2>3, PendingIs, PendingWillBe
  <2> QED BY <1>d, <1>s, <2>1, <2>3, <2>4
<1>3. ASSUME NEW c \in Channels, Take(c) PROVE [Fifo!Next]_(Fifo!vars)
  <2>1. /\ msgQueue # <<>> /\ msgQueue' = Tail(msgQueue) /\ sender[c] = "take" /\ hand[c] = 0
        /\ hand' = [hand EXCEPT ![c] = Head(msgQueue)]
        /\ UNCHANGED <<chan, written, lost>>
    BY <1>3 DEF Take, SenderInv
  <2>2. /\ Head(msgQueue) \in 1..MaxMessages /\ Tail(msgQueue) \in Seq(1..MaxMessages)
        /\ msgQueue = <<Head(msgQueue)>> \o Tail(msgQueue)
    BY <1>t, <2>1
  <2>3. /\ hand'[c] = Head(msgQueue) /\ hand'[c] # 0
        /\ \A d \in Channels : d # c => hand'[d] = hand[d]
    BY <1>t, <2>1, <2>2
  <2>4. Live' = Live /\ Closed' = Closed
    BY <2>1 DEF Live, Closed
  <2>5. CASE c \in Live
    <3>1. \A d \in Live : d = c
      BY <2>5 DEF SenderInv
    <3>2. pendingBar = msgQueue /\ pendingBar' = <<Head(msgQueue)>> \o Tail(msgQueue)
      BY <2>1, <2>3, <2>4, <2>5, <3>1, PendingIs, PendingWillBe
    <3>3. Doomed' = Doomed
      BY <2>3, <2>4, <2>5 DEF Doomed, Holding
    <3> QED BY <1>d, <1>s, <2>1, <2>2, <2>4, <3>2, <3>3
  <2>6. CASE c \notin Live
    <3>1. chan[c] = "closed"
      BY <1>t, <2>1, <2>6 DEF Live, SenderInv
    <3>2. Doomed' = Doomed \cup {c} /\ c \notin Doomed
      BY <2>1, <2>3, <2>4, <2>6 DEF Doomed, Holding
    <3>3. Cardinality(Doomed') = Cardinality(Doomed) + 1
      BY <3>2, DoomedFinite, FS_AddElement
    <3>4. lostBar' = lostBar + 1
      BY <1>t, <2>1, <3>3, DoomedFinite DEF lostBar, Doomed
    <3>5. lostBar < Cardinality(Closed)
      BY <2>1, <3>1, RoomForLoss
    <3>6. \E i \in DOMAIN pendingBar : pendingBar' = Fifo!Without(pendingBar, i)
      <4>1. CASE \A d \in Live : hand[d] = 0
        <5>1. pendingBar = msgQueue /\ pendingBar' = Tail(msgQueue)
          BY <2>1, <2>3, <2>4, <2>6, <4>1, PendingIs, PendingWillBe DEF Live
        <5>2. 1 \in DOMAIN msgQueue
          BY <1>t, <2>1
        <5> QED BY <1>t, <2>1, <5>1, <5>2, WithoutFirst
      <4>2. ASSUME NEW d \in Live, hand[d] # 0
            PROVE  \E i \in DOMAIN pendingBar : pendingBar' = Fifo!Without(pendingBar, i)
        <5>1. d \in Channels /\ d # c /\ hand'[d] = hand[d] /\ hand[d] \in 1..MaxMessages
          BY <1>t, <2>3, <2>6, <4>2 DEF Live
        <5>2. /\ pendingBar = <<hand[d]>> \o msgQueue
              /\ pendingBar' = <<hand[d]>> \o Tail(msgQueue)
          BY <2>1, <2>4, <4>2, <5>1, PendingIs, PendingWillBe
        <5>3. 2 \in DOMAIN (<<hand[d]>> \o msgQueue)
          BY <1>t, <2>1, <5>1
        <5>4. Fifo!Without(<<hand[d]>> \o msgQueue, 2) = <<hand[d]>> \o Tail(msgQueue)
          BY <1>t, <2>1, <5>1, WithoutSecond, SMTT(30)
        <5> QED BY <5>2, <5>3, <5>4
      <4> QED BY <4>1, <4>2
    <3>7. Fifo!Lose
      BY <2>1, <2>4, <3>4, <3>5, <3>6 DEF Fifo!Lose
    <3> QED BY <3>7 DEF Fifo!Next
  <2> QED BY <2>5, <2>6
<1>4. ASSUME NEW c \in Channels, Write(c) PROVE [Fifo!Next]_(Fifo!vars)
  <2>1. UNCHANGED <<msgQueue, chan>> /\ Live' = Live /\ Closed' = Closed
    BY <1>4 DEF Write, Live, Closed
  <2>2. CASE chan[c] = "live"
    <3>1. UNCHANGED <<hand, written, lost>>
      BY <1>4, <2>2 DEF Write
    <3>2. pendingBar' = pendingBar /\ Doomed' = Doomed
      BY <2>1, <3>1 DEF pendingBar, LiveHand, Doomed, Holding
    <3> QED BY <1>d, <1>s, <2>1, <3>1, <3>2
  <2>3. CASE chan[c] # "live"
    <3>1. /\ hand' = [hand EXCEPT ![c] = 0] /\ lost' = lost + 1 /\ written' = written
          /\ hand[c] # 0 /\ c \notin Live
      BY <1>4, <2>3 DEF Write, TrafficGenerator, SenderInv, Live
    <3>2. Doomed' = Doomed \ {c} /\ c \in Doomed
      BY <1>t, <2>1, <3>1 DEF Doomed, Holding
    <3>3. Cardinality(Doomed') = Cardinality(Doomed) - 1
      BY <3>2, DoomedFinite, FS_RemoveElement
    <3>4. lostBar' = lostBar
      BY <1>t, <3>1, <3>3, DoomedFinite DEF lostBar, Doomed
    <3>5. LiveHand' = LiveHand /\ \A d \in LiveHand : hand'[d] = hand[d]
      BY <1>t, <2>1, <3>1 DEF LiveHand, Live
    <3>6. pendingBar' = pendingBar
      BY <2>1, <3>5 DEF pendingBar
    <3> QED BY <1>s, <2>1, <3>1, <3>4, <3>6
  <2> QED BY <2>2, <2>3
<1>5. ASSUME NEW c \in Channels, Flush(c) PROVE [Fifo!Next]_(Fifo!vars)
  <2>1. /\ UNCHANGED <<msgQueue, chan, lost>> /\ hand' = [hand EXCEPT ![c] = 0]
        /\ written' = Append(written, hand[c]) /\ hand[c] # 0 /\ c \in Live
    BY <1>5 DEF Flush, TrafficGenerator, SenderInv, Live
  <2>2. Live' = Live /\ Closed' = Closed /\ \A d \in Live : d = c
    BY <2>1 DEF Live, Closed, SenderInv
  <2>3. pendingBar = <<hand[c]>> \o msgQueue
    BY <2>1, PendingIs
  <2>4. pendingBar' = msgQueue
    BY <1>t, <2>1, <2>2, PendingWillBe
  <2>5. hand[c] \in 1..MaxMessages
    BY <1>t, <2>1
  <2>6. /\ <<hand[c]>> \o msgQueue # <<>> /\ Head(<<hand[c]>> \o msgQueue) = hand[c]
        /\ Tail(<<hand[c]>> \o msgQueue) = msgQueue
    BY <1>t, <2>5
  <2>7. Doomed' = Doomed
    BY <1>t, <2>1, <2>2 DEF Doomed, Holding
  <2>8. Fifo!Deliver
    BY <1>d, <2>1, <2>2, <2>3, <2>4, <2>6, <2>7 DEF Fifo!Deliver
  <2> QED BY <2>8 DEF Fifo!Next
<1>6. ASSUME NEW c \in Channels, Close(c) PROVE [Fifo!Next]_(Fifo!vars)
  <2>1. /\ UNCHANGED <<msgQueue, written>> /\ chan' = [chan EXCEPT ![c] = "closed"] /\ c \in Live
        /\ \/ lost' = lost + 1 /\ hand' = [hand EXCEPT ![c] = 0] /\ hand[c] # 0
           \/ UNCHANGED <<lost, hand>>
    BY <1>6 DEF Close, TrafficGenerator, SenderInv, Live
  <2>2. (\A d \in Live : d = c) /\ Live' = {} /\ Closed' = Closed \cup {c} /\ c \notin Closed
    BY <1>t, <2>1 DEF Live, Closed, SenderInv
  <2>3. IsFiniteSet(Closed) /\ Cardinality(Closed') = Cardinality(Closed) + 1
    <3>1. IsFiniteSet(Closed)
      BY ChannelsAssumption, FS_Subset DEF Closed
    <3> QED BY <2>2, <3>1, FS_AddElement
  <2>4. pendingBar' = msgQueue
    BY <2>1, <2>2, PendingWillBe
  <2>5. CASE hand[c] = 0
    <3>1. pendingBar = msgQueue
      BY <2>2, <2>5, PendingIs
    <3>2. Doomed' = Doomed /\ lost' = lost
      BY <2>1, <2>2, <2>5 DEF Doomed, Holding
    <3>3. Fifo!End
      BY <1>d, <2>1, <2>3, <2>4, <3>1, <3>2 DEF Fifo!End
    <3> QED BY <3>3 DEF Fifo!Next
  <2>6. CASE hand[c] # 0
    <3>1. pendingBar = <<hand[c]>> \o msgQueue /\ hand[c] \in 1..MaxMessages
      BY <1>t, <2>1, <2>6, PendingIs
    <3>2. <<hand[c]>> \o msgQueue # <<>> /\ Tail(<<hand[c]>> \o msgQueue) = msgQueue
      BY <1>t, <3>1
    <3>3. lostBar' = lostBar + 1
      <4>1. CASE UNCHANGED <<lost, hand>>
        <5>1. Doomed' = Doomed \cup {c} /\ c \notin Doomed
          BY <2>1, <2>2, <2>6, <4>1 DEF Doomed, Holding
        <5>2. Cardinality(Doomed') = Cardinality(Doomed) + 1
          BY <5>1, DoomedFinite, FS_AddElement
        <5> QED BY <1>t, <4>1, <5>2, DoomedFinite DEF lostBar, Doomed
      <4>2. CASE lost' = lost + 1 /\ hand' = [hand EXCEPT ![c] = 0]
        <5>1. Doomed' = Doomed
          BY <1>t, <2>1, <2>2, <4>2 DEF Doomed, Holding
        <5>2. lostBar = lost + Cardinality(Doomed) /\ lostBar' = lost' + Cardinality(Doomed')
          BY DEF lostBar, Doomed
        <5>3. Cardinality(Doomed') = Cardinality(Doomed)
          BY <5>1
        <5> QED BY <1>t, <4>2, <5>2, <5>3, DoomedFinite
      <4> QED BY <2>1, <4>1, <4>2
    <3>4. Fifo!End
      BY <2>1, <2>3, <2>4, <3>1, <3>2, <3>3 DEF Fifo!End
    <3> QED BY <3>4 DEF Fifo!Next
  <2> QED BY <2>5, <2>6
<1>7. CASE UNCHANGED vars
  <2>1. pendingBar' = pendingBar /\ Doomed' = Doomed /\ Closed' = Closed
    BY <1>7 DEF vars, pendingBar, LiveHand, Live, Doomed, Holding, Closed
  <2> QED BY <1>7, <1>d, <1>s, <2>1 DEF vars
<1> QED BY <1>1, <1>2, <1>3, <1>4, <1>5, <1>6, <1>7 DEF Next, SenderStep

(* MessageDispatcher and the senders together are a first-in first-out     *)
(* queue that loses at most one message for each ended connection, for any *)
(* number of connections and messages and any length of the queue.         *)
THEOREM PumpIsLossyFifo == Spec => FifoSpec
<1> DEFINE Inv == TypeOK /\ SenderInv /\ LossInv
<1>1. Init => Inv
  BY PumpTypeInit, SenderInit, LossInit
<1>2. Inv /\ [Next]_vars => Inv'
  BY PumpTypeStep, SenderStepInv, LossStep
<1>3. Inv /\ Inv' /\ [Next]_vars => [Fifo!Next]_(Fifo!vars)
  BY FifoStep
<1> HIDE DEF Inv
<1> QED BY <1>1, <1>2, <1>3, FifoInit, PTL DEF Spec, FifoSpec, Fifo!Spec
=============================================================================
