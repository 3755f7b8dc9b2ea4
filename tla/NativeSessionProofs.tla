------------------------ MODULE NativeSessionProofs ------------------------
(* Theorems of NativeSession: for any number of streamers, descriptors and *)
(* parts of a frame, and any device.                                       *)
EXTENDS NativeSession, TLAPS

InfoRecord == [res : Nat \X Nat, freq : Frequencies \cup {InitFrequency},
               newRes : BOOLEAN, newFreq : BOOLEAN]

StreamRecord ==
    [pc : StreamPC, socket : Fds \cup {NoFd}, res : (Nat \X Nat) \cup {Garbage},
     freq : Frequencies \cup {InitFrequency, Garbage}, part : 1..FrameParts]

PeerRecord == [by : Streamers \cup {NoStreamer}, part : 0..FrameParts]

LEMMA IdleTyped == Idle \in StreamRecord
BY FramePartsAssumption DEF Idle, StreamRecord, StreamPC

(* What the peer expects before and after a part is well formed.           *)
LEMMA PeerTyped ==
    /\ AwaitKey \in PeerRecord /\ Boundary \in PeerRecord
    /\ \A t \in Streamers, k \in 1..FrameParts : AfterPart(t, k) \in PeerRecord
BY FramePartsAssumption DEF AwaitKey, Boundary, AfterPart, PeerRecord

LEMMA DeliverTyped ==
    ASSUME TypeOK, NEW before, NEW after \in PeerRecord, Deliver(before, after)
    PROVE  rx' \in PeerRecord /\ torn' \in BOOLEAN
BY DEF Deliver, TypeOK, PeerRecord

LEMMA SessionTypeInit == Init => TypeOK
<1> SUFFICES ASSUME Init PROVE TypeOK
  OBVIOUS
<1>1. stream \in [Streamers -> StreamRecord]
  BY IdleTyped DEF Init
<1>2. info \in InfoRecord
  BY DeviceAssumption DEF Init, InfoRecord
<1>3. rx \in PeerRecord
  BY PeerTyped DEF Init
<1> QED
  BY <1>1, <1>2, <1>3 DEF Init, TypeOK, MainPC, StreamRecord, InfoRecord, PeerRecord

(* A resolution that was stored fits the width of the device.              *)
LEMMA StoredResFits ==
    ASSUME NEW w \in Nat, NEW h \in Nat, info.res \in Nat \X Nat,
           info.res[1] <= DeviceWidth
    PROVE  StoredRes(w, h) \in Nat \X Nat /\ StoredRes(w, h)[1] <= DeviceWidth
BY DEF StoredRes

LEMMA StoredResTyped ==
    ASSUME NEW w \in Nat, NEW h \in Nat, info.res \in Nat \X Nat
    PROVE  StoredRes(w, h) \in Nat \X Nat
BY DEF StoredRes

(* A step of a streamer keeps the types of the streamers.                  *)
LEMMA StreamTyped ==
    ASSUME TypeOK, NEW t \in Streamers, Streamer(t)
    PROVE  stream' \in [Streamers -> StreamRecord]
<1>0. stream[t] \in StreamRecord
  BY DEF TypeOK, StreamRecord
<1>1. CASE ReadSocket(t)
  <2>1. [stream[t] EXCEPT !.socket = clientfd, !.pc = "begin"] \in StreamRecord
    BY <1>0 DEF TypeOK, StreamRecord, StreamPC
  <2>2. stream' = [stream EXCEPT ![t] = [stream[t] EXCEPT !.socket = clientfd, !.pc = "begin"]]
    BY <1>1 DEF ReadSocket
  <2> QED BY <2>1, <2>2 DEF TypeOK, StreamRecord
<1>2. CASE RaiseRunning(t)
  BY <1>2 DEF RaiseRunning, TypeOK, StreamRecord, StreamPC
<1>3. CASE WhileRunning(t)
  BY <1>3, IdleTyped DEF WhileRunning, TypeOK, StreamRecord, StreamPC
<1>4. CASE TakeUpdates(t)
  <2> DEFINE r == IF info.newRes THEN info.res ELSE stream[t].res
             f == IF info.newFreq THEN info.freq ELSE stream[t].freq
  <2>1. r \in (Nat \X Nat) \cup {Garbage}
    BY <1>0 DEF TypeOK, StreamRecord
  <2>2. f \in Frequencies \cup {InitFrequency, Garbage}
    BY <1>0 DEF TypeOK, StreamRecord
  <2> HIDE DEF r, f
  <2>3. [stream[t] EXCEPT !.res = r, !.freq = f, !.pc = "shot"] \in StreamRecord
    BY <1>0, <2>1, <2>2 DEF StreamRecord, StreamPC
  <2>4. stream' = [stream EXCEPT ![t] = [stream[t] EXCEPT !.res = r, !.freq = f, !.pc = "shot"]]
    BY <1>4 DEF TakeUpdates, r, f
  <2> QED BY <2>3, <2>4 DEF TypeOK, StreamRecord
<1>5. CASE SkipFrame(t) \/ SendFrame(t) \/ BaseIsEmpty(t)
  BY <1>5 DEF SkipFrame, SendFrame, BaseIsEmpty, TypeOK, StreamRecord, StreamPC
<1>6. CASE WritePart(t)
  <2> DEFINE k == stream[t].part
             c == IF k = FrameParts THEN "test" ELSE "send"
             n == IF k = FrameParts THEN 1 ELSE k + 1
  <2>0. k \in 1..FrameParts
    BY <1>0 DEF StreamRecord
  <2>1. n \in 1..FrameParts /\ c \in StreamPC
    <3> HIDE DEF k
    <3> QED BY <2>0, FramePartsAssumption DEF StreamPC
  <2> HIDE DEF n, c
  <2>2. [stream[t] EXCEPT !.pc = c, !.part = n] \in StreamRecord
    BY <1>0, <2>1 DEF StreamRecord
  <2>3. stream' = [stream EXCEPT ![t] = [stream[t] EXCEPT !.pc = c, !.part = n]]
    BY <1>6 DEF WritePart, c, n
  <2> QED BY <2>2, <2>3 DEF TypeOK, StreamRecord
<1>7. CASE WriteFails(t)
  <2>0. 1 \in 1..FrameParts /\ "test" \in StreamPC
    BY FramePartsAssumption DEF StreamPC
  <2>1. [stream[t] EXCEPT !.pc = "test", !.part = 1] \in StreamRecord
    BY <1>0, <2>0 DEF StreamRecord
  <2>2. stream' = [stream EXCEPT ![t] = [stream[t] EXCEPT !.pc = "test", !.part = 1]]
    BY <1>7 DEF WriteFails
  <2> QED BY <2>1, <2>2 DEF TypeOK, StreamRecord
<1> QED
  BY <1>1, <1>2, <1>3, <1>4, <1>5, <1>6, <1>7 DEF Streamer

LEMMA SessionTypeStep == TypeOK /\ [Next]_vars => TypeOK'
<1> SUFFICES ASSUME TypeOK, [Next]_vars PROVE TypeOK'
  OBVIOUS
<1> USE DEF TypeOK, MainPC, Goto, streamVars, history
<1>1. CASE Accept
  BY <1>1, PeerTyped DEF Accept, PeerRecord
<1>2. CASE AcceptError
  BY <1>2 DEF AcceptError
<1>3. CASE CheckAndUpdate
  BY <1>3 DEF CheckAndUpdate
<1>4. CASE SendAuthKey
  BY <1>4, PeerTyped, DeliverTyped DEF SendAuthKey, PeerRecord
<1>5. CASE AuthOk
  BY <1>5 DEF AuthOk
<1>6. CASE AuthFailed
  BY <1>6 DEF AuthFailed
<1>7. CASE StartStreamer
  <2>1. info' \in InfoRecord
    BY <1>7 DEF StartStreamer, InfoRecord
  <2>2. stream' \in [Streamers -> StreamRecord] /\ cur' \in Streamers
    BY <1>7 DEF StartStreamer, StreamRecord, StreamPC
  <2> QED BY <1>7, <2>1, <2>2 DEF StartStreamer, InfoRecord, StreamRecord
<1>8. CASE CloseClient
  BY <1>8, PeerTyped, ZenonT(30) DEF CloseClient, PeerRecord
<1>9. CASE LoopTest
  BY <1>9 DEF LoopTest
<1>10. CASE Break
  <2>1. pc' \in MainPC /\ open' \in BOOLEAN
    BY <1>10 DEF Break
  <2> QED BY <1>10, <2>1, SMTT(60) DEF Break
<1>11. CASE Teardown
  BY <1>11, ZenonT(30) DEF Teardown
<1>12. CASE Exit
  BY <1>12 DEF Exit
<1>13. CASE SetResolution
  <2>1. PICK r \in Resolutions :
            info' = [info EXCEPT !.res = StoredRes(r[1], r[2]), !.newRes = TRUE]
    BY <1>13 DEF SetResolution
  <2>2. StoredRes(r[1], r[2]) \in Nat \X Nat
    BY ResolutionsAssumption, StoredResTyped
  <2>3. info' \in InfoRecord
    BY <2>1, <2>2 DEF InfoRecord
  <2> QED BY <1>13, <2>3 DEF SetResolution, InfoRecord, mainVars
<1>14. CASE SetFrequency
  <2>1. info' \in InfoRecord
    BY <1>14 DEF SetFrequency, InfoRecord
  <2> QED BY <1>14, <2>1 DEF SetFrequency, InfoRecord, mainVars
<1>15. CASE ReceiveCommand
  BY <1>15 DEF ReceiveCommand
<1>16. CASE ReceiveEnd
  BY <1>16 DEF ReceiveEnd
<1>17. CASE SigInt
  <2>1. halt' \in BOOLEAN /\ listening' \in BOOLEAN
    BY <1>17 DEF SigInt
  <2> QED BY <1>17, <2>1, SMTT(60) DEF SigInt
<1>18. CASE PeerCloses
  BY <1>18 DEF PeerCloses, mainVars
<1>19. ASSUME NEW t \in Streamers, Streamer(t) PROVE TypeOK'
  <2>1. stream' \in [Streamers -> StreamRecord]
    BY <1>19, StreamTyped
  <2>2. info' \in InfoRecord /\ running' \in BOOLEAN
    <3>1. CASE TakeUpdates(t)
      BY <3>1 DEF TakeUpdates, InfoRecord
    <3>2. CASE info' = info
      BY <1>19, <3>1, <3>2 DEF Streamer, ReadSocket, RaiseRunning, WhileRunning,
         TakeUpdates, SkipFrame, SendFrame, BaseIsEmpty, WritePart, WriteFails,
         InfoRecord
    <3> QED BY <1>19, <3>1, <3>2 DEF Streamer, ReadSocket, RaiseRunning,
               WhileRunning, SkipFrame, SendFrame, BaseIsEmpty, WritePart,
               WriteFails
  <2>3. UNCHANGED <<mainVars, gone, cur, clean>> /\ blank' \in BOOLEAN
    BY <1>19 DEF Streamer, ReadSocket, RaiseRunning, WhileRunning, TakeUpdates,
       SkipFrame, SendFrame, BaseIsEmpty, WritePart, WriteFails
  <2>4. rx' \in PeerRecord /\ torn' \in BOOLEAN
    <3>1. CASE WritePart(t)
      <4>1. AfterPart(t, stream[t].part) \in PeerRecord
        BY PeerTyped
      <4> QED BY <3>1, <4>1, DeliverTyped DEF WritePart
    <3>2. CASE UNCHANGED <<rx, torn>>
      BY <3>2 DEF PeerRecord
    <3> QED BY <1>19, <3>1, <3>2 DEF Streamer, ReadSocket, RaiseRunning,
               WhileRunning, TakeUpdates, SkipFrame, SendFrame, BaseIsEmpty,
               WriteFails
  <2> QED BY <2>1, <2>2, <2>3, <2>4 DEF StreamRecord, InfoRecord, PeerRecord,
             mainVars
<1>20. CASE UNCHANGED vars
  BY <1>20 DEF vars, mainVars
<1> QED
  BY <1>1, <1>2, <1>3, <1>4, <1>5, <1>6, <1>7, <1>8, <1>9, <1>10, <1>11, <1>12,
     <1>13, <1>14, <1>15, <1>16, <1>17, <1>18, <1>19, <1>20 DEF Next, Main, Receiver

(* Every variable keeps its type; in particular a streamer never writes    *)
(* more than the parts of a frame.                                         *)
THEOREM SessionTypeCorrect == Spec => []TypeOK
BY SessionTypeInit, SessionTypeStep, PTL DEF Spec

-----------------------------------------------------------------------------
(* The connection is open exactly while its session may use it, and only a *)
(* streamer in the middle of a frame has parts behind it.                  *)
LEMMA SessionInvStep == TypeOK /\ SessionInv /\ [Next]_vars => SessionInv'
<1> SUFFICES ASSUME TypeOK, SessionInv, [Next]_vars PROVE SessionInv'
  OBVIOUS
<1>0. stream \in [Streamers -> StreamRecord]
  BY DEF TypeOK, StreamRecord
<1> USE DEF SessionInv, Unstarted, Joining, Goto, streamVars
<1>1. CASE Accept \/ AcceptError \/ CheckAndUpdate \/ SendAuthKey
  BY <1>1 DEF Accept, AcceptError, CheckAndUpdate, SendAuthKey
<1>2. CASE AuthOk \/ AuthFailed \/ CloseClient \/ LoopTest
  BY <1>2 DEF AuthOk, AuthFailed, CloseClient, LoopTest
<1>3. CASE Break \/ Teardown \/ Exit
  BY <1>3 DEF Break, Teardown, Exit
<1>4. CASE SetResolution \/ SetFrequency \/ SigInt \/ PeerCloses
  <2>1. UNCHANGED <<pc, open, stream>>
    BY <1>4 DEF SetResolution, SetFrequency, SigInt, PeerCloses, mainVars
  <2> QED BY <2>1
<1>5. CASE ReceiveCommand \/ ReceiveEnd
  BY <1>5 DEF ReceiveCommand, ReceiveEnd
<1>6. CASE StartStreamer
  BY <1>0, <1>6 DEF StartStreamer, Alive, StreamRecord
<1>7. ASSUME NEW t \in Streamers, Streamer(t) PROVE SessionInv'
  <2>1. UNCHANGED <<pc, open>>
    BY <1>7 DEF Streamer, mainVars
  <2>2. \A u \in Streamers \ {t} : stream'[u] = stream[u]
    BY <1>0, <1>7 DEF Streamer, ReadSocket, RaiseRunning, WhileRunning,
       TakeUpdates, SkipFrame, SendFrame, BaseIsEmpty, WritePart, WriteFails
  <2>3. stream'[t].pc # "send" => stream'[t].part = 1
    <3>1. CASE ReadSocket(t) \/ RaiseRunning(t) \/ SkipFrame(t) \/ SendFrame(t) \/ BaseIsEmpty(t)
      BY <1>0, <3>1 DEF ReadSocket, RaiseRunning, SkipFrame, SendFrame,
         BaseIsEmpty, StreamRecord
    <3>2. CASE WhileRunning(t) \/ TakeUpdates(t)
      BY <1>0, <3>2 DEF WhileRunning, TakeUpdates, StreamRecord, Idle
    <3>3. CASE WritePart(t) \/ WriteFails(t)
      BY <1>0, <3>3 DEF WritePart, WriteFails, StreamRecord
    <3> QED BY <1>7, <3>1, <3>2, <3>3 DEF Streamer
  <2> QED BY <2>1, <2>2, <2>3
<1>8. CASE UNCHANGED vars
  BY <1>8 DEF vars, mainVars
<1> QED
  BY <1>1, <1>2, <1>3, <1>4, <1>5, <1>6, <1>7, <1>8 DEF Next, Main, Receiver

(* No resolution that is stored or used is wider than the device.          *)
LEMMA FitsDeviceStep == TypeOK /\ FitsDevice /\ [Next]_vars => FitsDevice'
<1> SUFFICES ASSUME TypeOK, FitsDevice, [Next]_vars PROVE FitsDevice'
  OBVIOUS
<1>0. stream \in [Streamers -> StreamRecord] /\ info \in InfoRecord
  BY DEF TypeOK, StreamRecord, InfoRecord
<1>1. CASE SetResolution
  <2>1. PICK r \in Resolutions :
            info' = [info EXCEPT !.res = StoredRes(r[1], r[2]), !.newRes = TRUE]
    BY <1>1 DEF SetResolution
  <2>2. r[1] \in Nat /\ r[2] \in Nat /\ info.res \in Nat \X Nat
    BY <1>0, ResolutionsAssumption DEF InfoRecord
  <2>3. StoredRes(r[1], r[2])[1] <= DeviceWidth
    BY <2>2, StoredResFits DEF FitsDevice
  <2>4. info'.res = StoredRes(r[1], r[2])
    BY <1>0, <2>1 DEF InfoRecord
  <2> QED BY <1>1, <2>3, <2>4 DEF SetResolution, FitsDevice
<1>2. CASE info'.res = info.res /\ (\A t \in Streamers : stream'[t].res \in {stream[t].res, Garbage, info.res})
  BY <1>2 DEF FitsDevice
<1>3. ASSUME NEW t \in Streamers, Streamer(t)
      PROVE  info'.res = info.res /\ \A u \in Streamers : stream'[u].res \in {stream[u].res, Garbage, info.res}
  <2>1. CASE TakeUpdates(t)
    BY <1>0, <2>1 DEF TakeUpdates, StreamRecord, InfoRecord
  <2>2. CASE WhileRunning(t)
    BY <1>0, <2>2 DEF WhileRunning, StreamRecord, Idle
  <2>3. CASE ReadSocket(t) \/ RaiseRunning(t) \/ SkipFrame(t) \/ SendFrame(t) \/ BaseIsEmpty(t)
    BY <1>0, <2>3 DEF ReadSocket, RaiseRunning, SkipFrame, SendFrame, BaseIsEmpty,
       StreamRecord
  <2>4. CASE WritePart(t) \/ WriteFails(t)
    BY <1>0, <2>4 DEF WritePart, WriteFails, StreamRecord
  <2> QED BY <1>3, <2>1, <2>2, <2>3, <2>4 DEF Streamer
<1>4. CASE SetFrequency
  BY <1>0, <1>2, <1>4 DEF SetFrequency, InfoRecord
<1>5. CASE StartStreamer
  BY <1>0, <1>2, <1>5 DEF StartStreamer, InfoRecord, StreamRecord
<1>6. CASE UNCHANGED <<info, stream>>
  BY <1>6 DEF FitsDevice
<1>7. CASE Accept \/ AcceptError \/ CheckAndUpdate \/ SendAuthKey \/ AuthOk \/ AuthFailed \/ CloseClient
  BY <1>6, <1>7 DEF Accept, AcceptError, CheckAndUpdate, SendAuthKey, AuthOk,
     AuthFailed, CloseClient, streamVars
<1>8. CASE LoopTest \/ Break \/ Teardown \/ Exit \/ ReceiveCommand \/ ReceiveEnd \/ SigInt \/ PeerCloses \/ UNCHANGED vars
  BY <1>6, <1>8 DEF LoopTest, Break, Teardown, Exit, ReceiveCommand, ReceiveEnd,
     SigInt, PeerCloses, streamVars, vars
<1> QED
  BY <1>1, <1>2, <1>3, <1>4, <1>5, <1>7, <1>8 DEF Next, Main, Receiver

(* Once halted, the loop is entered again only with the socket closed.     *)
HaltInv == halt /\ pc = "accept" => ~listening

LEMMA HaltInvStep == TypeOK /\ HaltInv /\ [Next]_vars => HaltInv'
<1> SUFFICES ASSUME TypeOK, HaltInv, [Next]_vars PROVE HaltInv'
  OBVIOUS
<1> USE DEF HaltInv, Goto
<1>1. CASE Main
  BY <1>1 DEF Main, Accept, AcceptError, CheckAndUpdate, SendAuthKey, AuthOk,
     AuthFailed, StartStreamer, CloseClient, LoopTest, Break, Teardown, Exit
<1>2. CASE Receiver
  BY <1>2 DEF Receiver, SetResolution, SetFrequency, ReceiveCommand, ReceiveEnd,
     mainVars
<1>3. CASE SigInt \/ PeerCloses \/ UNCHANGED vars \/ \E t \in Streamers : Streamer(t)
  BY <1>3 DEF SigInt, PeerCloses, Streamer, vars, mainVars
<1> QED BY <1>1, <1>2, <1>3 DEF Next

-----------------------------------------------------------------------------
(* The inductive invariant of a clean run.                                 *)
IInv == TypeOK /\ SessionInv /\ CleanInv /\ CleanStream /\ CleanFraming /\ CleanSettings

(* What a step of streamer t does to the streamers.                        *)
LEMMA StreamerAlone ==
    ASSUME stream \in [Streamers -> StreamRecord], NEW t \in Streamers, Streamer(t)
    PROVE  /\ Alive(t)
           /\ \A u \in Streamers \ {t} : stream'[u] = stream[u]
           /\ UNCHANGED <<pc, clientfd, open, gone, cur, clean>>
<1> USE DEF Streamer, mainVars, ReadSocket, RaiseRunning, WhileRunning, TakeUpdates, SkipFrame, SendFrame, BaseIsEmpty, WritePart, WriteFails
<1>1. Alive(t)
  BY DEF Alive
<1>2. \A u \in Streamers \ {t} : stream'[u] = stream[u]
  OBVIOUS
<1>3. UNCHANGED <<pc, clientfd, open, gone, cur, clean>>
  BY DEF history
<1> QED BY <1>1, <1>2, <1>3

(* A clean run stays clean when its steps are those of a streamer.         *)
LEMMA CleanStreamerStep ==
    ASSUME IInv, NEW t \in Streamers, Streamer(t)
    PROVE  CleanInv' /\ CleanStream' /\ CleanFraming'
<1>0. stream \in [Streamers -> StreamRecord]
  BY DEF IInv, TypeOK, StreamRecord
<1>1. Alive(t) /\ (\A u \in Streamers \ {t} : stream'[u] = stream[u])
      /\ UNCHANGED <<pc, clientfd, open, gone, cur, clean>>
  BY <1>0, StreamerAlone
<1>2. CASE ~clean
  BY <1>1, <1>2 DEF CleanInv, CleanStream, CleanFraming
<1>3. CASE clean
  <2>1. \A u \in Streamers : Alive(u) => u = t
    BY <1>1, <1>3 DEF IInv, CleanInv
  <2>2. StreamerInv(t)
    BY <1>1, <1>3 DEF IInv, CleanInv
  <2>3. \A u \in Streamers : Alive(u)' => u = t
    BY <1>1, <2>1 DEF Alive
  <2>4. pc = "receiver" /\ ~gone /\ ~blank =>
            cur = t /\ (running \/ stream[t].pc \in {"created", "begin"})
    BY <1>3, <2>1 DEF IInv, CleanInv, CleanStream
  <2>5. stream' \in [Streamers -> StreamRecord]
    BY StreamTyped DEF IInv
  <2>6. stream[t].pc = "send" /\ OnConnection(t) => pc \in Joining
    BY <2>2 DEF OnConnection, StreamerInv, IInv, SessionInv
  <2>7. stream[t].pc = "send" /\ pc \in Joining /\ ~gone =>
            OnConnection(t) /\ rx = BeforePart(t, stream[t].part)
    BY <2>2 DEF OnConnection, StreamerInv, IInv, SessionInv
  <2> DEFINE Kept ==
           /\ Alive(t)' => (StreamerInv(t))'
           /\ (pc = "receiver" /\ ~gone /\ ~blank)' =>
                 Alive(t)' /\ (running' \/ stream'[t].pc \in {"created", "begin"})
           /\ ~blank' => ~blank
           /\ ~torn'
  <2>8. ASSUME WritePart(t) PROVE Kept
    <3> DEFINE k == stream[t].part
    <3>1. pc \in Joining
      BY <2>6, <2>8 DEF WritePart
    <3>2. stream'[t].pc \in {"test", "send"} /\ stream'[t].socket = stream[t].socket
          /\ stream'[t].part = (IF k = FrameParts THEN 1 ELSE k + 1)
      BY <1>0, <2>8 DEF WritePart, StreamRecord
    <3>3. k \in 1..FrameParts
      BY <1>0 DEF StreamRecord
    <3>4. AfterPart(t, k) = BeforePart(t, stream'[t].part)
      BY <3>2, <3>3, FramePartsAssumption DEF AfterPart, BeforePart, Boundary
    <3>5. ~gone => rx' = BeforePart(t, stream'[t].part)
      BY <1>3, <2>8, <3>4 DEF WritePart, Deliver
    <3>6. ~torn'
      BY <1>3, <2>7, <2>8, <3>1 DEF WritePart, Deliver, IInv, CleanFraming
    <3>7. stream[t].socket = clientfd /\ UNCHANGED <<running, blank>>
      BY <2>8 DEF WritePart, OnConnection
    <3>8. (StreamerInv(t))'
      BY <1>1, <2>2, <3>2, <3>5, <3>7 DEF StreamerInv, BeforePart, Boundary
    <3>9. Alive(t)' /\ stream[t].pc = "send"
      BY <2>8, <3>2 DEF Alive, WritePart
    <3> QED BY <1>1, <2>4, <3>6, <3>7, <3>8, <3>9
  <2>9. ASSUME WriteFails(t) PROVE Kept
    <3>1. stream[t].pc = "send" /\ stream'[t].pc = "test" /\ stream'[t].socket = stream[t].socket
          /\ stream'[t].part = 1
      BY <1>0, <2>9 DEF WriteFails, StreamRecord
    <3>2. pc \in Joining => gone
      BY <2>7, <2>9, <3>1 DEF WriteFails
    <3>3. UNCHANGED <<torn, blank>>
      BY <2>9 DEF WriteFails, history
    <3>4. (StreamerInv(t))'
      BY <1>1, <2>2, <3>2 DEF StreamerInv
    <3> QED BY <1>1, <3>2, <3>3, <3>4, <1>3 DEF Joining, IInv, CleanFraming
  <2>10. ASSUME WhileRunning(t) /\ ~running PROVE Kept
    <3>1. ~Alive(t)' /\ UNCHANGED <<running, blank, torn>>
      BY <1>0, <2>10 DEF WhileRunning, Alive, Idle, history
    <3>2. ~(pc = "receiver" /\ ~gone /\ ~blank)
      BY <2>4, <2>10 DEF WhileRunning
    <3> QED BY <1>1, <1>3, <3>1, <3>2 DEF IInv, CleanFraming
  <2>11. ASSUME BaseIsEmpty(t) PROVE Kept
    <3>1. stream[t].pc = "shot" /\ stream'[t].pc = "test" /\ stream'[t].socket = stream[t].socket
          /\ stream'[t].part = stream[t].part
      BY <1>0, <2>11 DEF BaseIsEmpty, StreamRecord
    <3>2. blank' /\ UNCHANGED <<rx, torn>>
      BY <1>3, <2>11 DEF BaseIsEmpty
    <3>3. (StreamerInv(t))'
      BY <1>1, <2>2, <3>1, <3>2 DEF StreamerInv, BeforePart, Boundary
    <3> QED BY <3>2, <3>3, <1>3 DEF IInv, CleanFraming
  <2>12. ASSUME \/ ReadSocket(t) \/ RaiseRunning(t) \/ (WhileRunning(t) /\ running)
                \/ TakeUpdates(t) \/ SkipFrame(t) \/ SendFrame(t)
         PROVE  Kept
    <3>1. stream'[t].part = stream[t].part /\ stream'[t].socket \in {stream[t].socket, clientfd}
          /\ stream'[t].pc # "created"
          /\ (stream[t].pc = "created" => stream'[t].socket = clientfd)
          /\ (stream[t].pc \in {"created", "begin"} => running' \/ stream'[t].pc \in {"created", "begin"})
          /\ Alive(t)'
      BY <1>0, <2>12 DEF ReadSocket, RaiseRunning, WhileRunning, TakeUpdates,
         SkipFrame, SendFrame, StreamRecord, Alive
    <3>2. UNCHANGED <<rx, torn, blank>> /\ (running => running')
      BY <2>12 DEF ReadSocket, RaiseRunning, WhileRunning, TakeUpdates, SkipFrame,
         SendFrame, history
    <3>3. (StreamerInv(t))'
      BY <1>1, <2>2, <3>1, <3>2 DEF StreamerInv, BeforePart, Boundary
    <3> QED BY <1>1, <1>3, <2>4, <3>1, <3>2, <3>3 DEF IInv, CleanFraming
  <2>13. Kept
    BY <2>8, <2>9, <2>10, <2>11, <2>12 DEF Streamer
  <2>14. CleanInv'
    <3>1. pc' \notin Unstarted
      BY <1>1, <2>2 DEF StreamerInv
    <3>2. (pc = "receiver" /\ ~gone /\ ~blank)' => cur' = t
      BY <1>1, <2>4, <2>13
    <3> QED BY <2>3, <2>13, <3>1, <3>2 DEF CleanInv, Unstarted
  <2>15. CleanStream' /\ CleanFraming'
    BY <1>1, <2>4, <2>13 DEF CleanStream, CleanFraming
  <2> QED BY <2>14, <2>15
<1> QED BY <1>2, <1>3

(* Nor does a step of the main thread, the receiver, SIGINT or the peer.   *)
LEMMA CleanMainStep ==
    ASSUME IInv, Main \/ Receiver \/ SigInt \/ PeerCloses
    PROVE  CleanInv' /\ CleanStream' /\ CleanFraming'
<1>0. stream \in [Streamers -> StreamRecord]
  BY DEF IInv, TypeOK, StreamRecord
<1> USE DEF IInv, CleanInv, CleanStream, CleanFraming, StreamerInv, Alive, Unstarted, Joining, Goto, streamVars, history
<1>1. CASE Accept
  BY <1>1 DEF Accept
<1>2. CASE SendAuthKey
  <2>1. clean => ~torn'
    BY <1>2 DEF SendAuthKey, Deliver
  <2>2. clean /\ ~gone => rx' = Boundary
    BY <1>2 DEF SendAuthKey, Deliver
  <2> QED BY <1>2, <2>1, <2>2 DEF SendAuthKey
<1>3. CASE StartStreamer
  <2>1. PICK t \in Streamers : /\ ~Alive(t) /\ cur' = t
                                /\ stream' = [stream EXCEPT ![t].pc = "created"]
    BY <1>3 DEF StartStreamer
  <2>2. stream'[t].pc = "created" /\ stream'[t].part = 1
        /\ \A u \in Streamers \ {t} : stream'[u] = stream[u]
    BY <1>0, <2>1 DEF StreamRecord, SessionInv
  <2>3. clean => \A u \in Streamers : ~Alive(u)
    BY <1>3 DEF StartStreamer
  <2>4. BeforePart(t, 1) = Boundary
    BY DEF BeforePart
  <2> QED BY <1>3, <2>1, <2>2, <2>3, <2>4 DEF StartStreamer
<1>4. CASE AcceptError \/ LoopTest \/ Break
  BY <1>4 DEF AcceptError, LoopTest, Break, SessionInv
<1>5. CASE CheckAndUpdate \/ AuthOk \/ AuthFailed
  BY <1>5 DEF CheckAndUpdate, AuthOk, AuthFailed
<1>6. CASE CloseClient \/ Teardown \/ Exit
  BY <1>6 DEF CloseClient, Teardown, Exit
<1>7. CASE ReceiveCommand \/ ReceiveEnd
  BY <1>7 DEF ReceiveCommand, ReceiveEnd, BeforePart
<1>8. CASE SetResolution \/ SetFrequency \/ SigInt
  <2>1. UNCHANGED <<pc, clientfd, open, gone, running, stream, cur, rx, torn, blank, clean>>
    BY <1>8 DEF SetResolution, SetFrequency, SigInt, mainVars
  <2> QED BY <2>1 DEF BeforePart
<1>9. CASE PeerCloses
  BY <1>9 DEF PeerCloses, mainVars
<1> QED
  BY <1>1, <1>2, <1>3, <1>4, <1>5, <1>6, <1>7, <1>8, <1>9 DEF Main, Receiver

(* A streamer of a clean run works with the settings stored last.          *)
LEMMA CleanSettingsStep ==
    ASSUME IInv, [Next]_vars
    PROVE  CleanSettings'
<1>0. stream \in [Streamers -> StreamRecord] /\ info \in InfoRecord
  BY DEF IInv, TypeOK, StreamRecord, InfoRecord
<1> USE DEF CleanSettings, Alive, InFrame
<1>1. ASSUME NEW t \in Streamers, Streamer(t) PROVE CleanSettings'
  <2>1. Alive(t) /\ (\A u \in Streamers \ {t} : stream'[u] = stream[u]) /\ clean' = clean
    BY <1>0, <1>1, StreamerAlone
  <2>2. CASE TakeUpdates(t)
    <3>1. clean => \A u \in Streamers : Alive(u) => u = t
      BY <2>1 DEF IInv, CleanInv
    <3>2. info'.res = info.res /\ info'.freq = info.freq
      BY <1>0, <2>2 DEF TakeUpdates, InfoRecord
    <3>3. stream'[t].res = (IF info.newRes THEN info.res ELSE stream[t].res)
          /\ stream'[t].freq = (IF info.newFreq THEN info.freq ELSE stream[t].freq)
      BY <1>0, <2>2 DEF TakeUpdates, StreamRecord
    <3>4. clean => stream'[t].res = info.res /\ stream'[t].freq = info.freq
      BY <2>1, <3>3 DEF IInv
    <3>5. info.res # Garbage /\ info.freq # Garbage
      BY <1>0, GarbageAssumption DEF InfoRecord
    <3> QED BY <2>1, <3>1, <3>2, <3>4, <3>5
  <2>3. CASE ~TakeUpdates(t)
    <3>1. info' = info
      BY <1>1, <2>3 DEF Streamer, ReadSocket, RaiseRunning, WhileRunning,
         SkipFrame, SendFrame, BaseIsEmpty, WritePart, WriteFails
    <3>2. stream'[t].pc = "none" \/
            /\ stream'[t].res = stream[t].res /\ stream'[t].freq = stream[t].freq
            /\ stream'[t].pc \in {"shot", "send"} => stream[t].pc \in {"shot", "send"}
      <4>1. CASE ReadSocket(t) \/ RaiseRunning(t) \/ SkipFrame(t) \/ SendFrame(t) \/ BaseIsEmpty(t)
        BY <1>0, <4>1 DEF ReadSocket, RaiseRunning, SkipFrame, SendFrame,
           BaseIsEmpty, StreamRecord
      <4>2. CASE WhileRunning(t)
        BY <1>0, <4>2 DEF WhileRunning, StreamRecord, Idle
      <4>3. CASE WritePart(t) \/ WriteFails(t)
        BY <1>0, <4>3 DEF WritePart, WriteFails, StreamRecord
      <4> QED BY <1>1, <2>3, <4>1, <4>2, <4>3 DEF Streamer
    <3> QED BY <2>1, <3>1, <3>2 DEF IInv
  <2> QED BY <2>2, <2>3
<1>2. CASE Accept
  BY <1>2 DEF Accept, streamVars
<1>3. CASE StartStreamer
  <2>1. info'.newRes /\ info'.newFreq
    BY <1>0, <1>3 DEF StartStreamer, InfoRecord
  <2>2. PICK t \in Streamers : stream' = [stream EXCEPT ![t].pc = "created"]
    BY <1>3 DEF StartStreamer
  <2>3. stream'[t].pc = "created" /\ \A u \in Streamers \ {t} : stream'[u] = stream[u]
    BY <1>0, <2>2 DEF StreamRecord
  <2> QED BY <1>3, <2>1, <2>3 DEF StartStreamer, IInv
<1>4. CASE SetResolution
  BY <1>0, <1>4 DEF SetResolution, InfoRecord, IInv, history
<1>5. CASE SetFrequency
  BY <1>0, <1>5 DEF SetFrequency, InfoRecord, IInv, history
<1>6. CASE UNCHANGED <<info, stream, clean>>
  BY <1>6 DEF IInv
<1>7. CASE AcceptError \/ CheckAndUpdate \/ SendAuthKey \/ AuthOk \/ AuthFailed \/ CloseClient \/ LoopTest
  BY <1>6, <1>7 DEF AcceptError, CheckAndUpdate, SendAuthKey, AuthOk, AuthFailed,
     CloseClient, LoopTest, streamVars, history
<1>8. CASE Break \/ Teardown \/ Exit \/ ReceiveCommand \/ ReceiveEnd \/ SigInt \/ PeerCloses \/ UNCHANGED vars
  BY <1>6, <1>8 DEF Break, Teardown, Exit, ReceiveCommand, ReceiveEnd, SigInt,
     PeerCloses, streamVars, vars, history
<1> QED
  BY <1>1, <1>2, <1>3, <1>4, <1>5, <1>7, <1>8 DEF Next, Main, Receiver

LEMMA SessionInit == Init => IInv
<1> SUFFICES ASSUME Init PROVE IInv
  OBVIOUS
<1>1. \A t \in Streamers : stream[t].pc = "none" /\ stream[t].part = 1
  BY DEF Init, Idle
<1> QED
  BY <1>1, SessionTypeInit DEF Init, IInv, SessionInv, CleanInv, CleanStream,
     CleanFraming, CleanSettings, Alive, Unstarted, Joining

LEMMA SessionStep == IInv /\ [Next]_vars => IInv'
<1> SUFFICES ASSUME IInv, [Next]_vars PROVE IInv'
  OBVIOUS
<1>1. TypeOK' /\ SessionInv' /\ CleanSettings'
  BY SessionTypeStep, SessionInvStep, CleanSettingsStep DEF IInv
<1>2. CASE UNCHANGED vars
  BY <1>1, <1>2 DEF vars, mainVars, streamVars, history, IInv, CleanInv,
     CleanStream, CleanFraming, StreamerInv, Alive, BeforePart
<1>3. CASE Next
  BY <1>1, <1>3, CleanMainStep, CleanStreamerStep DEF Next, IInv
<1> QED BY <1>2, <1>3

(* As long as no streamer outlives its session, frames arrive whole.       *)
THEOREM FramesWhole == Spec => []CleanFraming
<1>1. IInv => CleanFraming
  BY DEF IInv
<1> QED BY <1>1, SessionInit, SessionStep, PTL DEF Spec

(* As long as no streamer outlives its session, a streamer works with the  *)
(* settings stored last and never with a variable it has not set.          *)
THEOREM SettingsCurrent == Spec => []CleanSettings
<1>1. IInv => CleanSettings
  BY DEF IInv
<1> QED BY <1>1, SessionInit, SessionStep, PTL DEF Spec

(* As long as no streamer outlives its session, a connected client has a   *)
(* streamer.                                                               *)
THEOREM ClientStreamed == Spec => []CleanStream
<1>1. IInv => CleanStream
  BY DEF IInv
<1> QED BY <1>1, SessionInit, SessionStep, PTL DEF Spec

(* set_resolution never lets a screenshot be wider than the device.        *)
THEOREM NeverTooWide == Spec => []FitsDevice
<1>1. Init => FitsDevice
  BY DeviceAssumption DEF Init, FitsDevice, Idle
<1>2. TypeOK /\ FitsDevice /\ [Next]_vars => FitsDevice'
  BY FitsDeviceStep
<1> QED BY <1>1, <1>2, SessionTypeInit, SessionTypeStep, PTL DEF Spec

(* A backend that was told to halt accepts no further client.              *)
THEOREM HaltedStaysShut == Spec => NoAcceptAfterHalt
<1>1. Init => HaltInv
  BY DEF Init, HaltInv
<1>2. HaltInv /\ [Next]_vars => [halt /\ pc = "accept" => pc' # "update"]_vars
  <2> SUFFICES ASSUME HaltInv, Next, halt, pc = "accept", pc' = "update" PROVE FALSE
    OBVIOUS
  <2>1. CASE Main
    BY <2>1 DEF Main, Accept, AcceptError, CheckAndUpdate, SendAuthKey, AuthOk,
       AuthFailed, StartStreamer, CloseClient, LoopTest, Break, Teardown, Exit,
       Goto, HaltInv
  <2>2. CASE ~Main
    BY <2>2 DEF Next, Receiver, SetResolution, SetFrequency, ReceiveCommand,
       ReceiveEnd, SigInt, PeerCloses, Streamer, mainVars, Goto
  <2> QED BY <2>1, <2>2
<1> QED BY <1>1, <1>2, HaltInvStep, SessionTypeInit, SessionTypeStep, PTL DEF Spec,
           NoAcceptAfterHalt
=============================================================================
