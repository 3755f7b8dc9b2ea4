-------------------------- MODULE ImageStreamProofs --------------------------
(* Proofs about ImageStream: its types, and what a stopped worker still    *)
(* sends.                                                                  *)
EXTENDS ImageStream, TLAPS

USE NoWorkerAssumption, ImageCapacityAssumption

-----------------------------------------------------------------------------
(* Types.                                                                  *)
LEMMA StreamTypeInit == Init => TypeOK
BY DEF Init, TypeOK, WorkerPC

LEMMA StopTyped ==
    ASSUME TypeOK, NEW h \in Handlers
    PROVE  /\ StopSender(h) \in [Workers -> BOOLEAN]
           /\ StopSeen(h) \in [Workers -> BOOLEAN]
BY DEF TypeOK, StopSender, StopSeen, Begun

LEMMA StartTyped ==
    ASSUME TypeOK, NEW h \in Handlers, StartSender(h),
           live' \in [Handlers -> BOOLEAN], images' = images
    PROVE  TypeOK'
<1>1. PICK w \in Workers :
        /\ sender' = [sender EXCEPT ![h] = w]
        /\ pc' = [pc EXCEPT ![w] = "created"]
        /\ running' = [StopSender(h) EXCEPT ![w] = FALSE]
        /\ owner' = [owner EXCEPT ![w] = h]
        /\ stopped' = [StopSeen(h) EXCEPT ![w] = FALSE]
        /\ afterStop' = [afterStop EXCEPT ![w] = 0]
  BY DEF StartSender
<1> QED BY <1>1, StopTyped DEF TypeOK, WorkerPC

LEMMA StreamTypeStep == TypeOK /\ [Next]_vars => TypeOK'
<1> SUFFICES ASSUME TypeOK, [Next]_vars PROVE TypeOK'
  OBVIOUS
<1>1. CASE AddImage
  BY <1>1 DEF AddImage, TypeOK
<1>2. ASSUME NEW h \in Handlers, Construct(h) PROVE TypeOK'
  BY <1>2, StartTyped DEF Construct, TypeOK
<1>3. ASSUME NEW h \in Handlers, Start(h) PROVE TypeOK'
  BY <1>3, StartTyped DEF Start, TypeOK
<1>4. ASSUME NEW h \in Handlers, Stop(h) PROVE TypeOK'
  BY <1>4, StopTyped DEF Stop, TypeOK
<1>5. ASSUME NEW h \in Handlers, OnLeftUser(h) PROVE TypeOK'
  BY <1>5, StopTyped DEF OnLeftUser, TypeOK
<1>6. ASSUME NEW w \in Workers, Run(w) PROVE TypeOK'
  BY <1>6 DEF Run, TypeOK, WorkerPC
<1>7. ASSUME NEW w \in Workers, Loop(w) PROVE TypeOK'
  BY <1>7 DEF Loop, TypeOK, WorkerPC
<1>8. ASSUME NEW w \in Workers, PollImage(w) PROVE TypeOK'
  BY <1>8 DEF PollImage, TypeOK, WorkerPC
<1>9. ASSUME NEW w \in Workers, PollTimeout(w) PROVE TypeOK'
  BY <1>9 DEF PollTimeout, TypeOK, WorkerPC
<1>10. ASSUME NEW w \in Workers, HandleImage(w) PROVE TypeOK'
  <2>1. pc' \in [Workers -> WorkerPC] /\ running' \in [Workers -> BOOLEAN]
    BY <1>10 DEF HandleImage, TypeOK, WorkerPC
  <2>2. afterStop' \in [Workers -> Nat]
    <3>1. afterStop[w] \in Nat /\ afterStop[w] + 1 \in Nat
      BY DEF TypeOK
    <3> QED BY <1>10, <3>1 DEF HandleImage, TypeOK
  <2> QED BY <1>10, <2>1, <2>2 DEF HandleImage, TypeOK
<1>11. CASE UNCHANGED vars
  BY <1>11 DEF vars, TypeOK
<1> QED BY <1>1, <1>2, <1>3, <1>4, <1>5, <1>6, <1>7, <1>8, <1>9, <1>10, <1>11
        DEF Next, WorkerStep

(* Every variable keeps its type; imageQueue never holds more images than  *)
(* it has room for, whatever the senders and the backend's channel do.     *)
THEOREM StreamTypeCorrect == Spec => []TypeOK
BY StreamTypeInit, StreamTypeStep, PTL DEF Spec

-----------------------------------------------------------------------------
(* Stopping.                                                               *)
LEMMA StopInit == Init => StopInv
BY DEF Init, StopInv

(* A stop of the handler's worker keeps the invariant of every worker.     *)
LEMMA StopKept ==
    ASSUME TypeOK, StopInv, NEW h \in Handlers, NEW w \in Workers
    PROVE  /\ StopSeen(h)[w] => ~StopSender(h)[w] /\ (Begun(w) \/ pc[w] = "done")
           /\ stopped[w] => StopSeen(h)[w]
BY DEF TypeOK, StopInv, StopSeen, StopSender

LEMMA StartKeeps ==
    ASSUME TypeOK, StopInv, NEW h \in Handlers, StartSender(h)
    PROVE  StopInv'
<1>1. PICK v \in Workers :
        /\ pc' = [pc EXCEPT ![v] = "created"]
        /\ running' = [StopSender(h) EXCEPT ![v] = FALSE]
        /\ stopped' = [StopSeen(h) EXCEPT ![v] = FALSE]
        /\ afterStop' = [afterStop EXCEPT ![v] = 0]
  BY DEF StartSender
<1>2. ASSUME NEW w \in Workers, w # v
      PROVE  /\ pc'[w] = pc[w] /\ running'[w] = StopSender(h)[w]
             /\ stopped'[w] = StopSeen(h)[w] /\ afterStop'[w] = afterStop[w]
  BY <1>1, <1>2, StopTyped DEF TypeOK
<1>3. ~stopped'[v] /\ afterStop'[v] = 0
  BY <1>1, StopTyped DEF TypeOK
<1> QED BY <1>2, <1>3, StopKept DEF StopInv, Begun

LEMMA StopStep == TypeOK /\ StopInv /\ [Next]_vars => StopInv'
<1> SUFFICES ASSUME TypeOK, StopInv, [Next]_vars PROVE StopInv'
  OBVIOUS
<1>1. CASE AddImage
  BY <1>1 DEF AddImage, StopInv, Begun
<1>2. ASSUME NEW h \in Handlers, Construct(h) \/ Start(h) PROVE StopInv'
  BY <1>2, StartKeeps DEF Construct, Start
<1>3. ASSUME NEW h \in Handlers, Stop(h) \/ OnLeftUser(h) PROVE StopInv'
  <2>1. /\ running' = StopSender(h) /\ stopped' = StopSeen(h)
        /\ pc' = pc /\ afterStop' = afterStop
    BY <1>3 DEF Stop, OnLeftUser
  <2> QED BY <2>1, StopKept DEF StopInv, Begun
<1>4. ASSUME NEW w \in Workers, Run(w) PROVE StopInv'
  BY <1>4 DEF Run, StopInv, Begun, TypeOK
<1>5. ASSUME NEW w \in Workers, Loop(w) PROVE StopInv'
  BY <1>5 DEF Loop, StopInv, Begun, TypeOK
<1>6. ASSUME NEW w \in Workers, PollImage(w) PROVE StopInv'
  BY <1>6 DEF PollImage, StopInv, Begun, TypeOK
<1>7. ASSUME NEW w \in Workers, PollTimeout(w) PROVE StopInv'
  BY <1>7 DEF PollTimeout, StopInv, Begun, TypeOK
<1>8. ASSUME NEW w \in Workers, HandleImage(w) PROVE StopInv'
  BY <1>8 DEF HandleImage, StopInv, Begun, TypeOK
<1>9. CASE UNCHANGED vars
  BY <1>9 DEF vars, StopInv, Begun
<1> QED BY <1>1, <1>2, <1>3, <1>4, <1>5, <1>6, <1>7, <1>8, <1>9 DEF Next, WorkerStep

(* A worker that was stopped when its thread was already in run() sends at *)
(* most the one image it was waiting for or holding, for any number of     *)
(* visitors and workers that share the queue.                              *)
THEOREM OneImageAfterStop == Spec => []AtMostOneAfterStop
<1>1. TypeOK /\ StopInv => AtMostOneAfterStop
  BY DEF TypeOK, StopInv, AtMostOneAfterStop
<1> QED BY <1>1, StreamTypeInit, StreamTypeStep, StopInit, StopStep, PTL DEF Spec
=============================================================================
