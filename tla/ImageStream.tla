----------------------------- MODULE ImageStream -----------------------------
(***************************************************************************)
(* The threads that move screen images from the backend to the browsers:   *)
(* MessageDispatcher.imageQueue, filled by the backend's channel, and the  *)
(* ImageSendWorkers that ScreencapHandler starts and stops.                *)
(*                                                                         *)
(* A worker is stopped by clearing its field `running`, which run() sets:  *)
(* a stop() that comes before the new thread has got to run() is undone.   *)
(* Identities are recycled: that of a worker once its thread has ended,    *)
(* that of a handler once its visitor has left and its threads have ended. *)
(***************************************************************************)
EXTENDS Naturals, Sequences, FiniteSets

CONSTANTS
    Handlers,       \* ScreencapHandlers (a visitor has one or two)
    Workers,        \* identities of ImageSendWorkers
    NoWorker,       \* the null reference
    ImageCapacity   \* length of imageQueue (2 in the code)

ASSUME NoWorkerAssumption == NoWorker \notin Workers
ASSUME ImageCapacityAssumption == ImageCapacity \in Nat \ {0}

VARIABLES
    sender,         \* the worker each handler started last
    live,           \* the handler's visitor is connected
    pc,             \* where the thread of each worker is
    running,        \* ImageSendWorker.running
    owner,          \* the handler a worker belongs to
    images,         \* number of images in imageQueue
    stopped,        \* history: stop() was called after run() had begun
    afterStop       \* history: images sent since then

vars == <<sender, live, pc, running, owner, images, stopped, afterStop>>

WorkerPC == {"none", "created", "loop", "poll", "handle", "done"}

Init ==
    /\ sender = [h \in Handlers |-> NoWorker]
    /\ live = [h \in Handlers |-> FALSE]
    /\ pc = [w \in Workers |-> "none"]
    /\ running = [w \in Workers |-> FALSE]
    /\ owner \in [Workers -> Handlers]
    /\ images = 0
    /\ stopped = [w \in Workers |-> FALSE]
    /\ afterStop = [w \in Workers |-> 0]

Begun(w) == pc[w] \in {"loop", "poll", "handle"}

(* stopImageSenderStream: the handler's worker, if any, is told to stop.   *)
StopSender(h) ==
    [w \in Workers |-> IF w = sender[h] THEN FALSE ELSE running[w]]

StopSeen(h) ==
    [w \in Workers |-> stopped[w] \/ (w = sender[h] /\ Begun(w))]

(* startImageSenderStream: stop the old worker, start the thread of a new  *)
(* one.                                                                    *)
StartSender(h) ==
    \E w \in Workers :
        /\ pc[w] \in {"none", "done"} /\ \A g \in Handlers : sender[g] # w
        /\ sender' = [sender EXCEPT ![h] = w]
        /\ pc' = [pc EXCEPT ![w] = "created"]
        /\ running' = [StopSender(h) EXCEPT ![w] = FALSE]
        /\ owner' = [owner EXCEPT ![w] = h]
        /\ stopped' = [StopSeen(h) EXCEPT ![w] = FALSE]
        /\ afterStop' = [afterStop EXCEPT ![w] = 0]

ThreadsEnded(h) == \A w \in Workers : owner[w] = h => pc[w] \in {"none", "done"}

(* The constructor of ScreencapHandler.                                    *)
Construct(h) ==
    /\ ~live[h] /\ ThreadsEnded(h)
    /\ live' = [live EXCEPT ![h] = TRUE]
    /\ StartSender(h)
    /\ UNCHANGED images

(* SCREEN_START.                                                           *)
Start(h) ==
    /\ live[h]
    /\ StartSender(h)
    /\ UNCHANGED <<live, images>>

(* SCREEN_STOP.                                                            *)
Stop(h) ==
    /\ live[h]
    /\ running' = StopSender(h) /\ stopped' = StopSeen(h)
    /\ UNCHANGED <<sender, live, pc, owner, images, afterStop>>

(* onLeftUser, onLeftAllUsers.                                             *)
OnLeftUser(h) ==
    /\ live[h]
    /\ live' = [live EXCEPT ![h] = FALSE]
    /\ running' = StopSender(h) /\ stopped' = StopSeen(h)
    /\ UNCHANGED <<sender, pc, owner, images, afterStop>>

(* run() begins.                                                           *)
Run(w) ==
    /\ pc[w] = "created"
    /\ running' = [running EXCEPT ![w] = TRUE]
    /\ pc' = [pc EXCEPT ![w] = "loop"]
    /\ UNCHANGED <<sender, live, owner, images, stopped, afterStop>>

(* Faulty variant of Loop: the flag is not looked at.                      *)
Loop_Forever(w) ==
    /\ pc[w] = "loop"
    /\ pc' = [pc EXCEPT ![w] = "poll"]
    /\ UNCHANGED <<sender, live, running, owner, images, stopped, afterStop>>

(* while(running).                                                         *)
Loop(w) ==
    /\ pc[w] = "loop"
    /\ pc' = [pc EXCEPT ![w] = IF running[w] THEN "poll" ELSE "done"]
    /\ UNCHANGED <<sender, live, running, owner, images, stopped, afterStop>>

(* pollImage returns an image ...                                          *)
PollImage(w) ==
    /\ pc[w] = "poll" /\ images > 0
    /\ images' = images - 1
    /\ pc' = [pc EXCEPT ![w] = "handle"]
    /\ UNCHANGED <<sender, live, running, owner, stopped, afterStop>>

(* Faulty variant of PollTimeout: the worker goes straight back to poll. *)
PollTimeout_Again(w) ==
    /\ pc[w] = "poll" /\ images = 0
    /\ UNCHANGED vars

(* ... or null after five seconds.                                         *)
PollTimeout(w) ==
    /\ pc[w] = "poll" /\ images = 0
    /\ pc' = [pc EXCEPT ![w] = IF running[w] THEN "loop" ELSE "done"]
    /\ UNCHANGED <<sender, live, running, owner, images, stopped, afterStop>>

(* handleImage: the image is sent, or skipped because the channel is not   *)
(* free, or sending it fails and the worker ends.                          *)
HandleImage(w) ==
    /\ pc[w] = "handle"
    /\ \/ /\ afterStop' = [afterStop EXCEPT ![w] = IF stopped[w] THEN @ + 1
                                                                 ELSE @]
          /\ pc' = [pc EXCEPT ![w] = "loop"]
          /\ UNCHANGED running
       \/ /\ pc' = [pc EXCEPT ![w] = "loop"]
          /\ UNCHANGED <<running, afterStop>>
       \/ /\ pc' = [pc EXCEPT ![w] = "done"]
          /\ running' = [running EXCEPT ![w] = FALSE]
          /\ UNCHANGED afterStop
    /\ UNCHANGED <<sender, live, owner, images, stopped>>

(* Faulty variant of AddImage: no image is dropped.                        *)
AddImage_Unbounded ==
    /\ images' = images + 1
    /\ UNCHANGED <<sender, live, pc, running, owner, stopped, afterStop>>

(* addImage: an image is dropped when the queue is full.                   *)
AddImage ==
    /\ images < ImageCapacity
    /\ images' = images + 1
    /\ UNCHANGED <<sender, live, pc, running, owner, stopped, afterStop>>

WorkerStep(w) == Run(w) \/ Loop(w) \/ PollImage(w) \/ PollTimeout(w) \/ HandleImage(w)

Next == \/ AddImage
        \/ \E h \in Handlers : Construct(h) \/ Start(h) \/ Stop(h) \/ OnLeftUser(h)
        \/ \E w \in Workers : WorkerStep(w)

Spec == Init /\ [][Next]_vars

(* Threads run and the poll times out.                                     *)
FairSpec == Spec /\ \A w \in Workers : WF_vars(WorkerStep(w))

-----------------------------------------------------------------------------
TypeOK ==
    /\ sender \in [Handlers -> Workers \cup {NoWorker}]
    /\ live \in [Handlers -> BOOLEAN]
    /\ pc \in [Workers -> WorkerPC]
    /\ running \in [Workers -> BOOLEAN]
    /\ owner \in [Workers -> Handlers]
    /\ images \in 0..ImageCapacity
    /\ stopped \in [Workers -> BOOLEAN]
    /\ afterStop \in [Workers -> Nat]

(* A worker that was stopped while its thread was already in run() sends   *)
(* at most the one image it was waiting for or holding.                    *)
AtMostOneAfterStop == \A w \in Workers : afterStop[w] <= 1

(* What makes it inductive: such a worker finds its flag cleared when it   *)
(* gets back to the loop, and has sent its image on the way there.         *)
StopInv ==
    \A w \in Workers :
        /\ stopped[w] => ~running[w] /\ (Begun(w) \/ pc[w] = "done")
        /\ afterStop[w] # 0 => /\ afterStop[w] = 1 /\ stopped[w]
                               /\ pc[w] \in {"loop", "done"}

(* The thread of such a worker ends, also when no image comes any more or  *)
(* another worker empties the queue.                                       *)
StoppedWorkerEnds ==
    \A w \in Workers : stopped[w] ~> (pc[w] = "done" \/ ~stopped[w])

(* "Stop the screen sender thread." (ScreencapHandler.java:114): once the  *)
(* visitor has left, its sender threads end.                               *)
LeavingStopsThreads ==
    \A h \in Handlers :
        ~live[h] ~> ThreadsEnded(h)
=============================================================================
