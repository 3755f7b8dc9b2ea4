--------------------------- MODULE KeyboardProofs ----------------------------
(* Proofs about Keyboard and, with it, Visitors.                           *)
EXTENDS Keyboard, FiniteSetTheorems, TLAPS

USE VisitorsAssumption, KeyboardAssumption

-----------------------------------------------------------------------------
(* What a step does to the visitors and the threads.  The steps by which a *)
(* handler gets a message do nothing to the visitors.                      *)
HandleStep(t) ==
    /\ at[t] \in Messaging
    /\ UNCHANGED people
    /\ Finish(t) \/ Step(t, "onData") \/ Step(t, "enqueue")

VisitorStep ==
    \/ \E i \in Ids : NewVisitor(i) \/ Transport(i) \/ VisitorLeft(i)
    \/ \E l \in Locals : NewLocal(l) \/ LocalMessage(l) \/ CloseLocal(l)
    \/ \E t \in Threads : Join(t) \/ HandleStep(t) \/ LeftVisitor(t)
    \/ \E t \in Threads : LogIn(t)
    \/ Put \/ TearDown \/ NextPeer \/ RemovePeer
    \/ UNCHANGED <<people, at, cur>>

LEMMA StepKinds == [Next]_vars => VisitorStep
<1> SUFFICES ASSUME [Next]_vars PROVE VisitorStep
  OBVIOUS
<1>1. CASE Arrive
  BY <1>1 DEF Arrive, VisitorStep
<1>2. CASE Admit
  BY <1>2 DEF Admit, VisitorStep, Threads
<1>3. CASE Others
  <2>1. ASSUME NEW t \in Threads, OtherMessage(t) PROVE HandleStep(t)
    BY <2>1 DEF OtherMessage, HandleStep, Messaging
  <2> QED BY <1>3, <2>1 DEF Others, VisitorStep
<1>4. ASSUME NEW t \in Threads, Leave(t) PROVE VisitorStep
  BY <1>4 DEF Leave, VisitorStep
<1>5. ASSUME NEW t \in Threads, KeyMessage(t) \/ Inject(t) \/ Enable(t) \/ Enqueue(t)
      PROVE  VisitorStep
  <2>1. HandleStep(t)
    BY <1>5 DEF KeyMessage, Inject, Enable, Enqueue, NextHandler, HandleStep, Messaging
  <2> QED BY <2>1 DEF VisitorStep
<1>6. CASE HarborOpen \/ StartInput \/ Drain \/ DestroyService \/ Deliver \/ Lose \/ Restart
  <2>1. UNCHANGED <<people, at, cur>>
    BY <1>6 DEF HarborOpen, StartInput, Drain, DestroyService, Deliver, Lose, Restart
  <2> QED BY <2>1 DEF VisitorStep
<1>7. CASE UNCHANGED vars
  BY <1>7 DEF vars, VisitorStep
<1> QED BY <1>1, <1>2, <1>3, <1>4, <1>5, <1>6, <1>7 DEF Next

-----------------------------------------------------------------------------
(* Types.                                                                  *)
ThreadPC == {"idle", "join", "joinThenMessage", "put", "putThenMessage",
             "message", "onData", "enqueue", "close", "next", "remove"}

PeopleType ==
    /\ made \in 0 .. MaxVisitors
    /\ visitors \subseteq 1 .. made /\ named \subseteq 1 .. made /\ replaced \subseteq 1 .. made
    /\ peers \in [Ids -> 0 .. made] /\ local \in [Locals -> 0 .. made]
    /\ at \in [Threads -> ThreadPC]
    /\ cur \in [Threads -> 0 .. made]
    /\ slot \in [{Loop, Sweeper} -> Ids]
    /\ modified \in BOOLEAN /\ overlap \in BOOLEAN
    /\ foreground \in BOOLEAN

LEMMA PeopleTypeInit == Init => PeopleType /\ ThreadInv
<1> SUFFICES ASSUME Init PROVE PeopleType /\ ThreadInv
  OBVIOUS
<1>1. PICK i \in Ids : TRUE
  OBVIOUS
<1>2. (CHOOSE j \in Ids : TRUE) \in Ids
  BY <1>1
<1>3. PeopleType
  <2>1. slot \in [{Loop, Sweeper} -> Ids]
    BY <1>2 DEF Init, VisitorsInit
  <2>2. /\ made \in 0 .. MaxVisitors /\ peers \in [Ids -> 0 .. made]
        /\ local \in [Locals -> 0 .. made] /\ cur \in [Threads -> 0 .. made]
    BY DEF Init, VisitorsInit
  <2> QED BY <2>1, <2>2 DEF Init, VisitorsInit, PeopleType, ThreadPC
<1>4. ThreadInv
  BY DEF Init, VisitorsInit, ThreadInv, Threads, Messaging
<1> QED BY <1>3, <1>4

LEMMA PeopleTypeStep ==
    ASSUME PeopleType, ThreadInv, VisitorStep
    PROVE  PeopleType'
<1> USE DEF PeopleType, ThreadPC
<1>0. /\ made \in Nat /\ MaxVisitors \in Nat /\ Loop \in Threads /\ Sweeper \in Threads
      /\ \A l \in Locals : l \in Threads
      /\ \A t \in Threads : at[t] \notin {"idle", "next"} => cur[t] \in 1 .. made
      /\ \A x \in 0 .. made : x # 0 => x \in 1 .. made
  BY DEF ThreadInv, Threads
<1>1. ASSUME NEW i \in Ids, NewVisitor(i) PROVE PeopleType'
  BY <1>0, <1>1 DEF NewVisitor, With, Note
<1>2. ASSUME NEW i \in Ids, Transport(i) PROVE PeopleType'
  BY <1>0, <1>2 DEF Transport, With, Note
<1>3. ASSUME NEW i \in Ids, VisitorLeft(i) PROVE PeopleType'
  BY <1>0, <1>3 DEF VisitorLeft, With, Note
<1>4. ASSUME NEW l \in Locals, NewLocal(l) PROVE PeopleType'
  BY <1>0, <1>4 DEF NewLocal, With
<1>5. ASSUME NEW l \in Locals, LocalMessage(l) PROVE PeopleType'
  BY <1>0, <1>5 DEF LocalMessage, With, people
<1>6. ASSUME NEW l \in Locals, CloseLocal(l) PROVE PeopleType'
  BY <1>0, <1>6 DEF CloseLocal, With
<1>7. ASSUME NEW t \in Threads, Join(t) PROVE PeopleType'
  <2>1. visitors' \subseteq 1 .. made /\ cur[t] \in 0 .. made
    BY <1>0, <1>7 DEF Join
  <2>2. at' \in [Threads -> ThreadPC] /\ cur' \in [Threads -> 0 .. made]
    BY <1>0, <1>7 DEF Join, With, Step, Finish
  <2>3. local' \in [Locals -> 0 .. made] /\ foreground' \in BOOLEAN
    BY <1>7, <2>1 DEF Join
  <2> QED BY <1>7, <2>1, <2>2, <2>3 DEF Join
<1>8. ASSUME NEW t \in Threads, HandleStep(t) PROVE PeopleType'
  BY <1>0, <1>8 DEF HandleStep, With, Step, Finish, people
<1>9. ASSUME NEW t \in Threads, LeftVisitor(t) PROVE PeopleType'
  <2>1. at' \in [Threads -> ThreadPC] /\ cur' \in [Threads -> 0 .. made]
    BY <1>0, <1>9 DEF LeftVisitor, With, Step, Finish
  <2>2. visitors' \subseteq 1 .. made /\ foreground' \in BOOLEAN
    BY <1>9 DEF LeftVisitor
  <2> QED BY <1>9, <2>1, <2>2 DEF LeftVisitor
<1>10. ASSUME NEW t \in Threads, LogIn(t) PROVE PeopleType'
  <2>1. named' \subseteq 1 .. made
    BY <1>0, <1>10 DEF LogIn
  <2> QED BY <1>0, <1>10, <2>1 DEF LogIn, With, Finish
<1>11. CASE Put
  <2>1. slot[Loop] \in Ids /\ peers[slot[Loop]] \in 0 .. made /\ cur[Loop] \in 0 .. made
    BY <1>0
  <2>2. replaced' \subseteq 1 .. made
    BY <1>0, <1>11, <2>1 DEF Put
  <2>3. peers' \in [Ids -> 0 .. made] /\ modified' \in BOOLEAN
    BY <1>11, <2>1 DEF Put
  <2>4. at' \in [Threads -> ThreadPC] /\ cur' \in [Threads -> 0 .. made]
    BY <1>0, <1>11 DEF Put, With, Step, Finish
  <2> QED BY <1>11, <2>2, <2>3, <2>4 DEF Put
<1>12. CASE TearDown
  BY <1>0, <1>12 DEF TearDown, Step
<1>13. CASE NextPeer
  BY <1>0, <1>13 DEF NextPeer, With, Finish
<1>14. CASE RemovePeer
  BY <1>0, <1>14 DEF RemovePeer, With, Step, Finish
<1>15. CASE UNCHANGED <<people, at, cur>>
  BY <1>15 DEF people
<1> QED BY <1>1, <1>2, <1>3, <1>4, <1>5, <1>6, <1>7, <1>8, <1>9, <1>10, <1>11,
           <1>12, <1>13, <1>14, <1>15 DEF VisitorStep

-----------------------------------------------------------------------------
(* Who owns a visitor.                                                     *)
LEMMA OwnInit == Init => OwnInv
BY DEF Init, VisitorsInit, OwnInv, OfLocal, Threads

(* No visitor is new and nobody gets one that was not his: then the        *)
(* ownership remains as it was.                                            *)
LEMMA OwnKept ==
    ASSUME PeopleType, OwnInv, made' = made,
           \A l \in Locals : \A v \in 1 .. made : OfLocal(l, v)' => OfLocal(l, v),
           \A v \in 1 .. made : OfHarbor(v)' => OfHarbor(v)
    PROVE  OwnInv'
BY DEF OwnInv

LEMMA OwnStep ==
    ASSUME PeopleType, PeopleType', ThreadInv, OwnInv, VisitorStep
    PROVE  OwnInv'
<1>0. /\ made \in Nat /\ Loop \in Threads /\ Sweeper \in Threads
      /\ \A l \in Locals : l \in Threads /\ l # Loop /\ l # Sweeper
  BY DEF PeopleType, Threads
<1>1. ASSUME NEW i \in Ids, NewVisitor(i) PROVE OwnInv'
  <2>1. /\ made' = made + 1 /\ local' = local /\ peers' = peers /\ replaced' = replaced
        /\ cur' = [cur EXCEPT ![Loop] = made + 1]
    BY <1>1 DEF NewVisitor, With
  <2>2. ASSUME NEW l \in Locals, NEW v \in 1 .. made', OfLocal(l, v)'
        PROVE  v \in 1 .. made /\ OfLocal(l, v)
    BY <1>0, <2>1, <2>2 DEF OfLocal, PeopleType
  <2>3. ASSUME NEW v \in 1 .. made, OfHarbor(v)' PROVE OfHarbor(v)
    BY <1>0, <2>1, <2>3 DEF OfHarbor, PeopleType
  <2> QED BY <2>2, <2>3 DEF OwnInv
<1>2. ASSUME NEW i \in Ids, Transport(i) \/ VisitorLeft(i) PROVE OwnInv'
  <2>1. /\ made' = made /\ local' = local /\ replaced' = replaced
        /\ cur' = [cur EXCEPT ![Loop] = peers[i]]
        /\ \A j \in Ids : peers'[j] = peers[j] \/ peers'[j] = 0
    BY <1>2 DEF Transport, VisitorLeft, With, PeopleType
  <2>2. \A v \in 1 .. made : OfHarbor(v)' => OfHarbor(v)
    BY <1>0, <2>1 DEF OfHarbor, PeopleType
  <2>3. \A l \in Locals : \A v \in 1 .. made : OfLocal(l, v)' => OfLocal(l, v)
    BY <1>0, <2>1 DEF OfLocal, PeopleType
  <2> QED BY <2>1, <2>2, <2>3, OwnKept
<1>3. ASSUME NEW l \in Locals, NewLocal(l) PROVE OwnInv'
  <2>1. /\ made' = made + 1 /\ local' = local /\ peers' = peers /\ replaced' = replaced
        /\ cur' = [cur EXCEPT ![l] = made + 1] /\ local[l] = 0
    BY <1>3 DEF NewLocal, With
  <2>2. ASSUME NEW k \in Locals, NEW v \in 1 .. made', OfLocal(k, v)'
        PROVE  (k = l /\ v = made + 1) \/ (v \in 1 .. made /\ OfLocal(k, v))
    BY <1>0, <2>1, <2>2 DEF OfLocal, PeopleType
  <2>3. ASSUME NEW v \in 1 .. made', OfHarbor(v)' PROVE OfHarbor(v) /\ v \in 1 .. made
    BY <1>0, <2>1, <2>3 DEF OfHarbor, PeopleType
  <2>4. made + 1 \notin 1 .. made
    BY <1>0
  <2>5. ASSUME NEW k \in Locals, NEW v \in 1 .. made', OfLocal(k, v)'
        PROVE  ~OfHarbor(v)'
    BY <2>2, <2>3, <2>4, <2>5 DEF OwnInv
  <2>6. ASSUME NEW k \in Locals, NEW j \in Locals, NEW v \in 1 .. made',
               OfLocal(k, v)', OfLocal(j, v)'
        PROVE  j = k
    BY <2>2, <2>4, <2>6 DEF OwnInv
  <2> QED BY <2>5, <2>6 DEF OwnInv
<1>4. ASSUME NEW l \in Locals, LocalMessage(l) \/ CloseLocal(l) PROVE OwnInv'
  <2>1. /\ made' = made /\ peers' = peers /\ replaced' = replaced
        /\ cur' = [cur EXCEPT ![l] = local[l]]
        /\ \A k \in Locals : local'[k] = local[k] \/ local'[k] = 0
    BY <1>4 DEF LocalMessage, CloseLocal, With, PeopleType, people
  <2>2. \A v \in 1 .. made : OfHarbor(v)' => OfHarbor(v)
    BY <1>0, <2>1 DEF OfHarbor, PeopleType
  <2>3. \A k \in Locals : \A v \in 1 .. made : OfLocal(k, v)' => OfLocal(k, v)
    BY <1>0, <2>1 DEF OfLocal, PeopleType
  <2> QED BY <2>1, <2>2, <2>3, OwnKept
<1>5. ASSUME NEW t \in Threads, Join(t) PROVE OwnInv'
  <2>1. /\ made' = made /\ peers' = peers /\ replaced' = replaced
        /\ \A u \in Threads : cur'[u] = cur[u] \/ cur'[u] = 0
        /\ \A k \in Locals : local'[k] = local[k] \/ (k = t /\ local'[k] = cur[t])
    BY <1>5 DEF Join, With, Step, Finish, PeopleType
  <2>2. \A v \in 1 .. made : OfHarbor(v)' => OfHarbor(v)
    BY <1>0, <2>1 DEF OfHarbor
  <2>3. \A k \in Locals : \A v \in 1 .. made : OfLocal(k, v)' => OfLocal(k, v)
    BY <1>0, <2>1 DEF OfLocal
  <2> QED BY <2>1, <2>2, <2>3, OwnKept
<1>6. ASSUME NEW t \in Threads, HandleStep(t) \/ LeftVisitor(t) \/ LogIn(t) PROVE OwnInv'
  <2>1. /\ made' = made /\ peers' = peers /\ replaced' = replaced /\ local' = local
        /\ \A u \in Threads : cur'[u] = cur[u] \/ cur'[u] = 0
    BY <1>6 DEF HandleStep, LeftVisitor, LogIn, With, Step, Finish, PeopleType, people
  <2>2. \A v \in 1 .. made : OfHarbor(v)' => OfHarbor(v)
    BY <1>0, <2>1 DEF OfHarbor
  <2>3. \A k \in Locals : \A v \in 1 .. made : OfLocal(k, v)' => OfLocal(k, v)
    BY <1>0, <2>1 DEF OfLocal
  <2> QED BY <2>1, <2>2, <2>3, OwnKept
<1>7. CASE Put
  <2>1. /\ made' = made /\ local' = local
        /\ \A u \in Threads : cur'[u] = cur[u] \/ cur'[u] = 0
        /\ \A j \in Ids : peers'[j] = peers[j] \/ peers'[j] = cur[Loop]
        /\ slot[Loop] \in Ids /\ replaced' = replaced \cup ({peers[slot[Loop]]} \ {0})
    BY <1>7 DEF Put, With, Step, Finish, PeopleType
  <2>2. \A v \in 1 .. made : OfHarbor(v)' => OfHarbor(v)
    BY <1>0, <2>1 DEF OfHarbor
  <2>3. \A k \in Locals : \A v \in 1 .. made : OfLocal(k, v)' => OfLocal(k, v)
    BY <1>0, <2>1 DEF OfLocal
  <2> QED BY <2>1, <2>2, <2>3, OwnKept
<1>8. CASE TearDown \/ NextPeer \/ RemovePeer
  <2>1. /\ made' = made /\ local' = local /\ replaced' = replaced
        /\ \A u \in Threads : \/ cur'[u] = cur[u] \/ cur'[u] = 0
                              \/ u = Sweeper /\ \E i \in Ids : cur'[u] = peers[i]
        /\ \A j \in Ids : peers'[j] = peers[j] \/ peers'[j] = 0
    BY <1>0, <1>8 DEF TearDown, NextPeer, RemovePeer, With, Step, Finish, PeopleType
  <2>2. \A v \in 1 .. made : OfHarbor(v)' => OfHarbor(v)
    BY <1>0, <2>1 DEF OfHarbor
  <2>3. \A k \in Locals : \A v \in 1 .. made : OfLocal(k, v)' => OfLocal(k, v)
    BY <1>0, <2>1 DEF OfLocal
  <2> QED BY <2>1, <2>2, <2>3, OwnKept
<1>9. CASE UNCHANGED <<people, at, cur>>
  BY <1>9 DEF people, OwnInv, OfLocal, OfHarbor
<1> QED BY <1>1, <1>2, <1>3, <1>4, <1>5, <1>6, <1>7, <1>8, <1>9 DEF VisitorStep

-----------------------------------------------------------------------------
(* Where the threads are.                                                  *)
LEMMA ThreadStep ==
    ASSUME PeopleType, ThreadInv, OwnInv, VisitorStep
    PROVE  ThreadInv'
<1> USE DEF Messaging, Joining, Putting
<1>0. /\ made \in Nat /\ Loop \in Threads /\ Sweeper \in Threads
      /\ \A l \in Locals : l \in Threads /\ l # Loop /\ l # Sweeper
  BY DEF PeopleType, Threads
<1>1. ASSUME NEW i \in Ids, NewVisitor(i) PROVE ThreadInv'
  <2>1. made + 1 # 0
    BY <1>0
  <2> QED BY <1>0, <1>1, <2>1 DEF NewVisitor, With, PeopleType, ThreadInv
<1>2. ASSUME NEW i \in Ids, Transport(i) \/ VisitorLeft(i) PROVE ThreadInv'
  BY <1>0, <1>2 DEF Transport, VisitorLeft, With, PeopleType, ThreadInv
<1>3. ASSUME NEW l \in Locals, NewLocal(l) PROVE ThreadInv'
  <2>1. made + 1 # 0
    BY <1>0
  <2> QED BY <1>0, <1>3, <2>1 DEF NewLocal, With, PeopleType, ThreadInv
<1>4. ASSUME NEW l \in Locals, LocalMessage(l) \/ CloseLocal(l) PROVE ThreadInv'
  BY <1>0, <1>4 DEF LocalMessage, CloseLocal, With, PeopleType, ThreadInv, people
<1>5. ASSUME NEW t \in Threads, Join(t) PROVE ThreadInv'
  BY <1>0, <1>5 DEF Join, With, Step, Finish, PeopleType, ThreadInv
<1>6. ASSUME NEW t \in Threads, HandleStep(t) PROVE ThreadInv'
  BY <1>0, <1>6 DEF HandleStep, With, Step, Finish, PeopleType, ThreadInv, people
<1>7. ASSUME NEW t \in Threads, LeftVisitor(t) PROVE ThreadInv'
  <2>1. /\ visitors' = visitors \ {cur[t]} /\ local' = local /\ at[t] = "close"
        /\ at' = [at EXCEPT ![t] = IF t = Sweeper THEN "remove" ELSE "idle"]
        /\ cur' = [cur EXCEPT ![t] = IF t = Sweeper THEN cur[t] ELSE 0]
    BY <1>7 DEF LeftVisitor, With, Step, Finish, PeopleType
  <2>2. ASSUME NEW l \in Locals, local[l] # 0 PROVE local[l] \in visitors'
    <3>1. local[l] \in visitors /\ local[l] \in 1 .. made
      BY <2>2 DEF ThreadInv, PeopleType
    <3>2. CASE t \in Locals
      <4>1. t # l
        BY <2>1, <2>2, <3>2 DEF ThreadInv
      <4>2. cur[t] # local[l]
        BY <3>1, <3>2, <4>1 DEF OwnInv, OfLocal
      <4> QED BY <2>1, <3>1, <4>2
    <3>3. CASE t \in {Loop, Sweeper}
      <4>1. cur[t] # local[l]
        BY <3>1, <3>3 DEF OwnInv, OfLocal, OfHarbor
      <4> QED BY <2>1, <3>1, <4>1
    <3> QED BY <3>2, <3>3 DEF Threads
  <2> QED BY <1>0, <2>1, <2>2 DEF PeopleType, ThreadInv
<1>8. ASSUME NEW t \in Threads, LogIn(t) PROVE ThreadInv'
  BY <1>0, <1>8 DEF LogIn, With, Finish, PeopleType, ThreadInv
<1>9. CASE Put
  BY <1>0, <1>9 DEF Put, With, Step, Finish, PeopleType, ThreadInv
<1>10. CASE TearDown \/ NextPeer \/ RemovePeer
  BY <1>0, <1>10 DEF TearDown, NextPeer, RemovePeer, With, Step, Finish, PeopleType, ThreadInv
<1>11. CASE UNCHANGED <<people, at, cur>>
  BY <1>11 DEF people, ThreadInv
<1> QED BY <1>1, <1>2, <1>3, <1>4, <1>5, <1>6, <1>7, <1>8, <1>9, <1>10, <1>11 DEF VisitorStep

(* The three together.                                                     *)
VisitInv == PeopleType /\ ThreadInv /\ OwnInv

LEMMA VisitInit == Init => VisitInv
BY PeopleTypeInit, OwnInit DEF VisitInv

LEMMA VisitStep == VisitInv /\ VisitorStep => VisitInv'
BY PeopleTypeStep, OwnStep, ThreadStep DEF VisitInv

-----------------------------------------------------------------------------
(* The harbor's side.                                                      *)
LEMMA HarborInit == Init => HarborInv /\ StoreAgrees
<1> SUFFICES ASSUME Init PROVE HarborInv /\ StoreAgrees
  OBVIOUS
<1>1. HarborInv
  BY DEF Init, VisitorsInit, HarborInv, Threads, Messaging, Joining, Putting
<1>2. StoreAgrees
  BY DEF Init, VisitorsInit, StoreAgrees
<1> QED BY <1>1, <1>2

LEMMA HarborStep ==
    ASSUME VisitInv, VisitInv', HarborInv, StoreAgrees, VisitorStep
    PROVE  HarborInv'
<1> USE DEF Messaging, Joining, Putting, VisitInv
<1>0. /\ made \in Nat /\ Loop \in Threads /\ Sweeper \in Threads
      /\ \A l \in Locals : l \in Threads /\ l # Loop /\ l # Sweeper
      /\ slot[Loop] \in Ids /\ slot[Sweeper] \in Ids
  BY DEF PeopleType, Threads
<1>1. ASSUME NEW i \in Ids, NewVisitor(i) PROVE HarborInv'
  <2>1. \A j \in Ids : peers[j] # made + 1
    BY <1>0 DEF PeopleType
  <2>2. /\ at'[Loop] \in Joining /\ cur'[Loop] = made + 1
        /\ at'[Sweeper] = at[Sweeper] /\ cur'[Sweeper] = cur[Sweeper]
        /\ peers' = peers /\ visitors' = visitors /\ modified' = modified
        /\ slot'[Sweeper] = slot[Sweeper]
        /\ overlap' = (overlap \/ at[Sweeper] # "idle")
    BY <1>0, <1>1 DEF NewVisitor, With, Note, PeopleType
  <2> QED BY <2>1, <2>2 DEF HarborInv
<1>2. ASSUME NEW i \in Ids, Transport(i) PROVE HarborInv'
  <2>1. ~overlap' => at[Sweeper] = "idle" /\ ~overlap
    BY <1>2 DEF Transport, Note
  <2>2. ~overlap' => peers[i] \in visitors
    <3> SUFFICES ASSUME ~overlap', peers[i] \notin visitors PROVE FALSE
      OBVIOUS
    <3>1. PICK t \in Threads : cur[t] = peers[i] /\ at[t] # "idle"
      BY <1>2, <2>1 DEF Transport, StoreAgrees, Serving
    <3>2. t \in Locals
      BY <1>2, <2>1, <3>1 DEF Transport, Threads
    <3>3. peers[i] \in 1 .. made
      BY <1>2 DEF Transport, PeopleType
    <3> QED BY <3>1, <3>2, <3>3 DEF OwnInv, OfLocal, OfHarbor
  <2> QED BY <1>0, <1>2, <2>1, <2>2 DEF Transport, With, PeopleType, ThreadInv, HarborInv
<1>3. ASSUME NEW i \in Ids, VisitorLeft(i) PROVE HarborInv'
  <2>1. ~overlap' => at[Sweeper] = "idle" /\ ~overlap
    BY <1>3 DEF VisitorLeft, Note
  <2>2. /\ at' = [at EXCEPT ![Loop] = "close"] /\ cur' = [cur EXCEPT ![Loop] = peers[i]]
        /\ peers' = [peers EXCEPT ![i] = 0] /\ peers[i] # 0
        /\ modified' = (at[Sweeper] # "idle") /\ visitors' = visitors /\ slot' = slot
        /\ overlap' = (overlap \/ at[Sweeper] # "idle")
    BY <1>3 DEF VisitorLeft, With, Note
  <2>3. \A j \in Ids : peers'[j] = IF j = i THEN 0 ELSE peers[j]
    BY <2>2 DEF PeopleType
  <2>4. at'[Loop] = "close" /\ cur'[Loop] = peers[i] /\ at'[Sweeper] = at[Sweeper]
    BY <1>0, <2>2 DEF PeopleType
  <2>5. ASSUME ~overlap'
        PROVE  /\ \A j, k \in Ids : peers'[j] = peers'[k] /\ peers'[j] # 0 => j = k
               /\ \A j \in Ids : peers'[j] # cur'[Loop]
    BY <2>1, <2>2, <2>3, <2>4, <2>5 DEF HarborInv
  <2> QED BY <2>1, <2>2, <2>4, <2>5 DEF HarborInv
<1>4. ASSUME NEW l \in Locals, NewLocal(l) \/ LocalMessage(l) \/ CloseLocal(l) PROVE HarborInv'
  BY <1>0, <1>4 DEF NewLocal, LocalMessage, CloseLocal, With, PeopleType, HarborInv, people
<1>5. ASSUME NEW t \in Threads, Join(t) PROVE HarborInv'
  <2>1. t # Sweeper /\ cur[t] \in 1 .. made
    BY <1>5 DEF Join, ThreadInv, PeopleType
  <2>2. /\ peers' = peers /\ slot' = slot /\ modified' = modified /\ overlap' = overlap
        /\ visitors' = visitors \cup {cur[t]}
    BY <1>5 DEF Join
  <2>3. CASE t \in Locals
    <3>1. cur[t] # cur[Sweeper]
      BY <2>1, <2>3 DEF OwnInv, OfLocal, OfHarbor
    <3>2. /\ at'[Loop] = at[Loop] /\ at'[Sweeper] = at[Sweeper]
          /\ cur'[Loop] = cur[Loop] /\ cur'[Sweeper] = cur[Sweeper]
      BY <1>0, <1>5, <2>3 DEF Join, With, Step, Finish, PeopleType
    <3> QED BY <2>2, <3>1, <3>2 DEF HarborInv
  <2>4. CASE t = Loop
    <3>1. /\ at[Loop] \in Joining /\ at'[Loop] \in Putting /\ at'[Sweeper] = at[Sweeper]
          /\ cur' = cur
      BY <1>0, <1>5, <2>4 DEF Join, Step, PeopleType
    <3> QED BY <2>2, <2>4, <3>1 DEF HarborInv
  <2> QED BY <2>1, <2>3, <2>4 DEF Threads
<1>6. ASSUME NEW t \in Threads, HandleStep(t) PROVE HarborInv'
  BY <1>0, <1>6 DEF HandleStep, With, Step, Finish, PeopleType, HarborInv, ThreadInv, people
<1>7. ASSUME NEW t \in Threads, LeftVisitor(t) PROVE HarborInv'
  <2>1. /\ visitors' = visitors \ {cur[t]} /\ at[t] = "close"
        /\ at' = [at EXCEPT ![t] = IF t = Sweeper THEN "remove" ELSE "idle"]
        /\ cur' = [cur EXCEPT ![t] = IF t = Sweeper THEN cur[t] ELSE 0]
        /\ peers' = peers /\ slot' = slot /\ modified' = modified /\ overlap' = overlap
    BY <1>7 DEF LeftVisitor, With, Step, Finish, PeopleType
  <2>2. cur[t] \in 1 .. made
    BY <2>1 DEF ThreadInv, PeopleType
  <2>3. CASE t \in Locals
    <3>1. cur[t] # cur[Loop]
      BY <2>2, <2>3 DEF OwnInv, OfLocal, OfHarbor
    <3>2. /\ at'[Loop] = at[Loop] /\ at'[Sweeper] = at[Sweeper]
          /\ cur'[Loop] = cur[Loop] /\ cur'[Sweeper] = cur[Sweeper]
      BY <1>0, <2>1, <2>3 DEF PeopleType
    <3> QED BY <2>1, <3>1, <3>2 DEF HarborInv
  <2>4. CASE t = Loop
    <3>1. /\ at'[Loop] = "idle" /\ at'[Sweeper] = at[Sweeper] /\ cur'[Sweeper] = cur[Sweeper]
      BY <1>0, <2>1, <2>4 DEF PeopleType
    <3> QED BY <2>1, <3>1 DEF HarborInv
  <2>5. CASE t = Sweeper
    <3>1. at'[Sweeper] = "remove" /\ at'[Loop] = at[Loop] /\ cur' = cur
      BY <1>0, <2>1, <2>5 DEF PeopleType
    <3> QED BY <2>1, <2>5, <3>1 DEF HarborInv
  <2> QED BY <2>3, <2>4, <2>5 DEF Threads
<1>8. ASSUME NEW t \in Threads, LogIn(t) PROVE HarborInv'
  BY <1>0, <1>8 DEF LogIn, With, Finish, PeopleType, HarborInv, ThreadInv
<1>9. CASE Put
  <2>1. /\ \A j \in Ids : peers'[j] = IF j = slot[Loop] THEN cur[Loop] ELSE peers[j]
        /\ at[Loop] \in Putting /\ at'[Sweeper] = at[Sweeper] /\ cur'[Sweeper] = cur[Sweeper]
        /\ at'[Loop] = "idle" \/ (at'[Loop] = "message" /\ cur'[Loop] = cur[Loop])
        /\ visitors' = visitors /\ slot' = slot /\ overlap' = overlap
        /\ modified' => at[Sweeper] # "idle"
    BY <1>0, <1>9 DEF Put, With, Step, Finish, PeopleType
  <2>2. ~overlap => at[Sweeper] = "idle"
    BY <2>1 DEF HarborInv
  <2>3. ~overlap => \A j, k \in Ids : peers'[j] = peers'[k] /\ peers'[j] # 0 => j = k
    BY <2>1 DEF HarborInv
  <2> QED BY <1>0, <2>1, <2>2, <2>3 DEF HarborInv
<1>10. CASE TearDown
  <2>1. ASSUME NEW j \in Ids, peers[j] # 0 PROVE peers[j] # cur[Sweeper] /\ cur[Sweeper] \notin visitors
    BY <1>0, <1>10, <2>1 DEF TearDown, ThreadInv, PeopleType
  <2>2. cur[Sweeper] \notin visitors
    BY <1>0, <1>10 DEF TearDown, ThreadInv, PeopleType
  <2> QED BY <1>0, <1>10, <2>1, <2>2 DEF TearDown, Step, PeopleType, HarborInv
<1>11. CASE NextPeer
  BY <1>0, <1>11 DEF NextPeer, With, Finish, PeopleType, HarborInv
<1>12. CASE RemovePeer
  BY <1>0, <1>12 DEF RemovePeer, With, Step, Finish, PeopleType, HarborInv
<1>13. CASE UNCHANGED <<people, at, cur>>
  BY <1>13 DEF people, HarborInv
<1> QED BY <1>1, <1>2, <1>3, <1>4, <1>5, <1>6, <1>7, <1>8, <1>9, <1>10, <1>11, <1>12, <1>13
        DEF VisitorStep

-----------------------------------------------------------------------------
(* The set and those who made the visitors.                                *)
Found(v) == \/ \E i \in Ids : peers[i] = v
            \/ \E l \in Locals : local[l] = v
            \/ Serving(v) \/ v \in replaced

(* A thread serves whom it is busy with.                                   *)
LEMMA Busy ==
    ASSUME VisitInv, NEW v \in 1 .. made
    PROVE  Serving(v) <=> \E t \in Threads : cur[t] = v
BY DEF VisitInv, ThreadInv, PeopleType, Serving

LEMMA StoreStep ==
    ASSUME VisitInv, VisitInv', HarborInv, HarborInv', StoreAgrees, VisitorStep
    PROVE  StoreAgrees'
<1> USE DEF Messaging, Joining, Putting
<1> SUFFICES ASSUME ~overlap'
             PROVE  /\ \A v \in visitors' : Found(v)'
                    /\ \A i \in Ids : peers'[i] # 0 => peers'[i] \in visitors' \/ Serving(peers[i])'
  BY DEF StoreAgrees, Found
<1> DEFINE A == \A v \in visitors' : Found(v)'
           B == \A i \in Ids : peers'[i] # 0 => peers'[i] \in visitors' \/ Serving(peers[i])'
<1>0. /\ made \in Nat /\ made' \in Nat /\ Loop \in Threads /\ Sweeper \in Threads
      /\ \A l \in Locals : l \in Threads /\ l # Loop /\ l # Sweeper
      /\ slot[Loop] \in Ids /\ slot[Sweeper] \in Ids
      /\ visitors \subseteq 1 .. made /\ visitors' \subseteq 1 .. made'
      /\ \A i \in Ids : peers'[i] # 0 => peers'[i] \in 1 .. made'
      /\ \A i \in Ids : peers[i] # 0 => peers[i] \in 1 .. made
  BY DEF VisitInv, PeopleType, Threads
<1>1. ~overlap
  BY DEF VisitorStep, NewVisitor, Transport, VisitorLeft, NewLocal, LocalMessage, CloseLocal,
         Join, HandleStep, LeftVisitor, LogIn, Put, TearDown, NextPeer, RemovePeer, Note, people
<1>2. /\ \A v \in visitors : \/ \E i \in Ids : peers[i] = v
                             \/ \E l \in Locals : local[l] = v
                             \/ \E t \in Threads : cur[t] = v
                             \/ v \in replaced
      /\ \A i \in Ids : peers[i] # 0 => peers[i] \in visitors \/ \E t \in Threads : cur[t] = peers[i]
  BY <1>0, <1>1, Busy DEF StoreAgrees
<1>3. ASSUME \A v \in visitors' : \/ \E i \in Ids : peers'[i] = v
                                  \/ \E l \in Locals : local'[l] = v
                                  \/ \E t \in Threads : cur'[t] = v
                                  \/ v \in replaced',
             \A i \in Ids : peers'[i] # 0 =>
                 peers'[i] \in visitors' \/ \E t \in Threads : cur'[t] = peers'[i]
      PROVE  A /\ B
  <2>1. ASSUME NEW v \in 1 .. made' PROVE Serving(v)' <=> \E t \in Threads : cur'[t] = v
    BY <2>1 DEF VisitInv, ThreadInv, PeopleType, Serving
  <2> QED BY <1>0, <1>3, <2>1 DEF Found
<1> DEFINE C == \A v \in visitors' :
                    \/ \E i \in Ids : peers'[i] = v
                    \/ \E l \in Locals : local'[l] = v
                    \/ \E t \in Threads : cur'[t] = v
                    \/ v \in replaced'
           D == \A i \in Ids : peers'[i] # 0 =>
                   peers'[i] \in visitors' \/ \E t \in Threads : cur'[t] = peers'[i]
<1>same. ASSUME UNCHANGED <<visitors, peers, local, replaced>>,
                \A t \in Threads : cur[t] # 0 => cur'[t] = cur[t]
         PROVE  C /\ D
  <2>1. ASSUME NEW v \in visitors
        PROVE  \/ \E i \in Ids : peers'[i] = v
               \/ \E l \in Locals : local'[l] = v
               \/ \E t \in Threads : cur'[t] = v
               \/ v \in replaced'
    <3>1. v # 0
      BY <1>0
    <3>2. \A t \in Threads : cur[t] = v => cur'[t] = v
      BY <3>1, <1>same
    <3> QED BY <1>2, <1>same, <3>2
  <2>2. ASSUME NEW i \in Ids, peers[i] # 0
        PROVE  peers[i] \in visitors' \/ \E t \in Threads : cur'[t] = peers[i]
    <3>1. \A t \in Threads : cur[t] = peers[i] => cur'[t] = peers[i]
      BY <2>2, <1>same
    <3> QED BY <1>2, <1>same, <2>2, <3>1
  <2> QED BY <1>same, <2>1, <2>2
<1>4. ASSUME NEW i \in Ids, NewVisitor(i) PROVE C /\ D
  <2>1. cur[Loop] = 0 /\ cur' = [cur EXCEPT ![Loop] = made + 1]
    BY <1>0, <1>4 DEF NewVisitor, With, VisitInv, ThreadInv
  <2>2. \A t \in Threads : cur[t] # 0 => cur'[t] = cur[t]
    BY <1>0, <2>1 DEF VisitInv, PeopleType
  <2>3. UNCHANGED <<visitors, peers, local, replaced>>
    BY <1>4 DEF NewVisitor
  <2> QED BY <2>2, <2>3, <1>same
<1>5. ASSUME NEW i \in Ids, Transport(i) PROVE C /\ D
  <2>1. cur[Loop] = 0 /\ cur' = [cur EXCEPT ![Loop] = peers[i]]
    BY <1>0, <1>5 DEF Transport, With, VisitInv, ThreadInv
  <2>2. \A t \in Threads : cur[t] # 0 => cur'[t] = cur[t]
    BY <1>0, <2>1 DEF VisitInv, PeopleType
  <2>3. UNCHANGED <<visitors, peers, local, replaced>>
    BY <1>5 DEF Transport
  <2> QED BY <2>2, <2>3, <1>same
<1>6. ASSUME NEW i \in Ids, VisitorLeft(i) PROVE C /\ D
  <2>1. cur[Loop] = 0 /\ cur' = [cur EXCEPT ![Loop] = peers[i]]
    BY <1>0, <1>6 DEF VisitorLeft, With, VisitInv, ThreadInv
  <2>2. (\A t \in Threads : cur[t] # 0 => cur'[t] = cur[t]) /\ cur'[Loop] = peers[i]
    BY <1>0, <2>1 DEF VisitInv, PeopleType
  <2>3. /\ UNCHANGED <<visitors, local, replaced>>
        /\ \A j \in Ids : peers'[j] = IF j = i THEN 0 ELSE peers[j]
    BY <1>6 DEF VisitorLeft, VisitInv, PeopleType
  <2>4. C
    BY <1>0, <1>2, <2>2, <2>3
  <2>5. D
    BY <1>0, <1>2, <2>2, <2>3
  <2> QED BY <2>4, <2>5
<1>7. ASSUME NEW l \in Locals, NewLocal(l) PROVE C /\ D
  <2>1. cur[l] = 0 /\ cur' = [cur EXCEPT ![l] = made + 1]
    BY <1>0, <1>7 DEF NewLocal, With, VisitInv, ThreadInv
  <2>2. \A t \in Threads : cur[t] # 0 => cur'[t] = cur[t]
    BY <1>0, <2>1 DEF VisitInv, PeopleType
  <2>3. UNCHANGED <<visitors, peers, local, replaced>>
    BY <1>7 DEF NewLocal
  <2> QED BY <2>2, <2>3, <1>same
<1>8. ASSUME NEW l \in Locals, LocalMessage(l) \/ CloseLocal(l) PROVE C /\ D
  <2>1. cur[l] = 0 /\ cur' = [cur EXCEPT ![l] = local[l]]
    BY <1>0, <1>8 DEF LocalMessage, CloseLocal, With, VisitInv, ThreadInv
  <2>2. (\A t \in Threads : cur[t] # 0 => cur'[t] = cur[t]) /\ cur'[l] = local[l]
    BY <1>0, <2>1 DEF VisitInv, PeopleType
  <2>3. UNCHANGED <<visitors, peers, replaced>> /\ \A k \in Locals : k # l => local'[k] = local[k]
    BY <1>8 DEF LocalMessage, CloseLocal, people, VisitInv, PeopleType
  <2>4. C
    BY <1>0, <1>2, <2>2, <2>3
  <2>5. D
    BY <1>0, <1>2, <2>2, <2>3
  <2> QED BY <2>4, <2>5
<1>9. ASSUME NEW t \in Threads, Join(t) PROVE C /\ D
  <2>1. UNCHANGED <<peers, replaced>> /\ visitors' = visitors \cup {cur[t]} /\ at[t] \in Joining
    BY <1>9 DEF Join
  <2>2. CASE t \in Locals
    <3>1. /\ \A u \in Threads : u # t => cur'[u] = cur[u]
          /\ local'[t] = cur[t] /\ \A k \in Locals : k # t => local'[k] = local[k]
      BY <1>9, <2>2 DEF Join, With, Finish, VisitInv, PeopleType
    <3>2. local[t] = 0
      BY <2>1, <2>2 DEF VisitInv, ThreadInv
    <3> QED BY <1>0, <1>2, <2>1, <2>2, <3>1, <3>2
  <2>3. CASE t \notin Locals
    <3>1. cur' = cur /\ local' = local
      BY <1>9, <2>3 DEF Join, Step
    <3> QED BY <1>0, <1>2, <2>1, <3>1
  <2> QED BY <2>2, <2>3
<1>10. ASSUME NEW t \in Threads, HandleStep(t) \/ LogIn(t) PROVE C /\ D
  <2>1. /\ UNCHANGED <<visitors, peers, local, replaced>> /\ at[t] \in Messaging
        /\ \A u \in Threads : u # t => cur'[u] = cur[u]
    BY <1>10 DEF HandleStep, LogIn, Finish, With, Step, people, VisitInv, PeopleType
  <2>2. \/ \E i \in Ids : peers[i] = cur[t]
        \/ t \in Locals /\ local[t] = cur[t]
    BY <1>1, <2>1 DEF VisitInv, ThreadInv, HarborInv, Threads
  <2>3. cur[t] \in visitors
    BY <1>1, <2>1 DEF VisitInv, ThreadInv, HarborInv, Threads
  <2>4. ASSUME NEW v \in visitors
        PROVE  \/ \E i \in Ids : peers[i] = v
               \/ \E l \in Locals : local[l] = v
               \/ \E u \in Threads : cur'[u] = v
               \/ v \in replaced
    BY <1>2, <2>1, <2>2
  <2>5. ASSUME NEW i \in Ids, peers[i] # 0
        PROVE  peers[i] \in visitors \/ \E u \in Threads : cur'[u] = peers[i]
    BY <1>2, <2>1, <2>3, <2>5
  <2> QED BY <2>1, <2>4, <2>5
<1>11. ASSUME NEW t \in Threads, LeftVisitor(t) PROVE C /\ D
  <2>1. /\ UNCHANGED <<peers, local, replaced>> /\ at[t] = "close"
        /\ visitors' = visitors \ {cur[t]}
        /\ \A u \in Threads : u # t \/ t = Sweeper => cur'[u] = cur[u]
    BY <1>11 DEF LeftVisitor, Finish, With, Step, VisitInv, PeopleType
  <2>2. C
    BY <1>2, <2>1
  <2>3. CASE t = Sweeper
    <3>1. ASSUME NEW i \in Ids, peers[i] # 0
          PROVE  peers[i] \in visitors' \/ \E u \in Threads : cur'[u] = peers[i]
      BY <1>2, <2>1, <2>3, <3>1
    <3> QED BY <2>1, <2>2, <3>1
  <2>4. CASE t # Sweeper
    <3>1. \A i \in Ids : peers[i] # cur[t]
      <4>1. CASE t = Loop
        BY <1>1, <2>1, <4>1 DEF HarborInv
      <4>2. CASE t \in Locals
        <5>1. cur[t] \in 1 .. made
          BY <2>1 DEF VisitInv, ThreadInv, PeopleType
        <5> QED BY <4>2, <5>1 DEF VisitInv, OwnInv, OfLocal, OfHarbor
      <4> QED BY <2>4, <4>1, <4>2 DEF Threads
    <3>2. ASSUME NEW i \in Ids, peers[i] # 0
          PROVE  peers[i] \in visitors' \/ \E u \in Threads : cur'[u] = peers[i]
      BY <1>2, <2>1, <3>1, <3>2
    <3> QED BY <2>1, <2>2, <3>2
  <2> QED BY <2>3, <2>4
<1>12. ASSUME Put PROVE C /\ D
  <2>1. /\ \A j \in Ids : peers'[j] = IF j = slot[Loop] THEN cur[Loop] ELSE peers[j]
        /\ UNCHANGED <<visitors, local>> /\ at[Loop] \in Putting
        /\ replaced' = replaced \cup ({peers[slot[Loop]]} \ {0})
        /\ \A u \in Threads : u # Loop => cur'[u] = cur[u]
    BY <1>0, <1>12 DEF Put, With, Step, Finish, VisitInv, PeopleType
  <2>2. cur[Loop] \in visitors
    BY <1>1, <2>1 DEF HarborInv
  <2>3. ASSUME NEW v \in visitors
        PROVE  \/ \E i \in Ids : peers'[i] = v
               \/ \E l \in Locals : local[l] = v
               \/ \E u \in Threads : cur'[u] = v
               \/ v \in replaced'
    <3>1. v # 0
      BY <1>0
    <3> QED BY <1>0, <1>2, <2>1, <3>1
  <2>4. ASSUME NEW i \in Ids, peers'[i] # 0
        PROVE  peers'[i] \in visitors \/ \E u \in Threads : cur'[u] = peers'[i]
    BY <1>2, <2>1, <2>2, <2>4
  <2> QED BY <2>1, <2>3, <2>4
<1>13. ASSUME TearDown PROVE C /\ D
  BY <1>2, <1>13 DEF TearDown, Step
<1>14. ASSUME NextPeer PROVE C /\ D
  <2>1. /\ UNCHANGED <<visitors, peers, local, replaced>> /\ at[Sweeper] = "next"
        /\ \A u \in Threads : u # Sweeper => cur'[u] = cur[u]
    BY <1>0, <1>14 DEF NextPeer, With, Finish, VisitInv, PeopleType
  <2>2. /\ cur[Sweeper] \notin visitors
        /\ \A i \in Ids : peers[i] # 0 => peers[i] # cur[Sweeper]
    BY <1>1, <2>1 DEF HarborInv
  <2>3. C
    BY <1>2, <2>1, <2>2
  <2>4. D
    BY <1>2, <2>1, <2>2
  <2> QED BY <2>3, <2>4
<1>15. ASSUME RemovePeer PROVE C /\ D
  <2>1. ~modified
    BY <1>1 DEF HarborInv
  <2>2. /\ UNCHANGED <<visitors, local, replaced, cur>> /\ at[Sweeper] = "remove"
        /\ \A j \in Ids : peers'[j] = IF j = slot[Sweeper] THEN 0 ELSE peers[j]
    BY <1>0, <1>15, <2>1 DEF RemovePeer, Step, VisitInv, PeopleType
  <2>3. peers[slot[Sweeper]] = cur[Sweeper] /\ cur[Sweeper] \notin visitors
    BY <1>1, <2>2 DEF HarborInv
  <2>4. C
    BY <1>0, <1>2, <2>2, <2>3
  <2>5. D
    BY <1>2, <2>2
  <2> QED BY <2>4, <2>5
<1>16. ASSUME UNCHANGED <<people, at, cur>> PROVE C /\ D
  BY <1>2, <1>16 DEF people
<1>17. C /\ D
  BY <1>4, <1>5, <1>6, <1>7, <1>8, <1>9, <1>10, <1>11, <1>12, <1>13, <1>14, <1>15, <1>16
     DEF VisitorStep
<1> QED BY <1>3, <1>17

-----------------------------------------------------------------------------
(* The notification.                                                       *)
LEMMA ForegroundInit == Init => ForegroundAgrees
BY DEF Init, VisitorsInit, ForegroundAgrees

LEMMA ForegroundStep ==
    ASSUME VisitInv, HarborInv, ForegroundAgrees, VisitorStep
    PROVE  ForegroundAgrees'
<1>1. ASSUME NEW i \in Ids, NewVisitor(i) \/ Transport(i) \/ VisitorLeft(i)
      PROVE  ForegroundAgrees'
  <2>1. UNCHANGED <<visitors, foreground>> /\ (overlap => overlap')
    BY <1>1 DEF NewVisitor, Transport, VisitorLeft, Note
  <2> QED BY <2>1 DEF ForegroundAgrees
<1>2. ASSUME NEW l \in Locals, NewLocal(l) \/ LocalMessage(l) \/ CloseLocal(l)
      PROVE  ForegroundAgrees'
  BY <1>2 DEF NewLocal, LocalMessage, CloseLocal, people, ForegroundAgrees
<1>3. ASSUME NEW t \in Threads, Join(t) PROVE ForegroundAgrees'
  BY <1>3 DEF Join, ForegroundAgrees
<1>4. ASSUME NEW t \in Threads, HandleStep(t) PROVE ForegroundAgrees'
  BY <1>4 DEF HandleStep, people, ForegroundAgrees
<1>5. ASSUME NEW t \in Threads, LeftVisitor(t) PROVE ForegroundAgrees'
  BY <1>5 DEF LeftVisitor, ForegroundAgrees
<1>6. ASSUME NEW t \in Threads, LogIn(t) PROVE ForegroundAgrees'
  <2>1. /\ foreground' = TRUE /\ visitors' = visitors /\ overlap' = overlap
        /\ at[t] \in Messaging
    BY <1>6 DEF LogIn, Messaging
  <2>2. ~overlap => cur[t] \in visitors
    BY <2>1 DEF VisitInv, ThreadInv, HarborInv, Threads, Messaging
  <2> QED BY <2>1, <2>2 DEF ForegroundAgrees
<1>7. CASE Put \/ NextPeer \/ RemovePeer
  BY <1>7 DEF Put, NextPeer, RemovePeer, ForegroundAgrees
<1>9. CASE TearDown
  <2>1. UNCHANGED <<visitors, foreground>> /\ (overlap => overlap')
    BY <1>9 DEF TearDown
  <2> QED BY <2>1 DEF ForegroundAgrees
<1>8. CASE UNCHANGED <<people, at, cur>>
  BY <1>8 DEF people, ForegroundAgrees
<1> QED BY <1>1, <1>2, <1>3, <1>4, <1>5, <1>6, <1>7, <1>8, <1>9 DEF VisitorStep

(* Everything about the visitors, as an invariant of the specification.    *)
PeopleInv == VisitInv /\ HarborInv /\ StoreAgrees /\ ForegroundAgrees

LEMMA PeopleInit == Init => PeopleInv
BY VisitInit, HarborInit, ForegroundInit DEF PeopleInv

LEMMA PeopleStep == PeopleInv /\ [Next]_vars => PeopleInv'
BY StepKinds, VisitStep, HarborStep, StoreStep, ForegroundStep DEF PeopleInv

(* VisitorManager, VisitorStore and the local connections agree on who is  *)
(* there, for any number of ids, local connections and visitors, as long   *)
(* as no message of the harbor is handled while the close listener runs.   *)
THEOREM VisitorsAgree == Spec => []StoreAgrees
<1>1. PeopleInv => StoreAgrees
  BY DEF PeopleInv
<1> QED BY <1>1, PeopleInit, PeopleStep, PTL DEF Spec

(* The notification is shown whenever somebody is connected and goes with  *)
(* the last one, whichever threads the visitors come and leave on.         *)
THEOREM NotificationAgrees == Spec => []ForegroundAgrees
<1>1. PeopleInv => ForegroundAgrees
  BY DEF PeopleInv
<1> QED BY <1>1, PeopleInit, PeopleStep, PTL DEF Spec

-----------------------------------------------------------------------------
(* The keyboard.  Of a step that makes a visitor come, go or log in, no    *)
(* thread that is giving a key to its handlers takes notice.               *)
GivingKey == {"onData", "enqueue"}

Quiet ==
    \A t \in Threads : \/ at'[t] = at[t] /\ cur'[t] = cur[t]
                       \/ at[t] \notin GivingKey /\ at'[t] \notin GivingKey

LEMMA QuietSteps ==
    ASSUME VisitInv, \/ Arrive \/ Admit \/ Others \/ \E t \in Threads : Leave(t)
    PROVE  Quiet
<1> USE DEF Quiet, GivingKey, VisitInv, PeopleType
<1>0. /\ Loop \in Threads /\ Sweeper \in Threads
      /\ \A l \in Locals : l \in Threads
  BY DEF Threads
<1>1. ASSUME NEW i \in Ids, NewVisitor(i) \/ Transport(i) \/ VisitorLeft(i) PROVE Quiet
  BY <1>0, <1>1 DEF NewVisitor, Transport, VisitorLeft, With
<1>2. ASSUME NEW l \in Locals, NewLocal(l) \/ LocalMessage(l) \/ CloseLocal(l) PROVE Quiet
  BY <1>0, <1>2 DEF NewLocal, LocalMessage, CloseLocal, With
<1>3. ASSUME NEW t \in Threads, Join(t) \/ OtherMessage(t) PROVE Quiet
  BY <1>3 DEF Join, OtherMessage, With, Step, Finish
<1>4. ASSUME NEW t \in Threads, LogIn(t) \/ LeftVisitor(t) PROVE Quiet
  BY <1>4 DEF LogIn, LeftVisitor, With, Step, Finish
<1>5. CASE Put \/ TearDown \/ NextPeer \/ RemovePeer
  BY <1>0, <1>5 DEF Put, TearDown, NextPeer, RemovePeer, With, Step, Finish
<1> HIDE DEF Quiet
<1>6. CASE Arrive
  BY <1>1, <1>2, <1>6 DEF Arrive
<1>7. CASE Admit
  BY <1>0, <1>4, <1>7 DEF Admit
<1>8. CASE Others
  BY <1>1, <1>2, <1>3, <1>5, <1>8 DEF Others
<1>9. CASE \E t \in Threads : Leave(t)
  BY <1>4, <1>9 DEF Leave
<1> QED BY <1>6, <1>7, <1>8, <1>9

(* The login that is admitted is the one of the thread's visitor.          *)
LEMMA Admitted ==
    ASSUME VisitInv, Admit
    PROVE  \E t \in Threads : LogIn(t) /\ listener' = 2 * cur[t] /\ cur[t] \in 1 .. made
<1>1. PICK t \in Threads : LogIn(t)
  BY DEF Admit, Threads
<1>2. named' = named \cup {cur[t]} /\ cur[t] \notin named /\ at[t] = "message"
  BY <1>1 DEF LogIn
<1>3. (CHOOSE v \in named' : v \notin named) = cur[t]
  BY <1>2
<1>4. cur[t] \in 1 .. made
  BY <1>2 DEF VisitInv, ThreadInv, PeopleType
<1> QED BY <1>1, <1>3, <1>4 DEF Admit

(* The rest of the types.                                                  *)
Wire == {"DISABLE", "user", "ours", "fallback"}

KeyType ==
    /\ listener \in 0 .. 2 * made /\ draining \in 0 .. 2 * made
    /\ sent \in 0 .. MaxMessages
    /\ service \subseteq Handlers
    /\ keyEvents \in [Handlers -> 0 .. KeyCapacity]
    /\ todo \in [Threads -> SUBSET Handlers]
    /\ wire \in Seq(Wire) /\ Len(wire) <= WireCapacity
    /\ ime \in {"user", "ours", "fallback"}
    /\ restoreIme \in {"none", "user", "ours", "fallback"}
    /\ created \in BOOLEAN /\ lost \in BOOLEAN /\ again \in BOOLEAN

LEMMA TypeParts == TypeOK <=> PeopleType /\ KeyType
BY DEF TypeOK, PeopleType, KeyType, ThreadPC, Wire

LEMMA KeyTypeInit == Init => KeyType
<1> SUFFICES ASSUME Init PROVE KeyType
  OBVIOUS
<1>1. /\ listener \in 0 .. 2 * made /\ draining \in 0 .. 2 * made
      /\ sent \in 0 .. MaxMessages /\ wire \in Seq(Wire) /\ Len(wire) <= WireCapacity
  BY DEF Init, VisitorsInit
<1>2. /\ keyEvents \in [Handlers -> 0 .. KeyCapacity]
      /\ todo \in [Threads -> SUBSET Handlers]
  BY DEF Init
<1> QED BY <1>1, <1>2 DEF Init, KeyType

(* sendMsg() keeps what is true of every message in the queue, and the     *)
(* bound of the queue.                                                     *)
LEMMA SendTyped ==
    ASSUME NEW S, wire \in Seq(S), lost \in BOOLEAN, NEW msgs \in Seq(S), Send(msgs)
    PROVE  /\ wire' \in Seq(S) /\ Len(wire') <= WireCapacity
           /\ lost' \in BOOLEAN /\ (lost => lost')
           /\ ~lost' => wire' = wire \o msgs
<1>1. /\ wire \o msgs \in Seq(S) /\ Len(wire) \in Nat /\ Len(msgs) \in Nat
      /\ Len(wire \o msgs) = Len(wire) + Len(msgs)
  OBVIOUS
<1>2. CASE Len(wire) + Len(msgs) <= WireCapacity
  BY <1>1, <1>2 DEF Send
<1>3. CASE ~(Len(wire) + Len(msgs) <= WireCapacity)
  <2>1. wire' = SubSeq(wire \o msgs, 1, WireCapacity) /\ lost' = TRUE
    BY <1>3 DEF Send
  <2>2. WireCapacity <= Len(wire \o msgs)
    BY <1>1, <1>3
  <2>3. /\ SubSeq(wire \o msgs, 1, WireCapacity) \in Seq(S)
        /\ Len(SubSeq(wire \o msgs, 1, WireCapacity)) = WireCapacity
    BY <1>1, <2>2
  <2>4. wire' \in Seq(S) /\ Len(wire') = WireCapacity
    BY <2>1, <2>3, Zenon
  <2>5. Len(wire') <= WireCapacity
    BY <2>4
  <2> QED BY <2>1, <2>4, <2>5, Zenon
<1> QED BY <1>2, <1>3

(* A visitor that leaves has one handler, or two when it has logged in:    *)
(* so many messages DISABLE are sent.                                      *)
Disables(v) == [h \in 1 .. Cardinality(HandlersOf(v)) |-> "DISABLE"]

LEMMA DisablesTyped ==
    ASSUME NEW v \in Nat
    PROVE  /\ Disables(v) \in Seq(Wire) /\ Len(Disables(v)) \in {1, 2}
           /\ \A i \in 1 .. Len(Disables(v)) : Disables(v)[i] = "DISABLE"
<1>1. Cardinality({2 * v - 1}) = 1 /\ IsFiniteSet({2 * v - 1})
  BY FS_Singleton
<1>2. 2 * v \notin {2 * v - 1} /\ {2 * v - 1, 2 * v} = {2 * v - 1} \cup {2 * v}
  OBVIOUS
<1>3. Cardinality({2 * v - 1, 2 * v}) = 2
  BY <1>1, <1>2, FS_AddElement
<1>4. Cardinality(HandlersOf(v)) \in {1, 2}
  BY <1>1, <1>3 DEF HandlersOf
<1> DEFINE n == Cardinality(HandlersOf(v))
           D == [h \in 1 .. n |-> "DISABLE"]
<1>5. n \in Nat
  BY <1>4
<1> HIDE DEF n
<1>6. /\ D \in Seq(Wire) /\ Len(D) = n
      /\ \A i \in 1 .. n : D[i] = "DISABLE"
  BY <1>5 DEF Wire
<1> QED BY <1>4, <1>6 DEF n, Disables

(* The part of the state that Android, the input method and the backend    *)
(* change on their own.                                                    *)
LEMMA KeyTypeStep ==
    ASSUME VisitInv, PeopleType', KeyType, [Next]_vars
    PROVE  KeyType'
<1> USE DEF KeyType
<1>0. /\ made \in Nat /\ made' \in Nat /\ MaxVisitors \in Nat
      /\ made <= MaxVisitors /\ made' <= MaxVisitors
      /\ \A t \in Threads : at[t] \notin {"idle", "next"} => cur[t] \in 1 .. made
  BY DEF VisitInv, ThreadInv, PeopleType
<1>1. CASE Arrive
  <2>1. made' = made + 1
    BY <1>1 DEF Arrive, NewVisitor, NewLocal
  <2>2. listener' \in 0 .. 2 * made' /\ draining' \in 0 .. 2 * made'
    BY <1>0, <1>1, <2>1 DEF Arrive
  <2> QED BY <1>1, <2>2 DEF Arrive
<1>2. CASE Admit
  <2>1. PICK t \in Threads : LogIn(t) /\ listener' = 2 * cur[t] /\ cur[t] \in 1 .. made
    BY <1>2, Admitted
  <2>2. made' = made
    BY <2>1 DEF LogIn
  <2>3. listener' \in 0 .. 2 * made' /\ draining' \in 0 .. 2 * made'
    BY <1>0, <1>2, <2>1, <2>2 DEF Admit
  <2> QED BY <1>2, <2>3 DEF Admit
<1>3. CASE Others
  <2>1. made' = made
    BY <1>3 DEF Others, Join, OtherMessage, Put, TearDown, NextPeer, RemovePeer, Transport,
                VisitorLeft, LocalMessage, CloseLocal, people
  <2> QED BY <1>3, <2>1 DEF Others, keyVars
<1>4. ASSUME NEW t \in Threads, Leave(t) PROVE KeyType'
  <2>1. made' = made /\ at[t] = "close"
    BY <1>4 DEF Leave, LeftVisitor
  <2>2. CASE visitors' = {}
    <3>1. Send(Disables(cur[t]))
      BY <1>4, <2>2 DEF Leave, Disables
    <3>2. wire' \in Seq(Wire) /\ Len(wire') <= WireCapacity /\ lost' \in BOOLEAN
      <4>1. cur[t] \in Nat
        <5> HIDE DEF KeyType
        <5> QED BY <1>0, <2>1
      <4>2. Disables(cur[t]) \in Seq(Wire)
        BY <4>1, DisablesTyped
      <4> QED BY <3>1, <4>2, SendTyped
    <3> QED BY <1>0, <1>4, <2>1, <2>2, <3>2 DEF Leave
  <2>3. CASE visitors' # {}
    BY <1>4, <2>1, <2>3 DEF Leave
  <2> QED BY <2>2, <2>3
<1>5. ASSUME NEW t \in Threads, KeyMessage(t) PROVE KeyType'
  <2>1. HandlersOf(cur[t]) \subseteq Handlers
    <3> HIDE DEF KeyType
    <3>1. cur[t] \in 1 .. made
      BY <1>0, <1>5 DEF KeyMessage
    <3> QED BY <1>0, <3>1 DEF HandlersOf, Handlers
  <2>2. sent' \in 0 .. MaxMessages
    BY <1>5, KeyboardAssumption DEF KeyMessage, Reached
  <2> QED BY <1>5, <2>1, <2>2 DEF KeyMessage, people
<1>6. ASSUME NEW t \in Threads, Inject(t) PROVE KeyType'
  BY <1>6 DEF Inject, NextHandler, people
<1>7. ASSUME NEW t \in Threads, Enable(t) PROVE KeyType'
  <2>1. <<ime>> \in Seq(Wire)
    BY DEF Wire
  <2>2. wire' \in Seq(Wire) /\ Len(wire') <= WireCapacity /\ lost' \in BOOLEAN
    BY <1>7, <2>1, SendTyped DEF Enable
  <2> QED BY <1>7, <2>2 DEF Enable, people
<1>8. ASSUME NEW t \in Threads, Enqueue(t) PROVE KeyType'
  <2>1. keyEvents' \in [Handlers -> 0 .. KeyCapacity]
    <3>1. \A n \in 0 .. KeyCapacity : (IF n < KeyCapacity THEN n + 1 ELSE n) \in 0 .. KeyCapacity
      OBVIOUS
    <3> DEFINE h == FirstOf(t)
               more == IF keyEvents[h] < KeyCapacity THEN keyEvents[h] + 1 ELSE keyEvents[h]
    <3>2. keyEvents' = [keyEvents EXCEPT ![h] = more]
      BY <1>8 DEF Enqueue
    <3>3. h \in Handlers => more \in 0 .. KeyCapacity
      BY <3>1
    <3> HIDE DEF h, more
    <3> QED BY <3>2, <3>3
  <2>2. todo' \in [Threads -> SUBSET Handlers]
    BY <1>8 DEF Enqueue, NextHandler
  <2> QED BY <1>8, <2>1, <2>2 DEF Enqueue, people
<1>9. CASE StartInput
  <2>0. listener # 0 => listener \in Handlers
    BY <1>0 DEF Handlers
  <2>1. service' \subseteq Handlers
    BY <1>9, <2>0 DEF StartInput
  <2> QED BY <1>9, <2>1 DEF StartInput, people
<1>10. CASE Drain
  <2>1. keyEvents' \in [Handlers -> 0 .. KeyCapacity] /\ draining' \in 0 .. 2 * made
    BY <1>0, <1>10 DEF Drain
  <2> QED BY <1>10, <2>1 DEF Drain, people
<1>11. CASE DestroyService
  <2>1. keyEvents' \in [Handlers -> 0 .. KeyCapacity]
    BY <1>11 DEF DestroyService
  <2>2. listener' \in 0 .. 2 * made
    BY <1>0, <1>11 DEF DestroyService
  <2> QED BY <1>11, <2>1, <2>2 DEF DestroyService, people
<1>12. CASE Deliver
  <2>1. /\ Head(wire) \in Wire /\ Tail(wire) \in Seq(Wire)
        /\ Len(Tail(wire)) <= WireCapacity
    BY <1>12 DEF Deliver
  <2>2. Disabled \in {"user", "ours", "fallback"}
    BY DEF Disabled
  <2> QED BY <1>12, <2>1, <2>2 DEF Deliver, people, Wire
<1>13. CASE Lose
  <2>1. Tail(wire) \in Seq(Wire) /\ Len(Tail(wire)) <= WireCapacity
    BY <1>13 DEF Lose
  <2> QED BY <1>13, <2>1 DEF Lose, people
<1>14. CASE Restart
  BY <1>14 DEF Restart, Disabled, people
<1>15. CASE UNCHANGED vars
  BY <1>15 DEF vars, people, keyVars
<1>16. CASE HarborOpen
  <2>1. listener' \in 0 .. 2 * made'
    BY <1>0, <1>16 DEF HarborOpen, people
  <2> QED BY <1>16, <2>1 DEF HarborOpen, people
<1> QED BY <1>1, <1>2, <1>3, <1>4, <1>5, <1>6, <1>7, <1>8, <1>9, <1>10, <1>11, <1>12,
           <1>13, <1>14, <1>15, <1>16 DEF Next

(* Every variable of Keyboard and Visitors has its type; in particular no  *)
(* handler keeps more than KeyCapacity keys, and the queue to the backend  *)
(* never holds more than WireCapacity messages.                            *)
THEOREM KeyboardTypeCorrect == Spec => []TypeOK
<1> DEFINE Inv == VisitInv /\ KeyType
<1>1. Init => Inv
  BY VisitInit, KeyTypeInit
<1>2. Inv /\ [Next]_vars => Inv'
  <2> SUFFICES ASSUME Inv, [Next]_vars PROVE Inv'
    OBVIOUS
  <2>1. VisitInv'
    BY StepKinds, VisitStep
  <2> QED BY <2>1, KeyTypeStep DEF VisitInv
<1>3. Inv => TypeOK
  BY TypeParts DEF VisitInv
<1> QED BY <1>1, <1>2, <1>3, PTL DEF Spec

-----------------------------------------------------------------------------
(* A key on its way to the handlers of a visitor.                          *)
LEMMA FirstIsOne ==
    ASSUME PeopleType, TodoInv, NEW t \in Threads, todo[t] # {}
    PROVE  FirstOf(t) \in todo[t]
<1>1. cur[t] \in Nat /\ todo[t] \subseteq {2 * cur[t] - 1, 2 * cur[t]}
  BY DEF PeopleType, TodoInv
<1>2. \E h \in todo[t] : \A g \in todo[t] : h <= g
  <2>1. CASE 2 * cur[t] - 1 \in todo[t]
    BY <1>1, <2>1
  <2>2. CASE 2 * cur[t] - 1 \notin todo[t]
    BY <1>1, <2>2
  <2> QED BY <2>1, <2>2
<1> QED BY <1>2 DEF FirstOf

(* The thread goes on exactly when a handler is left.                      *)
LEMMA LastHandler ==
    ASSUME PeopleType, TodoInv, NEW t \in Threads, todo[t] # {}
    PROVE  Cardinality(todo[t]) = 1 <=> todo[t] \ {FirstOf(t)} = {}
<1> DEFINE c == 2 * cur[t]
<1>1. IsFiniteSet({c - 1} \cup {c})
  <2>1. IsFiniteSet({c - 1})
    BY FS_Singleton
  <2> QED BY <2>1, FS_AddElement
<1>2. todo[t] \subseteq {c - 1} \cup {c}
  BY DEF TodoInv
<1>3. IsFiniteSet(todo[t])
  BY <1>1, <1>2, FS_Subset
<1>4. Cardinality(todo[t]) = 1 <=> \E x : todo[t] = {x}
  BY <1>3, FS_Singleton
<1>5. FirstOf(t) \in todo[t]
  BY FirstIsOne
<1> HIDE DEF c
<1> QED BY <1>4, <1>5, Zenon

LEMMA TodoInit == Init => TodoInv
BY DEF Init, VisitorsInit, TodoInv, Threads

LEMMA TodoStep ==
    ASSUME VisitInv, KeyType, TodoInv, [Next]_vars
    PROVE  TodoInv'
<1>0. /\ at \in [Threads -> ThreadPC] /\ cur \in [Threads -> 0 .. made] /\ made \in Nat
      /\ todo \in [Threads -> SUBSET Handlers] /\ PeopleType
  BY DEF VisitInv, PeopleType, KeyType
<1>1. CASE Quiet /\ todo' = todo
  BY <1>1 DEF Quiet, GivingKey, TodoInv
<1>2. CASE UNCHANGED <<at, cur, todo>>
  BY <1>2 DEF TodoInv
<1>3. ASSUME NEW t \in Threads, KeyMessage(t) PROVE TodoInv'
  <2>1. HandlersOf(cur[t]) \subseteq {2 * cur[t] - 1, 2 * cur[t]} /\ HandlersOf(cur[t]) # {}
    BY DEF HandlersOf
  <2>2. /\ todo' = [todo EXCEPT ![t] = HandlersOf(cur[t])] /\ cur' = cur
        /\ at' = [at EXCEPT ![t] = "onData"]
    BY <1>3 DEF KeyMessage, Step
  <2> QED BY <1>0, <2>1, <2>2 DEF TodoInv
<1>4. ASSUME NEW t \in Threads, at[t] \in GivingKey, NextHandler(t) PROVE TodoInv'
  <2>1. todo[t] # {}
    BY <1>4 DEF TodoInv, GivingKey
  <2>2. todo' = [todo EXCEPT ![t] = @ \ {FirstOf(t)}]
    BY <1>4 DEF NextHandler
  <2>3. \A u \in Threads : todo'[u] = IF u = t THEN todo[u] \ {FirstOf(t)} ELSE todo[u]
    BY <1>0, <2>2
  <2>4. CASE Cardinality(todo[t]) = 1
    <3>1. todo'[t] = {}
      BY <1>0, <2>1, <2>3, <2>4, LastHandler
    <3>2. \A u \in Threads : /\ at'[u] = IF u = t THEN "idle" ELSE at[u]
                             /\ cur'[u] = IF u = t THEN 0 ELSE cur[u]
      BY <1>0, <1>4, <2>4 DEF NextHandler, Finish, With
    <3> QED BY <2>3, <3>1, <3>2 DEF TodoInv
  <2>5. CASE Cardinality(todo[t]) # 1
    <3>1. todo'[t] # {}
      BY <1>0, <2>1, <2>3, <2>5, LastHandler
    <3>2. \A u \in Threads : /\ at'[u] = IF u = t THEN "onData" ELSE at[u]
                             /\ cur'[u] = cur[u]
      BY <1>0, <1>4, <2>5 DEF NextHandler, Step
    <3> QED BY <2>3, <3>1, <3>2 DEF TodoInv
  <2> QED BY <2>4, <2>5
<1>5. ASSUME NEW t \in Threads, Inject(t) \/ Enqueue(t) PROVE TodoInv'
  BY <1>4, <1>5 DEF Inject, Enqueue, GivingKey
<1>6. ASSUME NEW t \in Threads, Enable(t) PROVE TodoInv'
  BY <1>0, <1>6 DEF Enable, Step, TodoInv
<1>7. CASE \/ Arrive \/ Admit \/ Others \/ \E t \in Threads : Leave(t)
  <2>1. todo' = todo
    BY <1>7 DEF Arrive, Admit, Others, Leave, keyVars
  <2> QED BY <1>1, <1>7, <2>1, QuietSteps
<1>8. CASE \/ HarborOpen \/ StartInput \/ Drain \/ DestroyService
          \/ Deliver \/ Lose \/ Restart \/ UNCHANGED vars
  <2>1. UNCHANGED <<at, cur, todo>>
    BY <1>8 DEF HarborOpen, StartInput, Drain, DestroyService, Deliver, Lose, Restart,
                vars, keyVars
  <2> QED BY <1>2, <2>1
<1> QED BY <1>3, <1>5, <1>6, <1>7, <1>8 DEF Next

(* Two threads never give a key to the same handler: a visitor is served   *)
(* by the harbor's loop or by its local connection, not by both.           *)
LEMMA OneGiver ==
    ASSUME VisitInv, TodoInv, NEW t \in Threads, NEW u \in Threads,
           at[t] \in GivingKey, at[u] \in GivingKey, FirstOf(t) = FirstOf(u)
    PROVE  t = u
<1>1. FirstOf(t) \in todo[t] /\ FirstOf(u) \in todo[u]
  BY FirstIsOne DEF VisitInv, TodoInv, GivingKey
<1>2. /\ cur[t] \in 1 .. made /\ cur[u] \in 1 .. made /\ made \in Nat
      /\ t # Sweeper /\ u # Sweeper
  BY DEF VisitInv, ThreadInv, PeopleType, GivingKey
<1>3. /\ FirstOf(t) = 2 * cur[t] - 1 \/ FirstOf(t) = 2 * cur[t]
      /\ FirstOf(t) = 2 * cur[u] - 1 \/ FirstOf(t) = 2 * cur[u]
  BY <1>1 DEF TodoInv
<1>4. cur[t] = cur[u]
  BY <1>2, <1>3
<1>5. CASE t \in Locals \/ u \in Locals
  BY <1>2, <1>4, <1>5 DEF VisitInv, OwnInv, OfLocal, OfHarbor, Threads
<1>6. CASE t \notin Locals /\ u \notin Locals
  BY <1>2, <1>6 DEF Threads
<1> QED BY <1>5, <1>6

LEMMA KeptInit == Init => KeptInv
BY DEF Init, KeptInv

(* Who is about to keep a key for handler h.                               *)
About(t, h) == at[t] = "enqueue" /\ FirstOf(t) = h

LEMMA KeptStep ==
    ASSUME VisitInv, KeyType, TodoInv, KeptInv, [Next]_vars
    PROVE  KeptInv'
<1>0. /\ at \in [Threads -> ThreadPC] /\ todo \in [Threads -> SUBSET Handlers]
      /\ keyEvents \in [Handlers -> 0 .. KeyCapacity] /\ service \subseteq Handlers
      /\ \A h \in Handlers : h # 0 /\ keyEvents[h] \in Nat
  BY DEF VisitInv, PeopleType, KeyType, Handlers
<1>1. ASSUME \A t \in Threads : \A h \in service' : About(t, h)' => About(t, h),
             service' \ {draining'} \subseteq service \ {draining},
             \A h \in service' \ {draining'} : keyEvents'[h] = keyEvents[h] \/ keyEvents'[h] = 0
      PROVE  KeptInv'
  BY <1>0, <1>1 DEF KeptInv, About
<1>2. ASSUME todo' = todo, \A t \in Threads : at'[t] = "enqueue" => at[t] = "enqueue"
      PROVE  \A t \in Threads : \A h \in service' : About(t, h)' => About(t, h)
  BY <1>2 DEF About, FirstOf
<1>3. CASE \/ Arrive \/ Admit \/ Others \/ \E t \in Threads : Leave(t)
  <2>1. /\ todo' = todo /\ service' \subseteq service
        /\ UNCHANGED <<draining, keyEvents>>
    BY <1>3 DEF Arrive, Admit, Others, Leave, keyVars
  <2>2. \A t \in Threads : at'[t] = "enqueue" => at[t] = "enqueue"
    BY <1>3, QuietSteps DEF Quiet, GivingKey
  <2>3. \A t \in Threads : \A h \in service' : About(t, h)' => About(t, h)
    BY <1>2, <2>1, <2>2
  <2> QED BY <1>1, <2>1, <2>3
<1>4. ASSUME NEW t \in Threads, KeyMessage(t) \/ Inject(t) PROVE KeptInv'
  <2>1. /\ UNCHANGED <<service, draining, keyEvents>>
        /\ at'[t] # "enqueue" /\ \A u \in Threads : u # t => at'[u] = at[u] /\ todo'[u] = todo[u]
    BY <1>0, <1>4 DEF KeyMessage, Inject, NextHandler, Step, Finish, With
  <2>2. \A u \in Threads : \A h \in service' : About(u, h)' => About(u, h)
    BY <2>1 DEF About, FirstOf
  <2> QED BY <1>1, <2>1, <2>2
<1>5. ASSUME NEW t \in Threads, Enable(t) PROVE KeptInv'
  <2>1. /\ UNCHANGED <<service, draining, keyEvents, todo>> /\ FirstOf(t) \notin service
        /\ \A u \in Threads : u # t => at'[u] = at[u]
    BY <1>0, <1>5 DEF Enable, Step
  <2>2. FirstOf(t)' = FirstOf(t) /\ \A u \in Threads : FirstOf(u)' = FirstOf(u)
    BY <2>1 DEF FirstOf
  <2>3. \A u \in Threads : \A h \in service' : About(u, h)' => About(u, h)
    BY <2>1, <2>2 DEF About
  <2> QED BY <1>1, <2>1, <2>3
<1>6. ASSUME NEW t \in Threads, Enqueue(t) PROVE KeptInv'
  <2> DEFINE k == FirstOf(t)
  <2>1. /\ UNCHANGED <<service, draining>> /\ at[t] = "enqueue" /\ at'[t] # "enqueue"
        /\ \A u \in Threads : u # t => at'[u] = at[u] /\ todo'[u] = todo[u]
    BY <1>0, <1>6 DEF Enqueue, NextHandler, Step, Finish, With
  <2>2. \A u \in Threads : \A h \in service' : About(u, h)' => u # t /\ About(u, h)
    BY <2>1 DEF About, FirstOf
  <2>3. \A u \in Threads : About(u, k) => u = t
    BY <2>1, OneGiver DEF About, GivingKey
  <2>4. \A h \in Handlers : /\ h # k => keyEvents'[h] = keyEvents[h]
                            /\ h = k => keyEvents'[h] \in {keyEvents[h], keyEvents[h] + 1}
    BY <1>0, <1>6 DEF Enqueue
  <2>5. k \in service \ {draining} => keyEvents[k] = 0
    BY <2>1 DEF KeptInv
  <2> HIDE DEF k
  <2>6. ASSUME NEW h \in service' \ {draining'}
        PROVE  /\ keyEvents'[h] <= 1
               /\ (\E u \in Threads : About(u, h)') => keyEvents'[h] = 0
    <3>1. h \in service \ {draining} /\ h \in Handlers
      BY <1>0, <2>1, <2>6
    <3>2. CASE h = k
      <4>1. keyEvents'[h] \in {0, 1}
        BY <2>4, <2>5, <3>1, <3>2
      <4>2. ~\E u \in Threads : About(u, h)'
        BY <2>2, <2>3, <3>2, <2>6
      <4> QED BY <4>1, <4>2
    <3>3. CASE h # k
      <4>1. keyEvents'[h] = keyEvents[h]
        BY <2>4, <3>1, <3>3
      <4>2. \A u \in Threads : About(u, h)' => About(u, h)
        BY <2>2, <2>6
      <4> QED BY <3>1, <4>1, <4>2 DEF KeptInv, About
    <3> QED BY <3>2, <3>3
  <2> QED BY <2>6 DEF KeptInv, About
<1>7. CASE StartInput
  <2>1. /\ UNCHANGED <<at, todo, keyEvents>> /\ service' \ {draining'} \subseteq service \ {draining}
    BY <1>0, <1>7 DEF StartInput
  <2> QED BY <1>1, <1>2, <2>1
<1>8. CASE Drain
  <2>1. UNCHANGED <<at, todo, service>> /\ draining # 0
    BY <1>8 DEF Drain
  <2>2. CASE keyEvents[draining] > 0
    <3>1. UNCHANGED draining /\ \A h \in Handlers : h # draining => keyEvents'[h] = keyEvents[h]
      BY <1>0, <1>8, <2>2 DEF Drain
    <3>2. \A h \in service' \ {draining'} : keyEvents'[h] = keyEvents[h]
      BY <1>0, <2>1, <3>1
    <3> QED BY <1>1, <1>2, <2>1, <3>1, <3>2
  <2>3. CASE ~(keyEvents[draining] > 0)
    <3>1. UNCHANGED keyEvents
      BY <1>8, <2>3 DEF Drain
    <3>2. draining \in service => keyEvents[draining] = 0
      BY <1>0, <2>3
    <3>3. \A t \in Threads : \A h \in service : About(t, h)' => About(t, h)
      BY <1>2, <2>1
    <3>4. ASSUME NEW h \in service'
          PROVE  /\ keyEvents'[h] <= 1
                 /\ (\E u \in Threads : About(u, h)') => keyEvents'[h] = 0
      <4>1. CASE h = draining
        BY <2>1, <3>1, <3>2, <4>1, <3>4
      <4>2. CASE h # draining
        BY <2>1, <3>1, <3>3, <4>2, <3>4 DEF KeptInv, About
      <4> QED BY <4>1, <4>2
    <3> QED BY <3>4 DEF KeptInv, About
  <2> QED BY <2>2, <2>3
<1>9. CASE DestroyService
  <2>1. UNCHANGED <<at, todo, draining>> /\ service' \subseteq service
    BY <1>9 DEF DestroyService
  <2>2. \A h \in Handlers : keyEvents'[h] = keyEvents[h] \/ keyEvents'[h] = 0
    BY <1>9 DEF DestroyService
  <2>3. \A h \in service' : keyEvents'[h] = keyEvents[h] \/ keyEvents'[h] = 0
    BY <1>0, <2>1, <2>2
  <2> QED BY <1>1, <1>2, <2>1, <2>3
<1>10. CASE HarborOpen \/ Deliver \/ Lose \/ Restart \/ UNCHANGED vars
  <2>1. UNCHANGED <<at, todo, draining, service, keyEvents>>
    BY <1>10 DEF HarborOpen, Deliver, Lose, Restart, vars, keyVars
  <2> QED BY <1>1, <1>2, <2>1
<1> QED BY <1>3, <1>4, <1>5, <1>6, <1>7, <1>8, <1>9, <1>10 DEF Next

-----------------------------------------------------------------------------
(* The messages to the backend, and what becomes of the input method.      *)
Polite == {"DISABLE", "user"}

LEMMA DisabledNotOurs ==
    ASSUME KeyType, MessagesInv
    PROVE  /\ Disabled # "ours"
           /\ ~again => Disabled # "fallback"
BY DEF KeyType, MessagesInv, Disabled

LEMMA PoliteWire ==
    ASSUME KeyType, MessagesInv, ~again
    PROVE  wire \in Seq(Polite)
<1>1. wire \in Seq(Wire) /\ \A i \in 1 .. Len(wire) : wire[i] \in Polite
  BY DEF KeyType, MessagesInv, Polite
<1> QED BY <1>1

LEMMA MessagesInit == Init => MessagesInv
BY DEF Init, MessagesInv

LEMMA MessagesStep ==
    ASSUME VisitInv, KeyType, MessagesInv, [Next]_vars
    PROVE  MessagesInv'
<1>1. ASSUME NEW t \in Threads, Leave(t) PROVE MessagesInv'
  <2>1. UNCHANGED <<ime, restoreIme, again>> /\ at[t] = "close"
    BY <1>1 DEF Leave, LeftVisitor
  <2>2. CASE visitors' # {}
    BY <1>1, <2>1, <2>2 DEF Leave, MessagesInv
  <2>3. CASE visitors' = {}
    <3>1. Send(Disables(cur[t])) /\ cur[t] \in Nat
      BY <1>1, <2>1, <2>3 DEF Leave, Disables, VisitInv, PeopleType
    <3>2. Disables(cur[t]) \in Seq(Polite)
      <4> DEFINE D == Disables(cur[t])
      <4>1. D \in Seq(Wire) /\ \A i \in 1 .. Len(D) : D[i] \in Polite
        BY <3>1, DisablesTyped DEF Polite
      <4> HIDE DEF D
      <4>2. D \in Seq(Polite)
        BY <4>1
      <4> QED BY <4>2 DEF D
    <3>3. ~again => wire' \in Seq(Polite)
      BY <3>1, <3>2, PoliteWire, SendTyped DEF KeyType
    <3> QED BY <2>1, <3>3 DEF MessagesInv, Polite
  <2> QED BY <2>2, <2>3
<1>2. ASSUME NEW t \in Threads, Enable(t) PROVE MessagesInv'
  <2>1. UNCHANGED <<ime, restoreIme>> /\ again' = (again \/ ime = "ours") /\ Send(<<ime>>)
    BY <1>2 DEF Enable
  <2>2. ASSUME ~again' PROVE wire' \in Seq(Polite)
    <3>1. ~again /\ ime = "user"
      BY <2>1, <2>2 DEF MessagesInv, KeyType
    <3>2. <<ime>> \in Seq(Polite)
      BY <3>1 DEF Polite
    <3> QED BY <2>1, <3>1, <3>2, PoliteWire, SendTyped DEF KeyType
  <2>3. ~again' => \A i \in DOMAIN wire' : wire'[i] \in Polite
    BY <2>2
  <2>4. ~again' => ~again
    BY <2>1
  <2> QED BY <2>1, <2>3, <2>4 DEF MessagesInv, Polite
<1>3. CASE Deliver
  <2>1. wire # <<>> /\ wire' = Tail(wire) /\ again' = again
    BY <1>3 DEF Deliver
  <2>2. /\ Head(wire) \in Wire
        /\ ~again => wire' \in Seq(Polite) /\ Head(wire) \in Polite
    BY <2>1, PoliteWire DEF KeyType
  <2>3. CASE Head(wire) = "DISABLE"
    <3>1. ime' = Disabled /\ restoreIme' = restoreIme
      BY <1>3, <2>3 DEF Deliver
    <3> QED BY <2>1, <2>2, <3>1, DisabledNotOurs DEF MessagesInv, Polite
  <2>4. CASE Head(wire) # "DISABLE"
    <3>1. ime' = "ours" /\ restoreIme' = Head(wire)
      BY <1>3, <2>4 DEF Deliver
    <3> QED BY <2>1, <2>2, <2>4, <3>1 DEF MessagesInv, Polite, Wire
  <2> QED BY <2>3, <2>4
<1>4. CASE Lose
  <2>1. UNCHANGED <<ime, restoreIme, again>> /\ wire # <<>> /\ wire' = Tail(wire)
    BY <1>4 DEF Lose
  <2>2. ~again => wire' \in Seq(Polite)
    BY <2>1, PoliteWire
  <2> QED BY <2>1, <2>2 DEF MessagesInv, Polite
<1>5. CASE Restart
  BY <1>5, DisabledNotOurs DEF Restart, MessagesInv
<1>6. CASE UNCHANGED <<ime, restoreIme, again, wire>>
  BY <1>6 DEF MessagesInv
<1>7. ASSUME NEW t \in Threads, KeyMessage(t) \/ Inject(t) \/ Enqueue(t)
      PROVE  UNCHANGED <<ime, restoreIme, again, wire>>
  BY <1>7 DEF KeyMessage, Inject, Enqueue
<1>8. ASSUME \/ Arrive \/ Admit \/ Others \/ StartInput \/ Drain \/ DestroyService
             \/ HarborOpen \/ UNCHANGED vars
      PROVE  UNCHANGED <<ime, restoreIme, again, wire>>
  BY <1>8 DEF Arrive, Admit, Others, HarborOpen, StartInput, Drain, DestroyService, vars, keyVars
<1> QED BY <1>1, <1>2, <1>3, <1>4, <1>5, <1>6, <1>7, <1>8 DEF Next

LEMMA PresentInit == Init => PresentInv
BY DEF Init, PresentInv, OursAtEnd

LEMMA PresentStep ==
    ASSUME PeopleInv, PeopleInv', KeyType, KeyType', MessagesInv, PresentInv, [Next]_vars
    PROVE  PresentInv'
<1>0. /\ overlap \in BOOLEAN /\ overlap' \in BOOLEAN /\ lost \in BOOLEAN /\ lost' \in BOOLEAN
      /\ VisitInv /\ HarborInv
  BY DEF PeopleInv, VisitInv, PeopleType, KeyType
<1>1. ASSUME visitors # {} => visitors' # {}, overlap => overlap', UNCHANGED <<wire, ime, lost>>
      PROVE  PresentInv'
  BY <1>1 DEF PresentInv, OursAtEnd
<1>2. CASE Arrive \/ Admit \/ Others
  <2>1. UNCHANGED <<wire, ime, lost>>
    BY <1>2 DEF Arrive, Admit, Others, keyVars
  <2>2. ASSUME NEW i \in Ids, NewVisitor(i) \/ Transport(i) \/ VisitorLeft(i)
        PROVE  visitors' = visitors /\ (overlap => overlap')
    BY <2>2 DEF NewVisitor, Transport, VisitorLeft, Note
  <2>3. ASSUME NEW l \in Locals, NewLocal(l) \/ LocalMessage(l) \/ CloseLocal(l)
        PROVE  visitors' = visitors /\ overlap' = overlap
    BY <2>3 DEF NewLocal, LocalMessage, CloseLocal, people
  <2>4. ASSUME NEW t \in Threads, OtherMessage(t) \/ LogIn(t)
        PROVE  visitors' = visitors /\ overlap' = overlap
    BY <2>4 DEF OtherMessage, LogIn, people
  <2>5. ASSUME NEW t \in Threads, Join(t)
        PROVE  visitors \subseteq visitors' /\ overlap' = overlap
    BY <2>5 DEF Join
  <2>6. ASSUME Put \/ TearDown \/ NextPeer \/ RemovePeer
        PROVE  visitors' = visitors /\ (overlap => overlap')
    <3>1. CASE TearDown
      BY <3>1 DEF TearDown
    <3>2. CASE Put \/ NextPeer \/ RemovePeer
      BY <3>2 DEF Put, NextPeer, RemovePeer
    <3> QED BY <2>6, <3>1, <3>2
  <2>7. visitors \subseteq visitors' /\ (overlap => overlap')
    <3>1. CASE Arrive
      BY <2>2, <2>3, <3>1 DEF Arrive
    <3>2. CASE Admit
      BY <2>4, <3>2 DEF Admit, Threads
    <3>3. CASE Others
      BY <2>2, <2>3, <2>4, <2>5, <2>6, <3>3 DEF Others
    <3> QED BY <1>2, <3>1, <3>2, <3>3
  <2> QED BY <1>1, <2>1, <2>7
<1>3. ASSUME NEW t \in Threads, Leave(t) PROVE PresentInv'
  <2>1. overlap' = overlap /\ ime' = ime /\ at[t] = "close" /\ visitors' \subseteq visitors
    BY <1>3 DEF Leave, LeftVisitor
  <2>2. CASE visitors' # {}
    BY <2>2 DEF PresentInv
  <2>3. CASE visitors' = {}
    <3>1. Send(Disables(cur[t])) /\ cur[t] \in Nat
      BY <1>0, <1>3, <2>1, <2>3 DEF Leave, Disables, VisitInv, PeopleType
    <3>2. /\ Disables(cur[t]) \in Seq(Wire) /\ Len(Disables(cur[t])) \in {1, 2}
          /\ \A i \in 1 .. Len(Disables(cur[t])) : Disables(cur[t])[i] = "DISABLE"
      BY <3>1, DisablesTyped
    <3>3. ~lost' => wire' = wire \o Disables(cur[t])
      BY <3>1, <3>2, SendTyped DEF KeyType
    <3> DEFINE D == Disables(cur[t])
    <3> HIDE DEF D
    <3>4. ASSUME D \in Seq(Wire), Len(D) \in {1, 2}, \A i \in 1 .. Len(D) : D[i] = "DISABLE",
                 wire' = wire \o D
          PROVE  wire' # <<>> /\ wire'[Len(wire')] = "DISABLE"
      <4>1. wire \in Seq(Wire) /\ Len(wire) \in Nat /\ Len(D) \in Nat
        BY <3>4 DEF KeyType
      <4>2. Len(wire') = Len(wire) + Len(D)
        BY <3>4, <4>1
      <4>3. wire'[Len(wire')] = D[Len(D)]
        BY <3>4, <4>1, <4>2
      <4>4. Len(D) \in 1 .. Len(D)
        BY <3>4
      <4> QED BY <3>4, <4>1, <4>2, <4>3, <4>4
    <3>5. ~lost' => ~OursAtEnd'
      BY <3>2, <3>3, <3>4 DEF D, OursAtEnd
    <3> QED BY <3>5 DEF PresentInv
  <2> QED BY <2>2, <2>3
<1>4. ASSUME NEW t \in Threads, Enable(t) PROVE PresentInv'
  <2>1. visitors' = visitors /\ overlap' = overlap /\ at[t] = "onData"
    BY <1>4 DEF Enable, people
  <2>2. ~overlap => cur[t] \in visitors
    BY <1>0, <2>1 DEF VisitInv, ThreadInv, HarborInv, Threads, Messaging
  <2> QED BY <2>1, <2>2 DEF PresentInv
<1>5. ASSUME NEW t \in Threads, KeyMessage(t) \/ Inject(t) \/ Enqueue(t) PROVE PresentInv'
  <2>1. UNCHANGED <<visitors, overlap, wire, ime, lost>>
    BY <1>5 DEF KeyMessage, Inject, Enqueue, people
  <2> QED BY <1>1, <2>1
<1>6. CASE Deliver
  <2>1. UNCHANGED <<visitors, overlap, lost>> /\ wire # <<>> /\ wire' = Tail(wire)
    BY <1>6 DEF Deliver, people
  <2>2. wire \in Seq(Wire)
    BY DEF KeyType
  <2>3. OursAtEnd' => OursAtEnd
    <3>1. CASE wire' = <<>>
      <4>1. wire[Len(wire)] = Head(wire)
        BY <2>1, <2>2, <3>1
      <4>2. Head(wire) = "DISABLE" => ime' # "ours"
        BY <1>6, DisabledNotOurs DEF Deliver
      <4> QED BY <2>1, <3>1, <4>1, <4>2 DEF OursAtEnd
    <3>2. CASE wire' # <<>>
      <4>1. wire'[Len(wire')] = wire[Len(wire)]
        BY <2>1, <2>2, <3>2
      <4> QED BY <2>1, <3>2, <4>1 DEF OursAtEnd
    <3> QED BY <3>1, <3>2
  <2> QED BY <2>1, <2>3 DEF PresentInv
<1>7. CASE Lose
  BY <1>7 DEF Lose, PresentInv
<1>8. CASE Restart
  <2>1. UNCHANGED <<visitors, overlap, lost, wire>> /\ ime' # "ours"
    BY <1>8, DisabledNotOurs DEF Restart, people
  <2> QED BY <2>1 DEF PresentInv, OursAtEnd
<1>9. CASE HarborOpen \/ StartInput \/ Drain \/ DestroyService \/ UNCHANGED vars
  <2>1. UNCHANGED <<visitors, overlap, wire, ime, lost>>
    BY <1>9 DEF HarborOpen, StartInput, Drain, DestroyService, people, vars, keyVars
  <2> QED BY <1>1, <2>1
<1> QED BY <1>2, <1>3, <1>4, <1>5, <1>6, <1>7, <1>8, <1>9 DEF Next

(* The inductive invariant of the whole.                                   *)
KeyboardInv == PeopleInv /\ KeyType /\ TodoInv /\ KeptInv /\ MessagesInv /\ PresentInv

LEMMA KeyboardInit == Init => KeyboardInv
BY PeopleInit, KeyTypeInit, TodoInit, KeptInit, MessagesInit, PresentInit DEF KeyboardInv

LEMMA KeyboardStep == KeyboardInv /\ [Next]_vars => KeyboardInv'
<1> SUFFICES ASSUME KeyboardInv, [Next]_vars PROVE KeyboardInv'
  OBVIOUS
<1>1. PeopleInv'
  BY PeopleStep DEF KeyboardInv
<1>2. VisitInv /\ PeopleType'
  BY <1>1 DEF KeyboardInv, PeopleInv, VisitInv
<1>3. KeyType'
  BY <1>2, KeyTypeStep DEF KeyboardInv
<1>4. TodoInv' /\ KeptInv' /\ MessagesInv'
  BY <1>2, TodoStep, KeptStep, MessagesStep DEF KeyboardInv
<1>5. PresentInv'
  BY <1>1, <1>3, PresentStep DEF KeyboardInv
<1> QED BY <1>1, <1>3, <1>4, <1>5 DEF KeyboardInv

(* A handler that was given the input method and has injected what it kept *)
(* is left with at most one key, whatever the number of visitors and keys, *)
(* although onData() looks at the input method before it keeps the key and *)
(* without a lock.                                                         *)
THEOREM OneKeyLeftBehind == Spec => []AtMostOneLeftBehind
<1>1. KeyboardInv => AtMostOneLeftBehind
  BY DEF KeyboardInv, KeptInv, AtMostOneLeftBehind
<1> QED BY <1>1, KeyboardInit, KeyboardStep, PTL DEF Spec

(* When everybody has left and the backend has done what it was told, our  *)
(* keyboard is no longer set: it is the user's again, or one that Android  *)
(* chose because enable() was called with ours already set.                *)
THEOREM KeyboardGivenBack == Spec => []KeyboardReturns
<1>1. KeyboardInv => KeyboardReturns
  BY DEF KeyboardInv, KeyType, MessagesInv, PresentInv, OursAtEnd, KeyboardReturns
<1> QED BY <1>1, KeyboardInit, KeyboardStep, PTL DEF Spec

=============================================================================
