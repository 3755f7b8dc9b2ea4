------------------------------ MODULE Keyboard ------------------------------
(***************************************************************************)
(* How a visitor types on the device, together with who the visitors are.  *)
(*                                                                         *)
(*   KeyHandler         one for each setupHandlers() of a visitor: it asks *)
(*                      the backend to switch the input method, keeps the  *)
(*                      keys that come before the input method has started,*)
(*                      and injects the others at once                     *)
(*   KeyServiceWrapper  static: the running input method, and the one      *)
(*                      handler that is told of it                         *)
(*   KeyinjectService   the app's input method, on the main thread         *)
(*   KeyInject          the messages ENABLE, with the input method that is *)
(*                      to be restored, and DISABLE                        *)
(*   keyinject.cc       the backend's part, which runs `ime`               *)
(*                                                                         *)
(* The queue to the backend is the one of MessagePump, with its losses; a  *)
(* key is counted, not told apart.                                         *)
(***************************************************************************)
EXTENDS Visitors, Sequences, FiniteSets

CONSTANTS
    KeyCapacity,    \* keys a handler keeps (20 in the code)
    WireCapacity,   \* messages in the queue to the backend (20 in the code)
    MaxMessages     \* bound on the logins, and on the keys, one for each handler reached

ASSUME KeyboardAssumption ==
    KeyCapacity \in Nat /\ WireCapacity \in Nat /\ MaxMessages \in Nat

(* The first handler of visitor v comes with it, the second with its login. *)
Handlers == 1 .. 2 * MaxVisitors
HandlersOf(v) == IF v \in named THEN {2 * v - 1, 2 * v} ELSE {2 * v - 1}
Reached(v) == IF v \in named THEN 2 ELSE 1

VARIABLES
    sent,           \* number of logins, and of keys times their handlers
    listener,       \* KeyServiceWrapper.listener; 0: nobody
    service,        \* handlers that hold a reference to the input method
    keyEvents,      \* number of keys each handler keeps
    todo,           \* handlers that are still to be given the thread's key
    draining,       \* the handler whose keys the main thread injects; 0: none
    wire,           \* messages to the backend
    ime,            \* the input method: "user", "ours" or "fallback"
    restoreIme,     \* cmd_restore_ime; "none": empty
    created,        \* the service of our input method exists
    lost,           \* a message to the backend was lost
    again           \* enable() was called when our input method was set

keyVars == <<sent, listener, service, keyEvents, todo, draining, wire, ime, restoreIme, created, lost, again>>
vars == <<people, at, cur, keyVars>>

Init ==
    /\ VisitorsInit
    /\ sent = 0 /\ listener = 0 /\ service = {}
    /\ keyEvents = [h \in Handlers |-> 0]
    /\ todo = [t \in Threads |-> {}]
    /\ draining = 0
    /\ wire = <<>> /\ ime = "user" /\ restoreIme = "none" /\ created = FALSE
    /\ lost = FALSE /\ again = FALSE

(* sendMsg() drops what the full queue does not take.                      *)
Send(msgs) ==
    IF Len(wire) + Len(msgs) <= WireCapacity
    THEN wire' = wire \o msgs /\ UNCHANGED lost
    ELSE wire' = SubSeq(wire \o msgs, 1, WireCapacity) /\ lost' = TRUE

-----------------------------------------------------------------------------
(* Visitors with their handlers.                                           *)

(* The constructor of KeyHandler puts the handler in the place of the one  *)
(* that was told of the input method before.                               *)
Arrive ==
    /\ (\E i \in Ids : NewVisitor(i)) \/ (\E l \in Locals : NewLocal(l))
    /\ listener' = 2 * made' - 1
    /\ UNCHANGED <<sent, service, keyEvents, todo, draining, wire, ime, restoreIme, created, lost, again>>

(* onOpen() of the harbor builds one more visitor and forgets it.  Its     *)
(* handler takes the place as well, is never given a key, and does nothing *)
(* when it is told of the input method: it counts as nobody.               *)
HarborOpen ==
    /\ at[Loop] = "idle"
    /\ listener' = 0
    /\ UNCHANGED <<people, at, cur, sent, service, keyEvents, todo, draining, wire, ime, restoreIme, created, lost, again>>

Admit ==
    /\ LogIn(Loop) \/ \E l \in Locals : LogIn(l)
    /\ sent < MaxMessages /\ sent' = sent + 1
    /\ listener' = 2 * CHOOSE v \in named' : v \notin named
    /\ UNCHANGED <<service, keyEvents, todo, draining, wire, ime, restoreIme, created, lost, again>>

(* Faulty variant: the last visitor to leave does not send DISABLE.        *)
Leave_NoDisable(t) ==
    /\ LeftVisitor(t)
    /\ IF visitors' = {}
       THEN listener' = 0 /\ service' = service \ HandlersOf(cur[t])
       ELSE UNCHANGED <<listener, service>>
    /\ UNCHANGED <<sent, keyEvents, todo, draining, wire, lost, ime, restoreIme, created, again>>

(* leftVisitor(): when nobody is left, onLeftAllUsers() of every handler   *)
(* of the visitor that leaves, and only of this one.                       *)
Leave(t) ==
    /\ LeftVisitor(t)
    /\ IF visitors' = {}
       THEN /\ listener' = 0
            /\ service' = service \ HandlersOf(cur[t])
            /\ Send([h \in 1 .. Cardinality(HandlersOf(cur[t])) |-> "DISABLE"])
       ELSE UNCHANGED <<listener, service, wire, lost>>
    /\ UNCHANGED <<sent, keyEvents, todo, draining, ime, restoreIme, created, again>>

Others ==
    /\ \/ \E t \in Threads : Join(t) \/ OtherMessage(t)
       \/ Put \/ TearDown \/ NextPeer \/ RemovePeer
       \/ \E i \in Ids : Transport(i) \/ VisitorLeft(i)
       \/ \E l \in Locals : LocalMessage(l) \/ CloseLocal(l)
    /\ UNCHANGED keyVars

-----------------------------------------------------------------------------
(* A key: handleMessage() gives it to the handlers of the visitor, one     *)
(* after the other.                                                        *)

KeyMessage(t) ==
    /\ at[t] = "message"
    /\ sent' = sent + Reached(cur[t]) /\ sent' <= MaxMessages
    /\ todo' = [todo EXCEPT ![t] = HandlersOf(cur[t])]
    /\ Step(t, "onData")
    /\ UNCHANGED <<people, listener, service, keyEvents, draining, wire, ime, restoreIme, created, lost, again>>

FirstOf(t) == CHOOSE h \in todo[t] : \A g \in todo[t] : h <= g

NextHandler(t) ==
    /\ todo' = [todo EXCEPT ![t] = @ \ {FirstOf(t)}]
    /\ IF Cardinality(todo[t]) = 1 THEN Finish(t) ELSE Step(t, "onData")

(* onData() with the input method at hand: the key is committed.           *)
Inject(t) ==
    /\ at[t] = "onData" /\ FirstOf(t) \in service
    /\ NextHandler(t)
    /\ UNCHANGED <<sent, people, listener, service, keyEvents, draining, wire, ime, restoreIme, created, lost, again>>

(* Without it: enable(), with the input method that is set at this moment, *)
(* whether or not a switch is already under way ...                        *)
Enable(t) ==
    /\ at[t] = "onData" /\ FirstOf(t) \notin service
    /\ Send(<<ime>>)
    /\ again' = (again \/ ime = "ours")
    /\ Step(t, "enqueue")
    /\ UNCHANGED <<sent, people, listener, service, keyEvents, todo, draining, ime, restoreIme, created>>

(* Faulty variant: a queue without a limit.                                *)
Enqueue_Unbounded(t) ==
    /\ at[t] = "enqueue"
    /\ keyEvents' = [keyEvents EXCEPT ![FirstOf(t)] = @ + 1]
    /\ NextHandler(t)
    /\ UNCHANGED <<sent, people, listener, service, draining, wire, ime, restoreIme, created, lost, again>>

(* ... and then the key is kept, if there is room.                         *)
Enqueue(t) ==
    /\ at[t] = "enqueue"
    /\ keyEvents' = [keyEvents EXCEPT ![FirstOf(t)] = IF @ < KeyCapacity THEN @ + 1 ELSE @]
    /\ NextHandler(t)
    /\ UNCHANGED <<sent, people, listener, service, draining, wire, ime, restoreIme, created, lost, again>>

-----------------------------------------------------------------------------
(* The main thread.                                                        *)

(* onStartInput(): each time the cursor enters a field.  The listener is   *)
(* given the input method and injects what it has kept.                    *)
StartInput ==
    /\ draining = 0 /\ ime = "ours"
    /\ created' = TRUE
    /\ draining' = listener
    /\ service' = service \cup ({listener} \ {0})
    /\ UNCHANGED <<sent, people, at, cur, listener, keyEvents, todo, wire, ime, restoreIme, lost, again>>

(* Faulty variant: one key for each start of the input method.             *)
Drain_One ==
    /\ draining # 0
    /\ keyEvents' = [keyEvents EXCEPT ![draining] = IF @ > 0 THEN @ - 1 ELSE 0]
    /\ draining' = 0
    /\ UNCHANGED <<sent, people, at, cur, listener, service, todo, wire, ime, restoreIme, created, lost, again>>

Drain ==
    /\ draining # 0
    /\ IF keyEvents[draining] > 0
       THEN keyEvents' = [keyEvents EXCEPT ![draining] = @ - 1] /\ UNCHANGED draining
       ELSE draining' = 0 /\ UNCHANGED keyEvents
    /\ UNCHANGED <<sent, people, at, cur, listener, service, todo, wire, ime, restoreIme, created, lost, again>>

(* onDestroy(): the listener forgets the input method, its keys and to     *)
(* listen; the other handlers keep their reference.                        *)
DestroyService ==
    /\ draining = 0 /\ created
    /\ created' = FALSE
    /\ listener' = 0
    /\ service' = service \ {listener}
    /\ keyEvents' = [h \in Handlers |-> IF h = listener THEN 0 ELSE keyEvents[h]]
    /\ UNCHANGED <<sent, people, at, cur, todo, draining, wire, ime, restoreIme, lost, again>>

-----------------------------------------------------------------------------
(* The backend.  When our input method is disabled while it is set,        *)
(* Android sets one of its own choice; a disabled one cannot be set.       *)

Disabled ==
    IF restoreIme \in {"user", "fallback"} THEN restoreIme
    ELSE IF ime = "ours" THEN "fallback" ELSE ime

Deliver ==
    /\ wire # <<>>
    /\ wire' = Tail(wire)
    /\ IF Head(wire) = "DISABLE"
       THEN ime' = Disabled /\ UNCHANGED <<restoreIme, created>>
       ELSE restoreIme' = Head(wire) /\ ime' = "ours" /\ created' = TRUE
    /\ UNCHANGED <<sent, people, at, cur, listener, service, keyEvents, todo, draining, lost, again>>

(* The message is taken by the sender of a dead channel: see MessagePump.  *)
(* Bound: one such loss.                                                   *)
Lose ==
    /\ wire # <<>> /\ ~lost
    /\ wire' = Tail(wire)
    /\ lost' = TRUE
    /\ UNCHANGED <<sent, people, at, cur, listener, service, keyEvents, todo, draining, ime, restoreIme, created, again>>

(* teardown() disables the keyboard before it exits or starts again.       *)
Restart ==
    /\ ime' = Disabled
    /\ restoreIme' = "none"
    /\ UNCHANGED <<sent, people, at, cur, listener, service, keyEvents, todo, draining, wire, created, lost, again>>

-----------------------------------------------------------------------------

Next ==
    \/ Arrive \/ HarborOpen \/ Admit \/ Others
    \/ \E t \in Threads : Leave(t) \/ KeyMessage(t) \/ Inject(t) \/ Enable(t) \/ Enqueue(t)
    \/ StartInput \/ Drain \/ DestroyService
    \/ Deliver \/ Lose \/ Restart

Spec == Init /\ [][Next]_vars

-----------------------------------------------------------------------------
(* Properties.                                                             *)

(* Every variable has its type; no handler keeps more keys, and the queue  *)
(* to the backend no more messages, than they have room for.               *)
TypeOK ==
    /\ made \in 0 .. MaxVisitors
    /\ visitors \subseteq 1 .. made /\ named \subseteq 1 .. made /\ replaced \subseteq 1 .. made
    /\ peers \in [Ids -> 0 .. made] /\ local \in [Locals -> 0 .. made]
    /\ at \in [Threads -> {"idle", "join", "joinThenMessage", "put", "putThenMessage",
                           "message", "onData", "enqueue", "close", "next", "remove"}]
    /\ cur \in [Threads -> 0 .. made]
    /\ slot \in [{Loop, Sweeper} -> Ids]
    /\ modified \in BOOLEAN /\ overlap \in BOOLEAN
    /\ foreground \in BOOLEAN
    /\ listener \in 0 .. 2 * made /\ draining \in 0 .. 2 * made
    /\ sent \in 0 .. MaxMessages
    /\ service \subseteq Handlers
    /\ keyEvents \in [Handlers -> 0 .. KeyCapacity]
    /\ todo \in [Threads -> SUBSET Handlers]
    /\ wire \in Seq({"DISABLE", "user", "ours", "fallback"}) /\ Len(wire) <= WireCapacity
    /\ ime \in {"user", "ours", "fallback"}
    /\ restoreIme \in {"none", "user", "ours", "fallback"}
    /\ created \in BOOLEAN /\ lost \in BOOLEAN /\ again \in BOOLEAN

Serving(v) == \E t \in Threads : cur[t] = v /\ at[t] # "idle"

(* What makes the properties below inductive.  Where the threads are, and  *)
(* with whom: a local connection handles messages of its visitor only, and *)
(* that visitor is in the set.                                             *)
Messaging == {"message", "onData", "enqueue"}
Joining == {"join", "joinThenMessage"}
Putting == {"put", "putThenMessage"}

ThreadInv ==
    /\ \A t \in Threads : /\ at[t] = "idle" => cur[t] = 0
                          /\ at[t] \notin {"idle", "next"} => cur[t] # 0
    /\ at[Loop] \in {"idle", "close"} \cup Joining \cup Putting \cup Messaging
    /\ at[Sweeper] \in {"idle", "next", "close", "remove"}
    /\ \A l \in Locals :
          /\ at[l] \in {"idle", "join", "close"} \cup Messaging
          /\ at[l] \in {"join", "close"} => local[l] = 0
          /\ at[l] \in Messaging => local[l] = cur[l]
          /\ local[l] # 0 => local[l] \in visitors

(* A visitor belongs to the harbor or to one local connection.             *)
OfHarbor(v) == \/ \E i \in Ids : peers[i] = v
               \/ v \in {cur[Loop], cur[Sweeper]} \/ v \in replaced
OfLocal(l, v) == v \in {local[l], cur[l]}

OwnInv ==
    \A l \in Locals : \A v \in 1 .. made : OfLocal(l, v) =>
        /\ ~OfHarbor(v)
        /\ \A k \in Locals : OfLocal(k, v) => k = l

(* The harbor's side, as long as no message was handled while the close    *)
(* listener ran.  A visitor has one entry, from the end of its joining to  *)
(* the beginning of its leaving.                                           *)
HarborInv ==
    /\ at[Loop] # "idle" /\ at[Sweeper] # "idle" => overlap
    /\ modified => overlap
    /\ ~overlap =>
          /\ \A i, j \in Ids : peers[i] = peers[j] /\ peers[i] # 0 => i = j
          /\ at[Loop] \in {"close"} \cup Joining \cup Putting => \A i \in Ids : peers[i] # cur[Loop]
          /\ at[Loop] \in Messaging => \E i \in Ids : peers[i] = cur[Loop]
          /\ at[Loop] \in Messaging \cup Putting => cur[Loop] \in visitors
          /\ at[Sweeper] \in {"close", "remove"} => peers[slot[Sweeper]] = cur[Sweeper]
          /\ at[Sweeper] \in {"next", "remove"} => cur[Sweeper] \notin visitors
          /\ at[Sweeper] = "next" => \A i \in Ids : peers[i] # 0 => peers[i] # cur[Sweeper]

(* The handlers a key still has to reach are handlers of its visitor.      *)
TodoInv ==
    \A t \in Threads :
        /\ todo[t] \subseteq {2 * cur[t] - 1, 2 * cur[t]}
        /\ at[t] \in {"onData", "enqueue"} <=> todo[t] # {}

(* A key that is still to be kept finds none kept before it.               *)
KeptInv ==
    \A h \in service \ {draining} :
        /\ keyEvents[h] <= 1
        /\ (\E t \in Threads : at[t] = "enqueue" /\ FirstOf(t) = h) => keyEvents[h] = 0

(* Where the input method can come from, and that somebody is there when   *)
(* it is ours or the last message says that it should be.                  *)
MessagesInv ==
    /\ ime = "ours" => restoreIme # "none"
    /\ ~again => /\ ime # "fallback" /\ restoreIme \in {"none", "user"}
                 /\ \A i \in DOMAIN wire : wire[i] \in {"DISABLE", "user"}

OursAtEnd == IF wire = <<>> THEN ime = "ours" ELSE wire[Len(wire)] # "DISABLE"

PresentInv == ~lost /\ ~overlap /\ OursAtEnd => visitors # {}

(* VisitorManager and those who made the visitors agree on who is there:   *)
(* every visitor in the set is found by an id or a local connection, or a  *)
(* thread is busy with it, and every visitor found by an id is in the set. *)
(* Two ways out: a NEW for an id that has a visitor overwrites the entry,  *)
(* and nobody can close the old visitor any more; a message of the new     *)
(* channel handled while the close listener runs, whichever began first,   *)
(* changes the map under its iterator.                                     *)
StoreAgrees ==
    ~overlap =>
        /\ \A v \in visitors :
              \/ \E i \in Ids : peers[i] = v
              \/ \E l \in Locals : local[l] = v
              \/ Serving(v) \/ v \in replaced
        /\ \A i \in Ids : peers[i] # 0 => peers[i] \in visitors \/ Serving(peers[i])

(* Whenever somebody is connected the notification is shown, also while    *)
(* the last visitor leaves and the next one joins on different threads;    *)
(* and it goes with the last one, as long as no message was handled while  *)
(* the close listener ran: a login of a visitor that has just been removed *)
(* brings it back for good.                                                *)
ForegroundAgrees ==
    /\ visitors # {} => foreground
    /\ ~overlap /\ foreground => visitors # {}

(* A handler that has been given the input method and has injected what it *)
(* kept is left with at most one key: the one of a message that had found  *)
(* no input method and was still to be kept.                               *)
AtMostOneLeftBehind ==
    \A h \in service \ {draining} : keyEvents[h] <= 1

(* When everybody has left and the backend has done what it was told, the  *)
(* keyboard is the user's again, unless a message was lost.  The code has  *)
(* one way to miss it: enable() called again with our input method already *)
(* set asks for that one to be restored, and Android chooses a keyboard.   *)
KeyboardReturns ==
    (visitors = {} /\ wire = <<>> /\ ~lost /\ ~overlap) =>
        \/ ime = "user"
        \/ again /\ ime = "fallback"

=============================================================================
