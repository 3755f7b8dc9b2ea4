------------------------------ MODULE Visitors ------------------------------
(***************************************************************************)
(* Who is looking at the device.                                           *)
(*                                                                         *)
(*   VisitorStore    the visitors that come through the harbor, by id      *)
(*   VisitorManager  the set of all visitors, under a lock; the last one   *)
(*                   to leave cleans up                                    *)
(*   WebkeyVisitor   a visitor: its handlers exist before it is in the     *)
(*                   set, and outlive its leaving                          *)
(*                                                                         *)
(* Threads: the event loop of the harbor channel (Loop), the close         *)
(* listener of a channel (Sweeper), which runs on the event loop of the    *)
(* old channel while the new one may already deliver messages, and one     *)
(* thread for each local web socket connection.                            *)
(*                                                                         *)
(* The actions say what becomes of the visitors; Keyboard conjoins to them *)
(* what becomes of the handlers.                                           *)
(***************************************************************************)
EXTENDS Naturals

CONSTANTS
    Ids,            \* connection ids of the harbor
    Locals,         \* local web socket connections
    Loop,           \* the event loop of the current harbor channel
    Sweeper,        \* the close listener of the previous one
    MaxVisitors     \* bound on the visitors ever made

Threads == Locals \cup {Loop, Sweeper}
Visitor == 1 .. MaxVisitors

ASSUME VisitorsAssumption ==
    /\ MaxVisitors \in Nat /\ Ids # {}
    /\ Loop # Sweeper /\ Loop \notin Locals /\ Sweeper \notin Locals

VARIABLES
    made,           \* number of visitors made
    visitors,       \* VisitorManager.visitors
    named,          \* visitors that have logged in
    peers,          \* VisitorStore.peers: the visitor of an id; 0: none
    local,          \* the visitor of a local connection; 0: none
    at,             \* what each thread is doing
    cur,            \* with which visitor
    slot,           \* under which id
    modified,       \* the map has changed since the iterator was made
    foreground,     \* the notification that somebody is there is shown
    overlap,        \* a message was handled while the close listener ran
    replaced        \* visitors whose entry was overwritten

people == <<made, visitors, named, peers, local, slot, modified, foreground, overlap, replaced>>

VisitorsInit ==
    /\ made = 0 /\ visitors = {} /\ named = {}
    /\ peers = [i \in Ids |-> 0]
    /\ local = [l \in Locals |-> 0]
    /\ at = [t \in Threads |-> "idle"]
    /\ cur = [t \in Threads |-> 0]
    /\ slot = [t \in {Loop, Sweeper} |-> CHOOSE i \in Ids : TRUE]
    /\ modified = FALSE /\ foreground = FALSE
    /\ overlap = FALSE /\ replaced = {}

Step(t, l) == at' = [at EXCEPT ![t] = l] /\ UNCHANGED cur

With(t, v, l) == at' = [at EXCEPT ![t] = l] /\ cur' = [cur EXCEPT ![t] = v]

Finish(t) == With(t, 0, "idle")

(* A message of the harbor begins to be handled.                           *)
Note == overlap' = (overlap \/ at[Sweeper] # "idle")

-----------------------------------------------------------------------------
(* Coming: the constructor makes the handlers, then joins the others.      *)

(* newVisitor(), asked for by NEW or by a TRANSPORT of an unknown id,      *)
(* which goes on with the message.                                         *)
NewVisitor(i) ==
    /\ at[Loop] = "idle" /\ made < MaxVisitors
    /\ made' = made + 1
    /\ slot' = [slot EXCEPT ![Loop] = i]
    /\ \/ With(Loop, made + 1, "join")
       \/ peers[i] = 0 /\ With(Loop, made + 1, "joinThenMessage")
    /\ Note
    /\ UNCHANGED <<visitors, named, peers, local, modified, foreground, replaced>>

NewLocal(l) ==
    /\ at[l] = "idle" /\ local[l] = 0 /\ made < MaxVisitors
    /\ made' = made + 1
    /\ With(l, made + 1, "join")
    /\ UNCHANGED <<visitors, named, peers, local, slot, modified, foreground, overlap, replaced>>

(* addNewVisitor(), in the lock, and the entry of the caller.              *)
Join(t) ==
    /\ at[t] \in {"join", "joinThenMessage"}
    /\ foreground' = (foreground \/ visitors = {})
    /\ visitors' = visitors \cup {cur[t]}
    /\ IF t \in Locals
       THEN local' = [local EXCEPT ![t] = cur[t]] /\ Finish(t)
       ELSE Step(t, IF at[t] = "join" THEN "put" ELSE "putThenMessage") /\ UNCHANGED local
    /\ UNCHANGED <<made, named, peers, slot, modified, overlap, replaced>>

(* VisitorStore.addNewVisitor(): put() tells nobody what it overwrites.    *)
Put ==
    /\ at[Loop] \in {"put", "putThenMessage"}
    /\ LET i == slot[Loop] IN
       /\ replaced' = replaced \cup ({peers[i]} \ {0})
       /\ modified' = (at[Sweeper] # "idle" /\ (modified \/ peers[i] = 0))
       /\ peers' = [peers EXCEPT ![i] = cur[Loop]]
    /\ IF at[Loop] = "put" THEN Finish(Loop) ELSE Step(Loop, "message")
    /\ UNCHANGED <<made, visitors, named, local, slot, foreground, overlap>>

-----------------------------------------------------------------------------
(* Messages.                                                               *)

Transport(i) ==
    /\ at[Loop] = "idle" /\ peers[i] # 0
    /\ With(Loop, peers[i], "message")
    /\ Note
    /\ UNCHANGED <<made, visitors, named, peers, local, slot, modified, foreground, replaced>>

LocalMessage(l) ==
    /\ at[l] = "idle" /\ local[l] # 0
    /\ With(l, local[l], "message")
    /\ UNCHANGED people

(* hasSomeoneLoggedInAndKick() walks the set without the lock.  The        *)
(* constructor has marked every visitor as logged in, so that the first    *)
(* one it meets decides, possibly the newcomer itself: it has to have the  *)
(* same name, which for a newcomer is the empty one.                       *)
MayLogIn(v) == visitors = {} \/ \E w \in visitors : v \in named <=> w \in named

LogIn(t) ==
    /\ at[t] = "message" /\ MayLogIn(cur[t]) /\ cur[t] \notin named
    /\ named' = named \cup {cur[t]}
    /\ foreground' = TRUE
    /\ Finish(t)
    /\ UNCHANGED <<made, visitors, peers, local, slot, modified, overlap, replaced>>

(* A refused login, or a message no handler here is concerned with.  An    *)
(* ADMINAUTH is one: the request to the harbor is made and never written.  *)
OtherMessage(t) ==
    /\ at[t] = "message"
    /\ Finish(t)
    /\ UNCHANGED people

-----------------------------------------------------------------------------
(* Leaving.                                                                *)

(* Faulty variant: the entry is removed and the visitor is not closed.     *)
VisitorLeft_NoClose(i) ==
    /\ at[Loop] = "idle" /\ peers[i] # 0
    /\ peers' = [peers EXCEPT ![i] = 0]
    /\ modified' = (at[Sweeper] # "idle")
    /\ Note
    /\ UNCHANGED <<at, cur, made, visitors, named, local, slot, foreground, replaced>>

VisitorLeft(i) ==
    /\ at[Loop] = "idle" /\ peers[i] # 0
    /\ With(Loop, peers[i], "close")
    /\ peers' = [peers EXCEPT ![i] = 0]
    /\ modified' = (at[Sweeper] # "idle")
    /\ Note
    /\ UNCHANGED <<made, visitors, named, local, slot, foreground, replaced>>

CloseLocal(l) ==
    /\ at[l] = "idle" /\ local[l] # 0
    /\ local' = [local EXCEPT ![l] = 0]
    /\ With(l, local[l], "close")
    /\ UNCHANGED <<made, visitors, named, peers, slot, modified, foreground, overlap, replaced>>

(* The close listener.  A late one begins while the new channel is in the  *)
(* middle of a message.  It calls tearDown() twice, since its handler is   *)
(* registered for two types of message; the second call finds an empty map *)
(* or what has come in between.                                            *)
TearDown ==
    /\ at[Sweeper] = "idle"
    /\ \E i \in Ids : peers[i] # 0
    /\ Step(Sweeper, "next")
    /\ modified' = FALSE
    /\ overlap' = (overlap \/ at[Loop] # "idle")
    /\ UNCHANGED <<made, visitors, named, peers, local, slot, foreground, replaced>>

(* next() and remove() of the iterator throw when the map has been changed *)
(* behind it, and the rest is left as it is.                               *)
NextPeer ==
    /\ at[Sweeper] = "next"
    /\ IF modified \/ \A i \in Ids : peers[i] = 0
       THEN Finish(Sweeper) /\ UNCHANGED slot
       ELSE \E i \in Ids :
               /\ peers[i] # 0
               /\ slot' = [slot EXCEPT ![Sweeper] = i]
               /\ With(Sweeper, peers[i], "close")
    /\ UNCHANGED <<made, visitors, named, peers, local, modified, foreground, overlap, replaced>>

RemovePeer ==
    /\ at[Sweeper] = "remove"
    /\ IF modified
       THEN Finish(Sweeper) /\ UNCHANGED peers
       ELSE Step(Sweeper, "next") /\ peers' = [peers EXCEPT ![slot[Sweeper]] = 0]
    /\ UNCHANGED <<made, visitors, named, local, slot, modified, foreground, overlap, replaced>>

(* Faulty variant: the notification goes with every visitor.               *)
LeftVisitor_HidesAlways(t) ==
    /\ at[t] = "close"
    /\ visitors' = visitors \ {cur[t]}
    /\ foreground' = FALSE
    /\ IF t = Sweeper THEN Step(t, "remove") ELSE Finish(t)
    /\ UNCHANGED <<made, named, peers, local, slot, modified, overlap, replaced>>

(* leftVisitor(), in the lock.                                             *)
LeftVisitor(t) ==
    /\ at[t] = "close"
    /\ visitors' = visitors \ {cur[t]}
    /\ foreground' = (foreground /\ visitors' # {})
    /\ IF t = Sweeper THEN Step(t, "remove") ELSE Finish(t)
    /\ UNCHANGED <<made, named, peers, local, slot, modified, overlap, replaced>>

=============================================================================
