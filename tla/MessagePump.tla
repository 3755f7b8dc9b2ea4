---------------------------- MODULE MessagePump -----------------------------
(***************************************************************************)
(* The way of a message from WIPC.sendMsg to the native backend:           *)
(*                                                                         *)
(*   MessageDispatcher  one bounded queue for the life of the process      *)
(*   MessageSender      one per channel, with a thread of its own: take a  *)
(*                      message (blocking), write it, and go on to the     *)
(*                      next one only when the write succeeded             *)
(*                                                                         *)
(* The sender of a channel that has died is never stopped.  It stays       *)
(* blocked in take(), competes with the sender of the next channel, and    *)
(* the message it gets is written to a closed channel: lost.               *)
(*                                                                         *)
(* Channels are the successive authenticated connections; the backend      *)
(* serves one client at a time, so at most one of them is live.            *)
(***************************************************************************)
EXTENDS Naturals, Sequences, FiniteSets

CONSTANTS
    Channels,       \* authenticated connections over the life of the process
    Capacity,       \* length of the queue (20 in the code)
    MaxMessages     \* bound on the messages the application sends

ASSUME ChannelsAssumption == IsFiniteSet(Channels)
ASSUME CapacityAssumption == Capacity \in Nat \ {0}
ASSUME MaxMessagesAssumption == MaxMessages \in Nat

VARIABLES
    sentMsgs,       \* number of messages passed to sendMsg; message n is n
    msgQueue,       \* MessageDispatcher.msgQueueToNavtie
    refused,        \* number of messages dropped because the queue was full
    chan,           \* state of each channel
    sender,         \* where the sender of each channel is
    hand,           \* the message the sender has taken (0: none)
    written,        \* messages written to the backend, in order
    lost            \* messages whose write failed

vars == <<sentMsgs, msgQueue, refused, chan, sender, hand, written, lost>>

SenderPC == {"off", "take", "write", "flush", "stopped"}

Init ==
    /\ sentMsgs = 0 /\ msgQueue = <<>> /\ refused = 0
    /\ chan = [c \in Channels |-> "new"]
    /\ sender = [c \in Channels |-> "off"]
    /\ hand = [c \in Channels |-> 0]
    /\ written = <<>> /\ lost = 0

Live == {c \in Channels : chan[c] = "live"}
Closed == {c \in Channels : chan[c] = "closed"}

(* Faulty variants of AddMessage: a queue without a bound, and a stack.    *)
AddMessage_Unbounded ==
    /\ sentMsgs < MaxMessages
    /\ sentMsgs' = sentMsgs + 1
    /\ msgQueue' = Append(msgQueue, sentMsgs + 1)
    /\ UNCHANGED <<refused, chan, sender, hand, written, lost>>

AddMessage_Front ==
    /\ sentMsgs < MaxMessages
    /\ sentMsgs' = sentMsgs + 1
    /\ IF Len(msgQueue) < Capacity
         THEN /\ msgQueue' = <<sentMsgs + 1>> \o msgQueue
              /\ UNCHANGED refused
         ELSE /\ refused' = refused + 1
              /\ UNCHANGED msgQueue
    /\ UNCHANGED <<chan, sender, hand, written, lost>>

(* addMesageToBackend: add() throws on a full queue and the exception is   *)
(* swallowed.                                                              *)
AddMessage ==
    /\ sentMsgs < MaxMessages
    /\ sentMsgs' = sentMsgs + 1
    /\ IF Len(msgQueue) < Capacity
         THEN /\ msgQueue' = Append(msgQueue, sentMsgs + 1)
              /\ UNCHANGED refused
         ELSE /\ refused' = refused + 1
              /\ UNCHANGED msgQueue
    /\ UNCHANGED <<chan, sender, hand, written, lost>>

(* Authentication succeeds: addChanel starts the channel's sender.         *)
AddChanel(c) ==
    /\ chan[c] = "new" /\ Live = {}
    /\ chan' = [chan EXCEPT ![c] = "live"]
    /\ sender' = [sender EXCEPT ![c] = "take"]
    /\ UNCHANGED <<sentMsgs, msgQueue, refused, hand, written, lost>>

(* sendMessage, first half: takeToTheNative() returns.  It is the same on  *)
(* a channel that has died in the meantime.                                *)
Take(c) ==
    /\ sender[c] = "take" /\ msgQueue # <<>>
    /\ hand' = [hand EXCEPT ![c] = Head(msgQueue)]
    /\ msgQueue' = Tail(msgQueue)
    /\ sender' = [sender EXCEPT ![c] = "write"]
    /\ UNCHANGED <<sentMsgs, refused, chan, written, lost>>

(* Faulty variants of TrafficGenerator: the next sendMessage is posted     *)
(* after every write, and after none.                                      *)
TrafficGenerator_Always(c, success) ==
    /\ hand' = [hand EXCEPT ![c] = 0]
    /\ sender' = [sender EXCEPT ![c] = "take"]
    /\ IF success
         THEN written' = Append(written, hand[c]) /\ UNCHANGED lost
         ELSE lost' = lost + 1 /\ UNCHANGED written

TrafficGenerator_Once(c, success) ==
    /\ hand' = [hand EXCEPT ![c] = 0]
    /\ sender' = [sender EXCEPT ![c] = "stopped"]
    /\ IF success
         THEN written' = Append(written, hand[c]) /\ UNCHANGED lost
         ELSE lost' = lost + 1 /\ UNCHANGED written

(* The listener of the write: trafficGenerator posts the next sendMessage  *)
(* after a success and does nothing after a failure.                       *)
TrafficGenerator(c, success) ==
    /\ hand' = [hand EXCEPT ![c] = 0]
    /\ IF success
         THEN /\ written' = Append(written, hand[c])
              /\ sender' = [sender EXCEPT ![c] = "take"]
              /\ UNCHANGED lost
         ELSE /\ lost' = lost + 1
              /\ sender' = [sender EXCEPT ![c] = "stopped"]
              /\ UNCHANGED written

(* sendMessage, second half: writeAndFlush on a live channel is carried    *)
(* out later by its event loop, on a dead one it fails.                    *)
Write(c) ==
    /\ sender[c] = "write"
    /\ IF chan[c] = "live"
         THEN /\ sender' = [sender EXCEPT ![c] = "flush"]
              /\ UNCHANGED <<hand, written, lost>>
         ELSE TrafficGenerator(c, FALSE)
    /\ UNCHANGED <<sentMsgs, msgQueue, refused, chan>>

(* The event loop has flushed the message to the socket.                   *)
Flush(c) ==
    /\ sender[c] = "flush" /\ chan[c] = "live"
    /\ TrafficGenerator(c, TRUE)
    /\ UNCHANGED <<sentMsgs, msgQueue, refused, chan>>

(* The channel closes: a write that waits for the event loop fails.        *)
Close(c) ==
    /\ chan[c] = "live"
    /\ chan' = [chan EXCEPT ![c] = "closed"]
    /\ IF sender[c] = "flush"
         THEN TrafficGenerator(c, FALSE)
         ELSE UNCHANGED <<sender, hand, written, lost>>
    /\ UNCHANGED <<sentMsgs, msgQueue, refused>>

SenderStep(c) == Take(c) \/ Write(c) \/ Flush(c)

Next == AddMessage \/ \E c \in Channels : AddChanel(c) \/ SenderStep(c) \/ Close(c)

Spec == Init /\ [][Next]_vars

(* The sender threads and the event loops run.                             *)
FairSpec == Spec /\ \A c \in Channels : WF_vars(SenderStep(c))

-----------------------------------------------------------------------------
TypeOK ==
    /\ sentMsgs \in 0..MaxMessages
    /\ msgQueue \in Seq(1..MaxMessages) /\ Len(msgQueue) <= Capacity
    /\ refused \in Nat
    /\ chan \in [Channels -> {"new", "live", "closed"}]
    /\ sender \in [Channels -> SenderPC]
    /\ hand \in [Channels -> 0..MaxMessages]
    /\ written \in Seq(1..MaxMessages)
    /\ lost \in Nat

(* Senders that have taken a message and not yet seen its write complete.  *)
Holding == {c \in Channels : hand[c] # 0}

(* A dead connection costs at most one message: however many senders are   *)
(* left behind in take(), no more messages are lost than connections have  *)
(* ended.                                                                  *)
BoundedLoss == lost <= Cardinality(Closed)

(* The backend sees the messages of one application thread in the order    *)
(* they were sent, over all reconnections, although several senders take   *)
(* from the queue.                                                         *)
InOrder ==
    /\ \A i, j \in DOMAIN written : i < j => written[i] < written[j]
    /\ \A i \in DOMAIN written, j \in DOMAIN msgQueue : written[i] < msgQueue[j]

(* No message is duplicated or disappears: each one sent was refused,      *)
(* written, lost, or is still in the queue or in the hand of a sender.     *)
Accounted ==
    sentMsgs = refused + Len(written) + lost + Len(msgQueue)
                 + Cardinality(Holding)

(* What makes these promises inductive.  A sender stops exactly once, with *)
(* the loss of one message, and only on a closed channel; one that has     *)
(* handed its message to the event loop is on the live channel; and the    *)
(* live sender holds the message between those written and those queued.   *)
Stopped == {c \in Channels : sender[c] = "stopped"}

LossInv == lost = Cardinality(Stopped) /\ Stopped \subseteq Closed

SenderInv ==
    /\ \A c, d \in Live : c = d
    /\ \A c \in Channels :
          /\ hand[c] # 0 <=> sender[c] \in {"write", "flush"}
          /\ sender[c] = "flush" => chan[c] = "live"
          /\ chan[c] = "new" => sender[c] = "off"

Between(m) == /\ \A i \in DOMAIN written : written[i] < m
              /\ \A j \in DOMAIN msgQueue : m < msgQueue[j]

OrderInv ==
    /\ \A c \in Live : hand[c] # 0 => Between(hand[c])
    /\ \A i, j \in DOMAIN msgQueue : i < j => msgQueue[i] < msgQueue[j]
    /\ \A j \in DOMAIN msgQueue : msgQueue[j] <= sentMsgs
    /\ \A i \in DOMAIN written : written[i] <= sentMsgs
    /\ \A c \in Channels : hand[c] <= sentMsgs

PumpInv == LossInv /\ SenderInv /\ OrderInv

(* While a connection lasts, the queue is emptied.                         *)
Drains == \A c \in Channels : <>[](c \in Live) => []<>(msgQueue = <<>>)

-----------------------------------------------------------------------------
(* The pump implements the lossy queue: a message in the hand of the live  *)
(* sender is still pending, one in the hand of a dead sender is lost.      *)
LiveHand == {c \in Live : hand[c] # 0}

pendingBar == IF LiveHand = {} THEN msgQueue
              ELSE <<hand[CHOOSE c \in LiveHand : TRUE]>> \o msgQueue

lostBar == lost + Cardinality(Holding \ Live)

Fifo == INSTANCE LossyFifo WITH
            Messages <- 1..MaxMessages, Bound <- Capacity + 1,
            pending <- pendingBar, delivered <- written,
            lost <- lostBar, ended <- Cardinality(Closed)

(* The specification of LossyFifo, for the refinement.                     *)
FifoSpec == Fifo!Spec
=============================================================================
