---------------------------- MODULE JitterControl ----------------------------
(***************************************************************************)
(* Rate and congestion control of the screen image stream (JitterControl   *)
(* and its FrequencyQueue): images carry an 8 bit sequence number, the     *)
(* browser acknowledges each with the time between images that it          *)
(* measured, and the sender slows down or speeds up the backend's capture  *)
(* interval ("frequency", in milliseconds).                                *)
(*                                                                         *)
(* The stream to the browser is ordered (a web socket): images are         *)
(* acknowledged in the order they were sent.                               *)
(*                                                                         *)
(* receivedAck and sendt hold the monitor, reset does not: the steps of an *)
(* acknowledgement that reset can come in between are actions, and so are  *)
(* the writes of reset.                                                    *)
(***************************************************************************)
EXTENDS Integers, Sequences, FiniteSets

CONSTANTS
    Timestamps,     \* intervals the browser may report, 0 included
    SeqSpace,       \* number of sequence numbers (256 in the code)
    SAMPLES,        \* length of the FrequencyQueue (5 in the code)
    MINFREQUENCY,   \* least interval between images (40 in the code)
    MAXFREQUENCY,   \* longest interval between images (1000 in the code)
    MaxInFlight,    \* bound: images on their way and not yet acknowledged
    MaxSent         \* bound: images are not counted further up

ASSUME TimestampsAssumption == 0 \in Timestamps /\ Timestamps \subseteq Nat
ASSUME SeqSpaceAssumption == SeqSpace \in Nat /\ SeqSpace > 2
ASSUME SamplesAssumption == SAMPLES \in Nat \ {0}
ASSUME FrequencyAssumption == /\ MINFREQUENCY \in 2 .. 500
                             /\ MAXFREQUENCY \in 500 .. 1500
ASSUME MaxInFlightAssumption == MaxInFlight \in Nat \ {0} /\ MaxSent \in Nat

CORRECTION_SAMPLERATE_COUNTER == 4

VARIABLES
    frequency,      \* interval between images the sender believes in
    freqUnchange,   \* acknowledgements in a row that saw no need to slow down
    list,           \* FrequencyQueue: the last accepted measurements
    blocked,        \* FrequencyQueue: measurements are not accepted ...
    unblocker,      \* ... until the image with this number is acknowledged
    seqNumber,      \* number of the next image
    sent,           \* images counted as unacknowledged
    WINDOW,         \* most of them before images are skipped
    wire,           \* images not yet acknowledged; old: sent before the
                    \* change of frequency that block() waits for
    backendFreq,    \* interval the backend was last told to use
    diff,           \* whether the backend was told to skip unchanged images
    ack,            \* receivedAck() under way: its next step, the measurement,
                    \* the median or the number to wait for, CorrectionWay
    resetPC,        \* the next write of a reset() that has begun
    numbering       \* history: "overlap" if images were on their way, or an
                    \* acknowledgement under way, during the last reset();
                    \* "crowded" if since the last time that no image was on
                    \* its way there were more than numbers tell apart

queueVars == <<list, blocked, unblocker>>
vars == <<frequency, freqUnchange, queueVars, seqNumber, sent, WINDOW, wire,
          backendFreq, diff, ack, resetPC, numbering>>

(* An acknowledgement at a step that needs nothing of the earlier ones.    *)
AckAt(pc) == [pc |-> pc, time |-> 0, val |-> -1, way |-> "MARAD"]

NoAck == AckAt("idle")

(* Faulty variant of Clamp: no upper limit.                                *)
Clamp_NoMax(f) == IF f < MINFREQUENCY THEN MINFREQUENCY ELSE f

Clamp(f) == LET g == IF f < MINFREQUENCY THEN MINFREQUENCY ELSE f
            IN  IF g > MAXFREQUENCY THEN MAXFREQUENCY ELSE g

(* The element at place k when the list has been sorted.                   *)
Ranked(s, k) ==
    CHOOSE x \in {s[i] : i \in DOMAIN s} :
        /\ Cardinality({i \in DOMAIN s : s[i] < x}) < k
        /\ Cardinality({i \in DOMAIN s : s[i] <= x}) >= k

(* getMedian of a full queue; -1 while it is not full.                     *)
Median(s) ==
    LET h == Len(s) \div 2 IN
    IF Len(s) < SAMPLES THEN -1
    ELSE IF Len(s) % 2 = 1 THEN Ranked(s, h + 1)
    ELSE (Ranked(s, h) + Ranked(s, h + 1)) \div 2

channelIsFree == sent <= WINDOW

(* The constructor: reset(), then updateFrequency.                         *)
Init ==
    /\ frequency = 500
    /\ freqUnchange = CORRECTION_SAMPLERATE_COUNTER - 1
    /\ list = <<>> /\ blocked = FALSE /\ unblocker = -1
    /\ seqNumber = 0 /\ sent = 0 /\ WINDOW = 1000
    /\ wire = <<>>
    /\ backendFreq = 500 /\ diff = FALSE
    /\ ack = NoAck /\ resetPC = "idle" /\ numbering = "clear"

(* handleImage: an image is numbered and sent while the channel counts as  *)
(* free (otherwise it is skipped and nothing changes).                     *)
Sendt ==
    /\ ack.pc = "idle"
    /\ channelIsFree
    /\ Len(wire) < MaxInFlight
    /\ wire' = Append(wire, [seq |-> seqNumber, old |-> FALSE])
    /\ seqNumber' = (seqNumber + 1) % SeqSpace
    /\ sent' = IF sent < MaxSent THEN sent + 1 ELSE sent
    /\ numbering' = IF resetPC # "idle" THEN "overlap"
                    ELSE IF numbering = "clear" /\ Len(wire) + 2 >= SeqSpace
                           THEN "crowded" ELSE numbering
    /\ UNCHANGED <<frequency, freqUnchange, queueVars, WINDOW, backendFreq, diff,
                   ack, resetPC>>

(* Faulty variants of Accepts: block() has no effect, and nothing ends it. *)
Accepts_Always(seq, timestamp) == timestamp # 0
Accepts_NotBlocked(seq, timestamp) == timestamp # 0 /\ ~blocked

(* FrequencyQueue.add: whether a measurement for image seq is taken.       *)
Accepts(seq, timestamp) == timestamp # 0 /\ (~blocked \/ seq = unblocker)

(* sent--; sent = Math.min(0, sent).  A count below -MaxInFlight cannot    *)
(* reach the window again before the next acknowledgement, so the model    *)
(* need not count further down.                                            *)
CountAck == IF sent - 1 < 0
              THEN IF sent - 1 < -MaxInFlight THEN -MaxInFlight ELSE sent - 1
              ELSE 0

-----------------------------------------------------------------------------
(* receivedAck.                                                            *)

(* Where it goes on once the queue is s: getMedian looks at the size.      *)
AfterAdd(s) == IF Len(s) < SAMPLES THEN "decide" ELSE "copy"

(* The acknowledgement of the oldest image on the wire: add() takes the    *)
(* measurement or not, and with a full queue goes on to remove the oldest. *)
AckAdd(timestamp) ==
    /\ ack.pc = "idle" /\ wire # <<>>
    /\ wire' = Tail(wire)
    /\ numbering' = IF numbering = "crowded" /\ Len(wire) = 1 THEN "clear"
                                                             ELSE numbering
    /\ LET take == Accepts(Head(wire).seq, timestamp)
           full == Len(list) = SAMPLES
       IN /\ blocked' = (blocked /\ ~take)
          /\ list' = IF take /\ ~full THEN Append(list, timestamp) ELSE list
          /\ ack' = IF take /\ full
                      THEN [pc |-> "remove", time |-> timestamp, val |-> -1,
                            way |-> "MARAD"]
                      ELSE AckAt(AfterAdd(list'))
    /\ UNCHANGED <<frequency, freqUnchange, unblocker, seqNumber, sent, WINDOW,
                   backendFreq, diff, resetPC>>

(* list.remove() and list.add(): a queue that reset() has emptied meanwhile *)
(* makes remove() throw, which ends the acknowledgement.                   *)
AckRemove ==
    /\ ack.pc = "remove"
    /\ IF list = <<>>
         THEN ack' = NoAck /\ UNCHANGED list
         ELSE /\ list' = Append(Tail(list), ack.time)
              /\ ack' = AckAt(AfterAdd(list'))
    /\ UNCHANGED <<frequency, freqUnchange, blocked, unblocker, seqNumber, sent,
                   WINDOW, wire, backendFreq, diff, resetPC, numbering>>

(* The rest of getMedian.  A queue that reset() has emptied meanwhile has  *)
(* no median if this was before the look at the size, and makes get(-1)    *)
(* throw if it was after it.                                               *)
AckMedian ==
    /\ ack.pc = "copy"
    /\ \/ list # <<>> /\ ack' = [pc |-> "decide", time |-> 0,
                                 val |-> Median(list), way |-> "MARAD"]
       \/ list = <<>> /\ (ack' = NoAck \/ ack' = AckAt("decide"))
    /\ UNCHANGED <<frequency, freqUnchange, queueVars, seqNumber, sent, WINDOW,
                   wire, backendFreq, diff, resetPC, numbering>>

(* The median against the frequency: slow down, speed up or stay.  val     *)
(* becomes the number of the image block() is to wait for.                 *)
AckDecide ==
    /\ ack.pc = "decide"
    /\ LET med   == ack.val
           slow  == med > frequency + frequency \div 5
           same1 == IF med # -1 THEN freqUnchange + 1 ELSE freqUnchange
           fast  == ~slow /\ same1 = CORRECTION_SAMPLERATE_COUNTER
           Correct(way) == ack' = [pc |-> "mark", time |-> 0, way |-> way,
                                   val |-> (seqNumber + 2) % SeqSpace]
       IN \/ /\ slow /\ Correct("LASSIT")
             /\ frequency' = (11 * med) \div 10
             /\ UNCHANGED freqUnchange
          \/ /\ fast /\ Correct("GYORSIT")
             /\ frequency' = (4 * frequency) \div 5
             /\ freqUnchange' = CORRECTION_SAMPLERATE_COUNTER - 3
          \/ /\ ~slow /\ ~fast /\ ack' = AckAt("clamp")
             /\ freqUnchange' = same1
             /\ UNCHANGED frequency
    /\ UNCHANGED <<queueVars, seqNumber, sent, WINDOW, wire, backendFreq, diff,
                   resetPC, numbering>>

(* block(): the images on the wire were sent before the change.            *)
AckMark ==
    /\ ack.pc = "mark"
    /\ unblocker' = ack.val
    /\ wire' = [i \in 1..Len(wire) |-> [wire[i] EXCEPT !.old = TRUE]]
    /\ ack' = [pc |-> "shut", time |-> 0, val |-> -1, way |-> ack.way]
    /\ UNCHANGED <<frequency, freqUnchange, list, blocked, seqNumber, sent, WINDOW,
                   backendFreq, diff, resetPC, numbering>>

(* The rest of block(), and of slowing down.                               *)
AckShut ==
    /\ ack.pc = "shut"
    /\ blocked' = TRUE /\ list' = <<>>
    /\ IF ack.way = "LASSIT" THEN freqUnchange' = 0 /\ diff' = TRUE
                            ELSE UNCHANGED <<freqUnchange, diff>>
    /\ ack' = [pc |-> "clamp", time |-> 0, val |-> -1, way |-> ack.way]
    /\ UNCHANGED <<frequency, unblocker, seqNumber, sent, WINDOW, wire, backendFreq,
                   resetPC, numbering>>

AckClamp ==
    /\ ack.pc = "clamp"
    /\ frequency' = Clamp(frequency)
    /\ ack' = [pc |-> "tell", time |-> 0, val |-> -1, way |-> ack.way]
    /\ UNCHANGED <<freqUnchange, queueVars, seqNumber, sent, WINDOW, wire,
                   backendFreq, diff, resetPC, numbering>>

(* updateFrequency and the window, when the frequency has been corrected;  *)
(* the end of receivedAck.                                                 *)
AckTell ==
    /\ ack.pc = "tell"
    /\ IF ack.way # "MARAD"
         THEN backendFreq' = frequency /\ WINDOW' = 1500 \div frequency
         ELSE UNCHANGED <<backendFreq, WINDOW>>
    /\ sent' = CountAck
    /\ ack' = NoAck
    /\ UNCHANGED <<frequency, freqUnchange, queueVars, seqNumber, wire, diff,
                   resetPC, numbering>>

AckStep == \/ AckRemove \/ AckMedian \/ AckDecide \/ AckMark \/ AckShut
           \/ AckClamp \/ AckTell

-----------------------------------------------------------------------------
(* reset(), at the start of every ImageSendWorker.run.                     *)

ResetSeq ==
    /\ resetPC = "idle"
    /\ seqNumber' = 0
    /\ wire' = [i \in DOMAIN wire |-> [wire[i] EXCEPT !.old = FALSE]]
    /\ numbering' = IF wire # <<>> \/ ack.pc # "idle" THEN "overlap" ELSE "clear"
    /\ resetPC' = "frequency"
    /\ UNCHANGED <<frequency, freqUnchange, queueVars, sent, WINDOW, backendFreq,
                   diff, ack>>

ResetFrequency ==
    /\ resetPC = "frequency"
    /\ frequency' = 500
    /\ resetPC' = "unchange"
    /\ UNCHANGED <<freqUnchange, queueVars, seqNumber, sent, WINDOW, wire,
                   backendFreq, diff, ack, numbering>>

ResetUnchange ==
    /\ resetPC = "unchange"
    /\ freqUnchange' = CORRECTION_SAMPLERATE_COUNTER - 1
    /\ resetPC' = "list"
    /\ UNCHANGED <<frequency, queueVars, seqNumber, sent, WINDOW, wire,
                   backendFreq, diff, ack, numbering>>

(* ackedFreq.reset() ...                                                   *)
ResetList ==
    /\ resetPC = "list"
    /\ list' = <<>>
    /\ resetPC' = "blocked"
    /\ UNCHANGED <<frequency, freqUnchange, blocked, unblocker, seqNumber, sent,
                   WINDOW, wire, backendFreq, diff, ack, numbering>>

ResetBlocked ==
    /\ resetPC = "blocked"
    /\ blocked' = FALSE
    /\ resetPC' = "unblocker"
    /\ UNCHANGED <<frequency, freqUnchange, list, unblocker, seqNumber, sent,
                   WINDOW, wire, backendFreq, diff, ack, numbering>>

ResetUnblocker ==
    /\ resetPC = "unblocker"
    /\ unblocker' = -1
    /\ resetPC' = "diff"
    /\ UNCHANGED <<frequency, freqUnchange, list, blocked, seqNumber, sent, WINDOW,
                   wire, backendFreq, diff, ack, numbering>>

(* ... and checkDiff(false).                                               *)
ResetDiff ==
    /\ resetPC = "diff"
    /\ diff' = FALSE
    /\ resetPC' = "idle"
    /\ UNCHANGED <<frequency, freqUnchange, queueVars, seqNumber, sent, WINDOW,
                   wire, backendFreq, ack, numbering>>

ResetStep == \/ ResetFrequency \/ ResetUnchange \/ ResetList \/ ResetBlocked
             \/ ResetUnblocker \/ ResetDiff

Next == \/ Sendt \/ ResetSeq \/ ResetStep \/ AckStep
        \/ \E t \in Timestamps : AckAdd(t)

Spec == Init /\ [][Next]_vars

(* An acknowledgement of the image that block() waits for, with a usable   *)
(* measurement.                                                            *)
AckMarked == /\ wire # <<>> /\ Head(wire).seq = unblocker
             /\ \E t \in Timestamps \ {0} : AckAdd(t)

(* Images keep coming and are acknowledged, the one block() waits for not  *)
(* always with the timestamp 0; the stream is not restarted for ever.      *)
FairSpec ==
    /\ Spec
    /\ WF_vars(Sendt) /\ WF_vars(ResetStep) /\ WF_vars(AckStep)
    /\ WF_vars(\E t \in Timestamps : AckAdd(t)) /\ SF_vars(AckMarked)

-----------------------------------------------------------------------------
InRange(f) == f \in MINFREQUENCY..MAXFREQUENCY

TypeOK ==
    /\ frequency \in Int
    /\ InRange(frequency) \/ ack.pc \in {"mark", "shut", "clamp"}
    /\ freqUnchange \in 0..CORRECTION_SAMPLERATE_COUNTER - 1
    /\ list \in Seq(Timestamps) /\ Len(list) <= SAMPLES
    /\ blocked \in BOOLEAN
    /\ unblocker \in -1..SeqSpace - 1
    /\ seqNumber \in 0..SeqSpace - 1
    /\ sent \in Int
    /\ WINDOW \in 1..1000
    /\ wire \in Seq([seq : 0..SeqSpace - 1, old : BOOLEAN])
    /\ InRange(backendFreq)
    /\ diff \in BOOLEAN
    /\ ack \in [pc : {"idle", "remove", "copy", "decide", "mark", "shut", "clamp",
                      "tell"},
                time : Timestamps, val : Int, way : {"MARAD", "GYORSIT", "LASSIT"}]
    /\ ack.pc = "mark" => ack.val \in 0..SeqSpace - 1
    /\ resetPC \in {"idle", "frequency", "unchange", "list", "blocked",
                    "unblocker", "diff"}
    /\ numbering \in {"clear", "crowded", "overlap"}

(* A measurement is taken from the acknowledgement of an image sent before *)
(* the change of frequency that block() waits for.                         *)
TakesOldSample ==
    /\ wire # <<>> /\ Head(wire).old /\ Len(wire') < Len(wire)
    /\ list' # list \/ ack'.pc = "remove"

(* After a change of frequency only measurements of images sent after it   *)
(* are taken, unless the stream was restarted with images on their way or  *)
(* more of them are on their way than the numbers tell apart.              *)
OnlyFreshSamples == [][numbering = "clear" => ~TakesOldSample]_vars

(* What makes it inductive: the images on the wire are numbered one after  *)
(* the other up to the next number, the old ones come first, and as long   *)
(* as there are any the queue is blocked, or about to be, and waits for a  *)
(* number that lies ahead of theirs.                                       *)
Ahead(a, d, b) == b = a + d \/ b = a + d - SeqSpace

(* The images on the wire and the number they are waited for.              *)
WireInv ==
    /\ Len(wire) <= SeqSpace - 2
    /\ \A i \in DOMAIN wire : Ahead(wire[i].seq, Len(wire) + 1 - i, seqNumber)
    /\ \A i, j \in DOMAIN wire : i < j /\ wire[j].old => wire[i].old
    /\ \A i \in DOMAIN wire : wire[i].old =>
          /\ blocked \/ ack.pc = "shut"
          /\ \E d \in 3 .. SeqSpace - 1 : Ahead(wire[i].seq, d, unblocker)

FreshInv ==
    /\ numbering = "crowded" => resetPC = "idle"
    /\ numbering = "clear" =>
          /\ resetPC # "idle" => wire = <<>> /\ ack.pc = "idle"
          /\ ack.pc # "idle" => Len(wire) <= SeqSpace - 3
          /\ ack.pc = "mark" => ack.val = (seqNumber + 2) % SeqSpace
          /\ WireInv

(* The queue is left blocked with no number to wait for: reset() took the  *)
(* number away between the two writes of block().                          *)
Jammed == blocked /\ unblocker = -1 /\ numbering = "overlap"

(* Measurements do not stay blocked for ever, unless a reset() came in the *)
(* middle of block().                                                      *)
Unblocks == <>[][~ResetSeq]_vars => []<>~blocked \/ <>[]Jammed

(* "Max un ACKed packages" (JitterControl.java:32): no image is sent while *)
(* more than WINDOW of them are not acknowledged.                          *)
SendsWithinWindow == [][Len(wire') > Len(wire) => Len(wire) <= WINDOW]_vars
=============================================================================
