------------------------- MODULE JitterControlProofs -------------------------
(* Proofs about JitterControl: its types and limits, and that after a      *)
(* change of frequency no measurement of an older image is taken.          *)
EXTENDS JitterControl, FiniteSetTheorems, WellFoundedInduction, TLAPS

-----------------------------------------------------------------------------
(* Arithmetic: what % and \div give for the values that occur.             *)
LEMMA ModSmall ==
    ASSUME NEW x \in Nat, x < 2 * SeqSpace
    PROVE  x % SeqSpace = IF x < SeqSpace THEN x ELSE x - SeqSpace
BY SeqSpaceAssumption

LEMMA NextNumber ==
    ASSUME NEW x \in 0 .. SeqSpace - 1, NEW k \in 0 .. SeqSpace
    PROVE  (x + k) % SeqSpace \in 0 .. SeqSpace - 1 /\ Ahead(x, k, (x + k) % SeqSpace)
<1>1. x + k \in Nat /\ x + k < 2 * SeqSpace
  BY SeqSpaceAssumption
<1> QED BY <1>1, ModSmall, SeqSpaceAssumption DEF Ahead

LEMMA WindowRange ==
    ASSUME NEW f \in MINFREQUENCY .. MAXFREQUENCY
    PROVE  1500 \div f \in 1 .. 1000
BY FrequencyAssumption

LEMMA ClampRange ==
    ASSUME NEW f \in Int
    PROVE  Clamp(f) \in MINFREQUENCY .. MAXFREQUENCY
BY FrequencyAssumption DEF Clamp

(* Every set of natural numbers that is not empty has a least element.     *)
LEMMA LeastNat ==
    ASSUME NEW S, S \subseteq Nat, S # {}
    PROVE  \E n \in S : \A m \in S : n <= m
<1> DEFINE R == OpToRel(<, Nat)
<1>1. \E x \in S : \A y \in S : ~(<<y, x>> \in R)
  BY NatLessThanWellFounded, WFMin
<1>2. \A x, y \in Nat : <<y, x>> \in R <=> y < x
  BY DEF OpToRel
<1> HIDE DEF R
<1>3. \E x \in S : \A y \in S : ~(y < x)
  BY <1>1, <1>2, Zenon
<1> QED BY <1>3

-----------------------------------------------------------------------------
(* The median: a list of measurements has an upper bound, hence an element *)
(* at every place, so that the median of a full queue is a number.         *)
LEMMA BoundedList ==
    ASSUME NEW s \in Seq(Nat)
    PROVE  \E b \in Nat : \A i \in DOMAIN s : s[i] <= b
<1> DEFINE Limit(n, b) == \A i \in 1 .. n : s[i] <= b
           Unbounded == {n \in 0 .. Len(s) : \A b \in Nat : ~Limit(n, b)}
<1>1. Len(s) \in Nat /\ DOMAIN s = 1 .. Len(s) /\ \A i \in 1 .. Len(s) : s[i] \in Nat
  OBVIOUS
<1>2. Limit(0, 0)
  OBVIOUS
<1>3. ASSUME NEW n \in 1 .. Len(s), NEW b \in Nat, Limit(n - 1, b)
      PROVE  Limit(n, b + s[n]) /\ b + s[n] \in Nat
  <2>1. \A i \in 1 .. n : s[i] \in Nat /\ (i = n \/ i \in 1 .. n - 1)
    BY <1>1
  <2> QED BY <1>1, <1>3, <2>1
<1> HIDE DEF Limit
<1>4. Unbounded = {}
  <2>1. SUFFICES ASSUME Unbounded # {} PROVE FALSE
    OBVIOUS
  <2>2. Unbounded \subseteq Nat
    BY <1>1
  <2>3. PICK n \in Unbounded : \A m \in Unbounded : n <= m
    <3> HIDE DEF Unbounded
    <3> QED BY <2>1, <2>2, LeastNat
  <2>4. n \in 1 .. Len(s) /\ n - 1 \in 0 .. Len(s) /\ ~(n <= n - 1)
    BY <1>1, <1>2, <2>3
  <2>5. n - 1 \notin Unbounded
    BY <2>3, <2>4
  <2>6. PICK b \in Nat : Limit(n - 1, b)
    BY <2>4, <2>5
  <2> QED BY <1>3, <2>3, <2>4, <2>6
<1>5. \E b \in Nat : Limit(Len(s), b)
  BY <1>1, <1>4
<1> QED BY <1>1, <1>5 DEF Limit

LEMMA RankedExists ==
    ASSUME NEW s \in Seq(Nat), NEW k \in 1 .. Len(s)
    PROVE  Ranked(s, k) \in Nat
<1> DEFINE Below(x) == {i \in DOMAIN s : s[i] < x}
           UpTo(x) == {i \in DOMAIN s : s[i] <= x}
           High == {x \in Nat : Cardinality(UpTo(x)) >= k}
<1>1. /\ IsFiniteSet(1 .. Len(s)) /\ Cardinality(1 .. Len(s)) = Len(s)
      /\ DOMAIN s = 1 .. Len(s) /\ Len(s) \in Nat /\ k \in Nat /\ 0 < k /\ k <= Len(s)
      /\ \A i \in DOMAIN s : s[i] \in Nat
  <2>1. IsFiniteSet(1 .. Len(s)) /\ Cardinality(1 .. Len(s)) = Len(s)
    <3>1. Len(s) \in Nat /\ Len(s) \in Int /\ 1 \in Int
      OBVIOUS
    <3>2. /\ IsFiniteSet(1 .. Len(s))
          /\ Cardinality(1 .. Len(s)) = IF 1 > Len(s) THEN 0 ELSE Len(s) - 1 + 1
      BY <3>1, FS_Interval
    <3> QED BY <3>1, <3>2
  <2> QED BY <2>1
<1>2. ASSUME NEW x \in Nat
      PROVE  Cardinality(UpTo(x)) \in Nat /\ Cardinality(Below(x)) \in Nat
  <2>1. IsFiniteSet(UpTo(x)) /\ IsFiniteSet(Below(x))
    BY <1>1, FS_Subset
  <2> HIDE DEF UpTo, Below
  <2> QED BY <2>1, FS_CardinalityType
<1>3. \E x \in Nat : UpTo(x) = 1 .. Len(s)
  <2>1. PICK b \in Nat : \A i \in DOMAIN s : s[i] <= b
    BY BoundedList
  <2> QED BY <1>1, <2>1
<1>4. Cardinality({}) = 0
  BY FS_EmptySet
<1>5. Below(0) = {} /\ \A x \in Nat \ {0} : Below(x) = UpTo(x - 1) /\ x - 1 \in Nat
  BY <1>1
<1>6. ASSUME NEW x \in Nat, \A i \in DOMAIN s : s[i] # x
      PROVE  UpTo(x) = Below(x)
  BY <1>1, <1>6
<1> HIDE DEF UpTo, Below
<1>7. PICK x \in High : \A y \in High : x <= y
  <2>1. High # {} /\ High \subseteq Nat
    BY <1>1, <1>3
  <2> HIDE DEF High
  <2> QED BY <2>1, LeastNat
<1>8. x \in Nat /\ Cardinality(UpTo(x)) >= k
  BY <1>7
<1>9. Cardinality(Below(x)) < k
  <2>1. CASE x = 0
    BY <1>1, <1>4, <1>5, <2>1
  <2>2. CASE x # 0
    <3>1. Below(x) = UpTo(x - 1) /\ x - 1 \in Nat /\ ~(x <= x - 1)
      BY <1>5, <1>8, <2>2
    <3>2. x - 1 \notin High
      BY <1>7, <3>1
    <3> QED BY <1>1, <1>2, <3>1, <3>2
  <2> QED BY <2>1, <2>2
<1>10. \E i \in DOMAIN s : s[i] = x
  <2>1. UpTo(x) # Below(x)
    BY <1>1, <1>2, <1>8, <1>9
  <2> QED BY <1>6, <1>8, <2>1
<1>11. \E y \in {s[i] : i \in DOMAIN s} :
        Cardinality(Below(y)) < k /\ Cardinality(UpTo(y)) >= k
  BY <1>8, <1>9, <1>10
<1>12. Ranked(s, k) \in {s[i] : i \in DOMAIN s}
  BY <1>11 DEF Ranked, Below, UpTo
<1> QED BY <1>1, <1>12

LEMMA MedianTyped ==
    ASSUME NEW s \in Seq(Nat)
    PROVE  Median(s) \in Int /\ Median(s) >= -1
<1> DEFINE h == Len(s) \div 2
<1>1. CASE Len(s) < SAMPLES
  BY <1>1 DEF Median
<1>2. CASE ~(Len(s) < SAMPLES)
  <2>1. Len(s) \in Nat /\ Len(s) >= 1 /\ h \in Nat
    BY <1>2, SamplesAssumption
  <2>2. CASE Len(s) % 2 = 1
    <3>1. h + 1 \in 1 .. Len(s)
      BY <2>1, <2>2
    <3>2. Ranked(s, h + 1) \in Nat
      BY <3>1, RankedExists
    <3> QED BY <1>2, <2>2, <3>2 DEF Median
  <2>3. CASE Len(s) % 2 # 1
    <3>1. h \in 1 .. Len(s) /\ h + 1 \in 1 .. Len(s)
      BY <2>1, <2>3
    <3>2. Ranked(s, h) \in Nat /\ Ranked(s, h + 1) \in Nat
      BY <3>1, RankedExists
    <3>3. (Ranked(s, h) + Ranked(s, h + 1)) \div 2 \in Nat
      BY <3>2
    <3> QED BY <1>2, <2>3, <3>3 DEF Median
  <2> QED BY <2>2, <2>3
<1> QED BY <1>1, <1>2
-----------------------------------------------------------------------------
(* Types.                                                                  *)
(* The record of an acknowledgement under way.                             *)
AckRecord == [pc : {"idle", "remove", "copy", "decide", "mark", "shut", "clamp",
                    "tell"},
              time : Timestamps, val : Int, way : {"MARAD", "GYORSIT", "LASSIT"}]

LEMMA AckAtTyped ==
    ASSUME NEW pc \in {"idle", "remove", "copy", "decide", "mark", "shut", "clamp",
                       "tell"}
    PROVE  AckAt(pc) \in AckRecord /\ AckAt(pc).pc = pc
BY TimestampsAssumption DEF AckAt, AckRecord

LEMMA AfterAddPC == \A s : AfterAdd(s) \in {"decide", "copy"}
BY DEF AfterAdd

LEMMA JitterTypeInit == Init => TypeOK
<1> SUFFICES ASSUME Init PROVE TypeOK
  OBVIOUS
<1>1. /\ seqNumber \in 0..SeqSpace - 1 /\ unblocker \in -1..SeqSpace - 1
      /\ sent \in Int /\ WINDOW \in 1..1000
      /\ freqUnchange \in 0..CORRECTION_SAMPLERATE_COUNTER - 1
      /\ InRange(frequency) /\ InRange(backendFreq)
  BY SeqSpaceAssumption, FrequencyAssumption
     DEF Init, InRange, CORRECTION_SAMPLERATE_COUNTER
<1>2. /\ list \in Seq(Timestamps) /\ Len(list) <= SAMPLES
      /\ wire \in Seq([seq : 0..SeqSpace - 1, old : BOOLEAN])
  BY SamplesAssumption DEF Init
<1>3. ack \in AckRecord /\ ack.pc = "idle"
  BY AckAtTyped DEF Init, NoAck
<1>4. /\ blocked \in BOOLEAN /\ diff \in BOOLEAN /\ frequency \in Int
      /\ resetPC = "idle" /\ numbering = "clear"
  <2>1. blocked \in BOOLEAN /\ diff \in BOOLEAN
    BY Zenon DEF Init
  <2>2. frequency \in Int /\ resetPC = "idle" /\ numbering = "clear"
    BY DEF Init
  <2> QED BY <2>1, <2>2
<1> QED BY <1>1, <1>2, <1>3, <1>4 DEF TypeOK, AckRecord

(* An acknowledgement of the image at the head.                            *)
LEMMA AckAddTyped ==
    ASSUME TypeOK, NEW t \in Timestamps, AckAdd(t)
    PROVE  TypeOK'
<1>1. wire' \in Seq([seq : 0..SeqSpace - 1, old : BOOLEAN])
  <2> DEFINE Image == [seq : 0..SeqSpace - 1, old : BOOLEAN]
  <2>1. wire \in Seq(Image) /\ wire # <<>> /\ wire' = Tail(wire)
    BY DEF AckAdd, TypeOK
  <2> HIDE DEF Image
  <2>2. Tail(wire) \in Seq(Image)
    BY <2>1
  <2> QED BY <2>1, <2>2 DEF Image
<1>2. (list' = Append(list, t) /\ Len(list) # SAMPLES) \/ list' = list
  BY DEF AckAdd
<1>3. list' \in Seq(Timestamps) /\ Len(list') <= SAMPLES
  <2>1. list \in Seq(Timestamps) /\ Len(list) <= SAMPLES /\ Len(list) \in Nat
    BY DEF TypeOK
  <2>2. Append(list, t) \in Seq(Timestamps) /\ Len(Append(list, t)) = Len(list) + 1
    BY <2>1
  <2> QED BY <1>2, <2>1, <2>2, SamplesAssumption
<1>4. blocked' \in BOOLEAN
  <2>1. blocked' = (blocked /\ ~Accepts(Head(wire).seq, t))
    BY DEF AckAdd
  <2> QED BY <2>1, Zenon
<1>5. \/ ack' = [pc |-> "remove", time |-> t, val |-> -1, way |-> "MARAD"]
      \/ ack' = AckAt(AfterAdd(list'))
  BY DEF AckAdd
<1>6. ack' \in AckRecord /\ ack'.pc \in {"remove", "decide", "copy"}
  <2>1. CASE ack' = [pc |-> "remove", time |-> t, val |-> -1, way |-> "MARAD"]
    BY <2>1 DEF AckRecord
  <2>2. CASE ack' = AckAt(AfterAdd(list'))
    BY <2>2, AckAtTyped, AfterAddPC
  <2> QED BY <1>5, <2>1, <2>2
<1>7. InRange(frequency)
  BY DEF AckAdd, TypeOK
<1>8. numbering' \in {"clear", "crowded", "overlap"}
  BY DEF AckAdd, TypeOK
<1>9. UNCHANGED <<frequency, freqUnchange, unblocker, seqNumber, sent, WINDOW,
                  backendFreq, diff, resetPC>>
  BY DEF AckAdd
<1> QED BY <1>1, <1>3, <1>4, <1>6, <1>7, <1>8, <1>9 DEF TypeOK, AckRecord, InRange

LEMMA AckRemoveTyped == TypeOK /\ AckRemove => TypeOK'
<1> SUFFICES ASSUME TypeOK, AckRemove PROVE TypeOK'
  OBVIOUS
<1>1. \/ ack' = NoAck /\ list' = list
      \/ /\ list # <<>> /\ list' = Append(Tail(list), ack.time)
         /\ ack' = AckAt(AfterAdd(list'))
  BY DEF AckRemove
<1>2. list' \in Seq(Timestamps) /\ Len(list') <= SAMPLES
  <2>1. ack.time \in Timestamps
    BY DEF TypeOK
  <2>2. CASE list # <<>> /\ list' = Append(Tail(list), ack.time)
    <3>1. Tail(list) \in Seq(Timestamps) /\ Len(Tail(list)) = Len(list) - 1
      BY <2>2 DEF TypeOK
    <3> QED BY <2>1, <2>2, <3>1 DEF TypeOK
  <2> QED BY <1>1, <2>2 DEF TypeOK
<1>3. ack' \in AckRecord /\ ack'.pc \in {"idle", "decide", "copy"}
  BY <1>1, AckAtTyped, AfterAddPC DEF NoAck
<1>4. InRange(frequency)
  BY DEF AckRemove, TypeOK
<1>5. UNCHANGED <<frequency, freqUnchange, blocked, unblocker, seqNumber, sent,
                  WINDOW, wire, backendFreq, diff, resetPC, numbering>>
  BY DEF AckRemove
<1> QED BY <1>2, <1>3, <1>4, <1>5 DEF TypeOK, AckRecord, InRange

LEMMA AckMedianTyped == TypeOK /\ AckMedian => TypeOK'
<1> SUFFICES ASSUME TypeOK, AckMedian PROVE TypeOK'
  OBVIOUS
<1>1. Median(list) \in Int
  <2>1. list \in Seq(Timestamps)
    BY DEF TypeOK
  <2>2. list \in Seq(Nat)
    <3>1. \A i \in 1 .. Len(list) : list[i] \in Timestamps
      BY <2>1
    <3>2. \A i \in 1 .. Len(list) : list[i] \in Nat
      BY <3>1, TimestampsAssumption
    <3> QED BY <2>1, <3>2
  <2> QED BY <2>2, MedianTyped
<1>2. \/ ack' = [pc |-> "decide", time |-> 0, val |-> Median(list), way |-> "MARAD"]
      \/ ack' = AckAt("idle") \/ ack' = AckAt("decide")
  BY DEF AckMedian, NoAck
<1>3. ack' \in AckRecord /\ ack'.pc \in {"idle", "decide"}
  <2>1. CASE ack' = [pc |-> "decide", time |-> 0, val |-> Median(list), way |-> "MARAD"]
    BY <1>1, <2>1, TimestampsAssumption DEF AckRecord
  <2> QED BY <1>2, <2>1, AckAtTyped
<1>4. InRange(frequency)
  BY DEF AckMedian, TypeOK
<1>5. UNCHANGED <<frequency, freqUnchange, list, blocked, unblocker, seqNumber, sent,
                  WINDOW, wire, backendFreq, diff, resetPC, numbering>>
  BY DEF AckMedian, queueVars
<1> QED BY <1>3, <1>4, <1>5 DEF TypeOK, AckRecord, InRange

(* The decision: it may take the frequency out of its range until the      *)
(* clamp.                                                                  *)
LEMMA AckDecideTyped == TypeOK /\ AckDecide => TypeOK'
<1> SUFFICES ASSUME TypeOK, AckDecide PROVE TypeOK'
  OBVIOUS
<1> DEFINE med   == ack.val
           same1 == IF med # -1 THEN freqUnchange + 1 ELSE freqUnchange
           next  == (seqNumber + 2) % SeqSpace
           Correct(way) == [pc |-> "mark", time |-> 0, way |-> way, val |-> next]
<1>1. ack.val \in Int /\ frequency \in Int /\ InRange(frequency)
  BY DEF AckDecide, TypeOK
<1>2. next \in 0 .. SeqSpace - 1
  <2>1. seqNumber \in 0 .. SeqSpace - 1 /\ 2 \in 0 .. SeqSpace
    BY SeqSpaceAssumption DEF TypeOK
  <2> QED BY <2>1, NextNumber
<1>3. \/ /\ ack' = Correct("LASSIT") /\ frequency' = (11 * med) \div 10
         /\ freqUnchange' = freqUnchange
      \/ /\ ack' = Correct("GYORSIT") /\ frequency' = (4 * frequency) \div 5
         /\ freqUnchange' = CORRECTION_SAMPLERATE_COUNTER - 3
      \/ /\ ack' = AckAt("clamp") /\ frequency' = frequency
         /\ freqUnchange' = same1 /\ same1 # CORRECTION_SAMPLERATE_COUNTER
  BY DEF AckDecide
<1>4. /\ ack' \in AckRecord /\ ack'.pc \in {"mark", "clamp"}
      /\ ack'.pc = "mark" => ack'.val \in 0 .. SeqSpace - 1
  <2> HIDE DEF next
  <2>1. next \in Int /\ 0 \in Timestamps
    BY <1>2, SeqSpaceAssumption, TimestampsAssumption
  <2>2. \A w \in {"LASSIT", "GYORSIT"} :
          Correct(w) \in AckRecord /\ Correct(w).pc = "mark" /\ Correct(w).val = next
    BY <2>1 DEF AckRecord
  <2>3. AckAt("clamp") \in AckRecord /\ AckAt("clamp").pc = "clamp"
    BY AckAtTyped
  <2> HIDE DEF Correct
  <2> QED BY <1>2, <1>3, <2>2, <2>3
<1>5. frequency' \in Int
  <2> HIDE DEF Correct, same1
  <2> QED BY <1>1, <1>3
<1>6. freqUnchange' \in 0 .. CORRECTION_SAMPLERATE_COUNTER - 1
  <2> HIDE DEF Correct
  <2> QED BY <1>3 DEF CORRECTION_SAMPLERATE_COUNTER, TypeOK
<1>7. UNCHANGED <<list, blocked, unblocker, seqNumber, sent, WINDOW, wire,
                  backendFreq, diff, resetPC, numbering>>
  BY DEF AckDecide, queueVars
<1> QED BY <1>4, <1>5, <1>6, <1>7 DEF TypeOK, AckRecord, InRange

LEMMA AckMarkTyped == TypeOK /\ AckMark => TypeOK'
<1> SUFFICES ASSUME TypeOK, AckMark PROVE TypeOK'
  OBVIOUS
<1>1. wire' \in Seq([seq : 0..SeqSpace - 1, old : BOOLEAN])
  <2> DEFINE Image == [seq : 0..SeqSpace - 1, old : BOOLEAN]
  <2>1. wire \in Seq(Image)
    BY DEF TypeOK
  <2>2. Len(wire) \in Nat /\ \A i \in 1 .. Len(wire) : wire[i] \in Image
    <3> HIDE DEF Image
    <3> QED BY <2>1
  <2>3. \A i \in 1 .. Len(wire) : [wire[i] EXCEPT !.old = TRUE] \in Image
    BY <2>2
  <2> HIDE DEF Image
  <2>4. wire' = [i \in 1 .. Len(wire) |-> [wire[i] EXCEPT !.old = TRUE]]
    BY DEF AckMark
  <2>5. wire' \in Seq(Image)
    BY <2>2, <2>3, <2>4
  <2> QED BY <2>5 DEF Image
<1>2. /\ ack.pc = "mark" /\ unblocker' = ack.val
      /\ ack' = [pc |-> "shut", time |-> 0, val |-> -1, way |-> ack.way]
  BY DEF AckMark
<1>3. unblocker' \in -1 .. SeqSpace - 1 /\ ack' \in AckRecord /\ ack'.pc = "shut"
  <2>1. ack.way \in {"MARAD", "GYORSIT", "LASSIT"} /\ ack.val \in 0 .. SeqSpace - 1
    BY <1>2 DEF TypeOK
  <2>2. ack' \in AckRecord /\ ack'.pc = "shut"
    BY <1>2, <2>1, TimestampsAssumption DEF AckRecord
  <2> QED BY <1>2, <2>1, <2>2, SeqSpaceAssumption
<1>4. UNCHANGED <<frequency, freqUnchange, list, blocked, seqNumber, sent, WINDOW,
                  backendFreq, diff, resetPC, numbering>>
  BY DEF AckMark
<1> QED BY <1>1, <1>3, <1>4 DEF TypeOK, AckRecord, InRange

LEMMA AckShutTyped == TypeOK /\ AckShut => TypeOK'
<1> SUFFICES ASSUME TypeOK, AckShut PROVE TypeOK'
  OBVIOUS
<1>1. ack' \in AckRecord /\ ack'.pc = "clamp"
  <2>1. ack' = [pc |-> "clamp", time |-> 0, val |-> -1, way |-> ack.way]
    BY DEF AckShut
  <2>2. ack.way \in {"MARAD", "GYORSIT", "LASSIT"}
    BY DEF TypeOK
  <2> QED BY <2>1, <2>2, TimestampsAssumption DEF AckRecord
<1>2. list' \in Seq(Timestamps) /\ Len(list') <= SAMPLES /\ blocked' \in BOOLEAN
  BY SamplesAssumption DEF AckShut
<1>3. /\ freqUnchange' \in 0 .. CORRECTION_SAMPLERATE_COUNTER - 1
      /\ diff' \in BOOLEAN
  <2>1. \/ freqUnchange' = 0 /\ diff' = TRUE
        \/ freqUnchange' = freqUnchange /\ diff' = diff
    BY DEF AckShut
  <2>2. freqUnchange' \in 0 .. CORRECTION_SAMPLERATE_COUNTER - 1
    BY <2>1 DEF TypeOK, CORRECTION_SAMPLERATE_COUNTER
  <2>3. diff' \in BOOLEAN
    BY <2>1, Zenon DEF TypeOK
  <2> QED BY <2>2, <2>3
<1>4. UNCHANGED <<frequency, unblocker, seqNumber, sent, WINDOW, wire, backendFreq,
                  resetPC, numbering>>
  BY DEF AckShut
<1> QED BY <1>1, <1>2, <1>3, <1>4 DEF TypeOK, AckRecord, InRange

LEMMA AckClampTyped == TypeOK /\ AckClamp => TypeOK'
<1> SUFFICES ASSUME TypeOK, AckClamp PROVE TypeOK'
  OBVIOUS
<1>1. ack' \in AckRecord /\ ack'.pc = "tell"
  <2>1. ack' = [pc |-> "tell", time |-> 0, val |-> -1, way |-> ack.way]
    BY DEF AckClamp
  <2>2. ack.way \in {"MARAD", "GYORSIT", "LASSIT"}
    BY DEF TypeOK
  <2> QED BY <2>1, <2>2, TimestampsAssumption DEF AckRecord
<1>2. frequency' \in Int /\ InRange(frequency')
  <2>1. frequency \in Int /\ frequency' = Clamp(frequency)
    BY DEF AckClamp, TypeOK
  <2> QED BY <2>1, ClampRange, FrequencyAssumption DEF InRange
<1>3. UNCHANGED <<freqUnchange, list, blocked, unblocker, seqNumber, sent, WINDOW,
                  wire, backendFreq, diff, resetPC, numbering>>
  BY DEF AckClamp, queueVars
<1> QED BY <1>1, <1>2, <1>3 DEF TypeOK, AckRecord, InRange

LEMMA AckTellTyped == TypeOK /\ AckTell => TypeOK'
<1> SUFFICES ASSUME TypeOK, AckTell PROVE TypeOK'
  OBVIOUS
<1>1. InRange(frequency) /\ ack' = NoAck
  BY DEF AckTell, TypeOK
<1>2. WINDOW' \in 1 .. 1000
  <2> DEFINE w == 1500 \div frequency
  <2>1. w \in 1 .. 1000
    BY <1>1, WindowRange DEF InRange
  <2>2. WINDOW' = w \/ WINDOW' = WINDOW
    BY DEF AckTell
  <2>3. WINDOW \in 1 .. 1000
    BY DEF TypeOK
  <2> HIDE DEF w
  <2> QED BY <2>1, <2>2, <2>3
<1>3. InRange(backendFreq')
  <2>1. backendFreq' = frequency \/ backendFreq' = backendFreq
    BY DEF AckTell
  <2> QED BY <1>1, <2>1 DEF TypeOK
<1>4. sent' \in Int
  BY MaxInFlightAssumption DEF AckTell, CountAck, TypeOK
<1>5. UNCHANGED <<frequency, freqUnchange, list, blocked, unblocker, seqNumber, wire,
                  diff, resetPC, numbering>>
  BY DEF AckTell, queueVars
<1>6. ack' \in AckRecord /\ ack'.pc = "idle"
  BY <1>1, AckAtTyped DEF NoAck
<1> QED BY <1>1, <1>2, <1>3, <1>4, <1>5, <1>6 DEF TypeOK, AckRecord, InRange

LEMMA ResetTyped == TypeOK /\ (ResetSeq \/ ResetStep) => TypeOK'
<1> SUFFICES ASSUME TypeOK, ResetSeq \/ ResetStep PROVE TypeOK'
  OBVIOUS
<1>1. CASE ResetSeq
  <2> DEFINE Image == [seq : 0..SeqSpace - 1, old : BOOLEAN]
  <2>1. wire \in Seq(Image)
    BY DEF TypeOK
  <2>2. /\ DOMAIN wire = 1 .. Len(wire) /\ Len(wire) \in Nat
        /\ \A i \in 1 .. Len(wire) : wire[i] \in Image
    <3> HIDE DEF Image
    <3> QED BY <2>1
  <2>3. \A i \in 1 .. Len(wire) : [wire[i] EXCEPT !.old = FALSE] \in Image
    BY <2>2
  <2>4. wire' \in Seq(Image)
    <3> HIDE DEF Image
    <3>1. wire' = [i \in 1 .. Len(wire) |-> [wire[i] EXCEPT !.old = FALSE]]
      BY <1>1, <2>2 DEF ResetSeq
    <3> QED BY <2>2, <2>3, <3>1
  <2>5. UNCHANGED <<frequency, freqUnchange, list, blocked, unblocker, sent, WINDOW,
                    backendFreq, diff, ack>>
    BY <1>1 DEF ResetSeq, queueVars
  <2>6. /\ seqNumber' \in 0 .. SeqSpace - 1 /\ resetPC' = "frequency"
        /\ numbering' \in {"clear", "overlap"}
    BY <1>1, SeqSpaceAssumption DEF ResetSeq
  <2> QED BY <2>4, <2>5, <2>6 DEF TypeOK, InRange
<1>2. CASE ResetFrequency
  BY <1>2, FrequencyAssumption DEF ResetFrequency, TypeOK, queueVars, InRange
<1>3. CASE ResetUnchange
  BY <1>3 DEF ResetUnchange, TypeOK, queueVars, CORRECTION_SAMPLERATE_COUNTER, InRange
<1>4. CASE ResetList
  <2>1. list' \in Seq(Timestamps) /\ Len(list') <= SAMPLES
    BY <1>4, SamplesAssumption DEF ResetList
  <2> QED BY <1>4, <2>1 DEF ResetList, TypeOK, InRange
<1>5. CASE ResetBlocked
  <2>1. blocked' \in BOOLEAN /\ resetPC' = "unblocker"
    BY <1>5, Zenon DEF ResetBlocked
  <2>2. UNCHANGED <<frequency, freqUnchange, list, unblocker, seqNumber, sent,
                    WINDOW, wire, backendFreq, diff, ack, numbering>>
    BY <1>5 DEF ResetBlocked
  <2> QED BY <2>1, <2>2 DEF TypeOK, InRange
<1>6. CASE ResetUnblocker
  BY <1>6, SeqSpaceAssumption DEF ResetUnblocker, TypeOK, InRange
<1>7. CASE ResetDiff
  <2>1. diff' \in BOOLEAN /\ resetPC' = "idle"
    BY <1>7, Zenon DEF ResetDiff
  <2>2. UNCHANGED <<frequency, freqUnchange, list, blocked, unblocker, seqNumber,
                    sent, WINDOW, wire, backendFreq, ack, numbering>>
    BY <1>7 DEF ResetDiff, queueVars
  <2> QED BY <2>1, <2>2 DEF TypeOK, InRange
<1> QED BY <1>1, <1>2, <1>3, <1>4, <1>5, <1>6, <1>7 DEF ResetStep

LEMMA JitterTypeStep == TypeOK /\ [Next]_vars => TypeOK'
<1> SUFFICES ASSUME TypeOK, [Next]_vars PROVE TypeOK'
  OBVIOUS
<1>1. CASE Sendt
  <2>1. seqNumber' \in 0 .. SeqSpace - 1
    <3>1. seqNumber \in 0 .. SeqSpace - 1 /\ 1 \in 0 .. SeqSpace
      BY SeqSpaceAssumption DEF TypeOK
    <3>2. seqNumber' = (seqNumber + 1) % SeqSpace
      BY <1>1 DEF Sendt
    <3> QED BY <3>1, <3>2, NextNumber
  <2>2. wire' \in Seq([seq : 0..SeqSpace - 1, old : BOOLEAN])
    BY <1>1 DEF Sendt, TypeOK
  <2>3. sent' \in Int /\ numbering' \in {"clear", "crowded", "overlap"}
    BY <1>1 DEF Sendt, TypeOK
  <2>4. UNCHANGED <<frequency, freqUnchange, list, blocked, unblocker, WINDOW,
                    backendFreq, diff, ack, resetPC>>
    BY <1>1 DEF Sendt, queueVars
  <2> QED BY <2>1, <2>2, <2>3, <2>4 DEF TypeOK, InRange
<1>2. ASSUME NEW t \in Timestamps, AckAdd(t) PROVE TypeOK'
  BY <1>2, AckAddTyped
<1>3. CASE AckStep
  BY <1>3, AckRemoveTyped, AckMedianTyped, AckDecideTyped, AckMarkTyped,
     AckShutTyped, AckClampTyped, AckTellTyped DEF AckStep
<1>4. CASE ResetSeq \/ ResetStep
  BY <1>4, ResetTyped
<1>5. CASE UNCHANGED vars
  BY <1>5 DEF vars, queueVars, TypeOK, InRange
<1> QED BY <1>1, <1>2, <1>3, <1>4, <1>5 DEF Next

(* Every variable keeps its type.  In particular the interval between      *)
(* images that the backend is told to use stays between the limits the     *)
(* code names, its own copy is outside them only inside receivedAck, and   *)
(* the window never becomes 0, whatever the browser reports and wherever   *)
(* reset() and receivedAck come in between each other.                     *)
THEOREM JitterTypeCorrect == Spec => []TypeOK
BY JitterTypeInit, JitterTypeStep, PTL DEF Spec
-----------------------------------------------------------------------------
(* Freshness.                                                              *)
LEMMA FreshInit == Init => FreshInv
<1> SUFFICES ASSUME Init PROVE FreshInv
  OBVIOUS
<1>1. wire = <<>> /\ Len(wire) = 0 /\ DOMAIN wire = {} /\ ack.pc = "idle" /\ resetPC = "idle"
  BY DEF Init, NoAck, AckAt
<1> QED BY <1>1, SeqSpaceAssumption DEF FreshInv, WireInv

(* Two numbers less than a round apart are different.                      *)
LEMMA AheadDiffers ==
    ASSUME NEW a \in 0 .. SeqSpace - 1, NEW b \in 0 .. SeqSpace - 1,
           NEW d \in 1 .. SeqSpace - 1, Ahead(a, d, b)
    PROVE  a # b
BY SeqSpaceAssumption DEF Ahead

(* The distance grows by the steps that are taken.                         *)
LEMMA AheadOnce ==
    ASSUME NEW a \in 0 .. SeqSpace - 1, NEW b \in 0 .. SeqSpace - 1,
           NEW c \in 0 .. SeqSpace - 1, NEW d \in Nat, NEW k \in Nat,
           Ahead(a, d, b), Ahead(b, k, c), d + k <= SeqSpace
    PROVE  Ahead(a, d + k, c)
BY SeqSpaceAssumption DEF Ahead

LEMMA WireTyped ==
    ASSUME TypeOK
    PROVE  /\ Len(wire) \in Nat /\ DOMAIN wire = 1 .. Len(wire)
           /\ \A i \in DOMAIN wire : /\ wire[i].seq \in 0..SeqSpace - 1
                                     /\ wire[i].old \in BOOLEAN
<1> DEFINE Image == [seq : 0..SeqSpace - 1, old : BOOLEAN]
<1>1. wire \in Seq(Image)
  BY DEF TypeOK
<1>2. Len(wire) \in Nat /\ DOMAIN wire = 1 .. Len(wire) /\ \A i \in DOMAIN wire : wire[i] \in Image
  <2> HIDE DEF Image
  <2> QED BY <1>1
<1> QED BY <1>2

(* A measurement of an old image is not taken.                             *)
LEMMA OldRefused ==
    ASSUME TypeOK, WireInv, ack.pc = "idle",
           NEW i \in DOMAIN wire, wire[i].old, NEW t \in Timestamps
    PROVE  ~Accepts(wire[i].seq, t) /\ blocked
<1>1. PICK d \in 3 .. SeqSpace - 1 : Ahead(wire[i].seq, d, unblocker)
  BY DEF WireInv
<1>2. wire[i].seq \in 0 .. SeqSpace - 1
  BY WireTyped
<1>3. d \in 1 .. SeqSpace - 1
  BY SeqSpaceAssumption
<1>4. wire[i].seq # unblocker
  <2>1. CASE unblocker = -1
    BY <1>2, <2>1, SeqSpaceAssumption
  <2>2. CASE unblocker # -1
    <3>1. unblocker \in 0 .. SeqSpace - 1
      BY <2>2, SeqSpaceAssumption DEF TypeOK
    <3> QED BY <1>1, <1>2, <1>3, <3>1, AheadDiffers
  <2> QED BY <2>1, <2>2
<1>5. blocked
  BY DEF WireInv
<1> QED BY <1>4, <1>5 DEF Accepts

(* Without images on the wire there is nothing to show about them.         *)
LEMMA EmptyWire == wire' = <<>> => WireInv'
<1> SUFFICES ASSUME wire' = <<>> PROVE WireInv'
  OBVIOUS
<1>1. Len(wire') = 0 /\ DOMAIN wire' = {}
  OBVIOUS
<1> QED BY <1>1, SeqSpaceAssumption DEF WireInv

(* An acknowledgement: the image at the head leaves, the others move up.   *)
LEMMA WireAckAdd ==
    ASSUME TypeOK, WireInv, NEW t \in Timestamps, AckAdd(t)
    PROVE  WireInv' /\ Len(wire') <= SeqSpace - 3
<1> DEFINE n == Len(wire) - 1
<1>1. /\ wire # <<>> /\ n \in Nat /\ DOMAIN wire = 1 .. n + 1 /\ 1 \in DOMAIN wire
      /\ Head(wire) = wire[1] /\ Len(wire) = n + 1 /\ ack.pc = "idle"
  <2>1. wire # <<>> /\ ack.pc = "idle"
    BY DEF AckAdd
  <2>2. Len(wire) # 0 /\ Head(wire) = wire[1]
    BY <2>1 DEF TypeOK
  <2> QED BY <2>1, <2>2, WireTyped
<1>2. /\ wire' = Tail(wire) /\ seqNumber' = seqNumber /\ unblocker' = unblocker
      /\ blocked' = (blocked /\ ~Accepts(Head(wire).seq, t))
  BY DEF AckAdd
<1>3. /\ Len(wire') = n /\ DOMAIN wire' = 1 .. n
      /\ \A i \in 1 .. n : wire'[i] = wire[i + 1] /\ i + 1 \in DOMAIN wire /\ 1 < i + 1
  BY <1>1, <1>2 DEF TypeOK
<1>4. n <= SeqSpace - 3
  BY <1>1, SeqSpaceAssumption DEF WireInv
<1> HIDE DEF n
<1>5. \A i \in 1 .. n : Ahead(wire'[i].seq, n + 1 - i, seqNumber')
  <2>1. \A i \in 1 .. n : Len(wire) + 1 - (i + 1) = n + 1 - i
    BY <1>1
  <2>2. \A i \in 1 .. n : Ahead(wire[i + 1].seq, Len(wire) + 1 - (i + 1), seqNumber)
    BY <1>3 DEF WireInv
  <2> QED BY <1>2, <1>3, <2>1, <2>2
<1>6. \A i, j \in 1 .. n : i < j /\ wire'[j].old => wire'[i].old
  <2>1. \A i, j \in 1 .. n : i < j => i + 1 < j + 1
    BY <1>1
  <2> QED BY <1>3, <2>1 DEF WireInv
<1>7. ASSUME NEW i \in 1 .. n, wire'[i].old
      PROVE  blocked' /\ \E d \in 3 .. SeqSpace - 1 : Ahead(wire'[i].seq, d, unblocker')
  <2>1. wire[1].old
    BY <1>1, <1>3, <1>7 DEF WireInv
  <2>2. blocked /\ ~Accepts(Head(wire).seq, t)
    BY <1>1, <2>1, OldRefused
  <2>3. \E d \in 3 .. SeqSpace - 1 : Ahead(wire[i + 1].seq, d, unblocker)
    BY <1>3, <1>7 DEF WireInv
  <2> QED BY <1>2, <1>3, <2>2, <2>3
<1>8. n <= SeqSpace - 2
  BY <1>1, <1>4, SeqSpaceAssumption
<1> QED BY <1>3, <1>4, <1>5, <1>6, <1>7, <1>8 DEF WireInv, Ahead

(* block() marks the images on the wire, and the number it waits for is    *)
(* two ahead of the next one.                                              *)
LEMMA WireAckMark ==
    ASSUME TypeOK, WireInv, Len(wire) <= SeqSpace - 3, AckMark,
           ack.val = (seqNumber + 2) % SeqSpace
    PROVE  WireInv' /\ Len(wire') <= SeqSpace - 3
<1> DEFINE n == Len(wire)
<1>1. /\ wire' = [i \in 1 .. n |-> [wire[i] EXCEPT !.old = TRUE]] /\ n \in Nat
      /\ DOMAIN wire = 1 .. n /\ seqNumber' = seqNumber
      /\ unblocker' = (seqNumber + 2) % SeqSpace /\ ack'.pc = "shut"
  BY WireTyped DEF AckMark
<1>2. Len(wire') = n /\ DOMAIN wire' = 1 .. n /\ ack'.pc = "shut"
  <2>1. Len(wire') = n /\ DOMAIN wire' = 1 .. n
    BY <1>1
  <2> QED BY <1>1, <2>1
<1>3. \A i \in 1 .. n : wire'[i].seq = wire[i].seq /\ wire'[i].old = TRUE
  <2> DEFINE Image == [seq : 0..SeqSpace - 1, old : BOOLEAN]
  <2>1. wire \in Seq(Image)
    BY DEF TypeOK
  <2>2. \A i \in 1 .. n : wire[i] \in Image
    <3> HIDE DEF Image
    <3> QED BY <1>1, <2>1
  <2>3. \A i \in 1 .. n : wire'[i] = [wire[i] EXCEPT !.old = TRUE]
    <3> HIDE DEF Image
    <3> QED BY <1>1
  <2> QED BY <2>2, <2>3
<1>4. /\ seqNumber \in 0 .. SeqSpace - 1 /\ unblocker' \in 0 .. SeqSpace - 1
      /\ Ahead(seqNumber, 2, unblocker')
  <2>1. seqNumber \in 0 .. SeqSpace - 1 /\ 2 \in 0 .. SeqSpace
    BY SeqSpaceAssumption DEF TypeOK
  <2> QED BY <1>1, <2>1, NextNumber
<1>5. n <= SeqSpace - 3
  OBVIOUS
<1> HIDE DEF n
<1>6. \A i \in 1 .. n : Ahead(wire[i].seq, n + 1 - i, seqNumber)
  BY <1>1 DEF WireInv, n
<1>7. ASSUME NEW i \in 1 .. n
      PROVE  \E d \in 3 .. SeqSpace - 1 : Ahead(wire[i].seq, d, unblocker')
  <2>1. /\ n + 1 - i \in Nat /\ (n + 1 - i) + 2 <= SeqSpace
        /\ (n + 1 - i) + 2 \in 3 .. SeqSpace - 1
    BY <1>1, <1>5, SeqSpaceAssumption
  <2>2. wire[i].seq \in 0 .. SeqSpace - 1
    BY <1>1, WireTyped
  <2>3. Ahead(wire[i].seq, (n + 1 - i) + 2, unblocker')
    BY <1>4, <1>6, <2>1, <2>2, AheadOnce
  <2> QED BY <2>1, <2>3
<1>8. \A i \in 1 .. n : Ahead(wire'[i].seq, n + 1 - i, seqNumber')
  BY <1>1, <1>3, <1>6
<1>9. \A i \in 1 .. n : \E d \in 3 .. SeqSpace - 1 : Ahead(wire'[i].seq, d, unblocker')
  BY <1>3, <1>7
<1>10. n <= SeqSpace - 2
  BY <1>1, <1>5, SeqSpaceAssumption
<1> QED BY <1>2, <1>3, <1>5, <1>8, <1>9, <1>10 DEF WireInv

(* An image is sent: it gets the next number.                              *)
LEMMA WireSendt ==
    ASSUME TypeOK, WireInv, Sendt, Len(wire) + 2 < SeqSpace
    PROVE  WireInv'
<1> DEFINE n == Len(wire)
<1>1. /\ n \in Nat /\ n + 1 <= SeqSpace - 2 /\ DOMAIN wire = 1 .. n /\ Len(wire') = n + 1
      /\ DOMAIN wire' = 1 .. n + 1
      /\ \A i \in 1 .. n : wire'[i] = wire[i]
      /\ wire'[n + 1].seq = seqNumber /\ wire'[n + 1].old = FALSE
  <2>1. wire' = Append(wire, [seq |-> seqNumber, old |-> FALSE])
    BY DEF Sendt
  <2>2. n \in Nat /\ DOMAIN wire = 1 .. n
    BY WireTyped
  <2>3. n + 1 <= SeqSpace - 2
    BY <2>2, SeqSpaceAssumption
  <2>4. /\ Len(wire') = n + 1 /\ DOMAIN wire' = 1 .. n + 1
        /\ \A i \in 1 .. n : wire'[i] = wire[i]
        /\ wire'[n + 1] = [seq |-> seqNumber, old |-> FALSE]
    BY <2>1 DEF TypeOK
  <2> QED BY <2>2, <2>3, <2>4
<1>2. /\ blocked' = blocked /\ unblocker' = unblocker /\ ack' = ack
      /\ seqNumber' = (seqNumber + 1) % SeqSpace
  BY DEF Sendt, queueVars
<1>3. /\ seqNumber \in 0 .. SeqSpace - 1 /\ seqNumber' \in 0 .. SeqSpace - 1
      /\ Ahead(seqNumber, 1, seqNumber')
  <2>1. seqNumber \in 0 .. SeqSpace - 1 /\ 1 \in 0 .. SeqSpace
    BY SeqSpaceAssumption DEF TypeOK
  <2> QED BY <1>2, <2>1, NextNumber
<1>4. \A i \in 1 .. n : Ahead(wire[i].seq, n + 1 - i, seqNumber)
  BY <1>1 DEF WireInv
<1>5. \A i \in 1 .. n : wire[i].seq \in 0 .. SeqSpace - 1
  BY <1>1, WireTyped
<1> HIDE DEF n
<1>6. \A i \in 1 .. n + 1 : i \in 1 .. n \/ i = n + 1
  BY <1>1
<1>7. ASSUME NEW i \in 1 .. n PROVE Ahead(wire[i].seq, (n + 1) + 1 - i, seqNumber')
  <2>1. /\ n + 1 - i \in Nat /\ (n + 1 - i) + 1 <= SeqSpace
        /\ (n + 1) + 1 - i = (n + 1 - i) + 1
    BY <1>1, SeqSpaceAssumption
  <2>2. Ahead(wire[i].seq, (n + 1 - i) + 1, seqNumber')
    BY <1>3, <1>4, <1>5, <2>1, AheadOnce
  <2> QED BY <2>1, <2>2
<1>8. \A i \in 1 .. n + 1 : Ahead(wire'[i].seq, (n + 1) + 1 - i, seqNumber')
  <2>1. (n + 1) + 1 - (n + 1) = 1
    BY <1>1
  <2> QED BY <1>1, <1>3, <1>6, <1>7, <2>1
<1>9. \A i, j \in 1 .. n + 1 : i < j /\ wire'[j].old => wire'[i].old
  <2>1. \A i \in 1 .. n + 1, j \in 1 .. n : i < j => i \in 1 .. n
    BY <1>1
  <2>2. \A i, j \in 1 .. n : i < j /\ wire[j].old => wire[i].old
    BY <1>1 DEF WireInv
  <2> QED BY <1>1, <1>6, <2>1, <2>2
<1>10. ASSUME NEW i \in 1 .. n + 1, wire'[i].old
       PROVE  /\ blocked' \/ ack'.pc = "shut"
              /\ \E d \in 3 .. SeqSpace - 1 : Ahead(wire'[i].seq, d, unblocker')
  <2>1. i \in 1 .. n /\ wire'[i] = wire[i]
    BY <1>1, <1>6, <1>10
  <2> QED BY <1>1, <1>2, <1>10, <2>1 DEF WireInv
<1> QED BY <1>1, <1>8, <1>9, <1>10 DEF WireInv

LEMMA FreshStep ==
    ASSUME TypeOK, FreshInv, [Next]_vars
    PROVE  FreshInv'
<1>1. CASE Sendt
  <2>1. /\ numbering' = "clear" => /\ numbering = "clear" /\ resetPC = "idle"
                                   /\ ~(Len(wire) + 2 >= SeqSpace)
        /\ numbering' = "crowded" => resetPC = "idle"
        /\ resetPC' = resetPC /\ ack' = ack /\ ack.pc = "idle"
    <3>1. CASE resetPC # "idle"
      <4>1. numbering' = "overlap"
        BY <1>1, <3>1 DEF Sendt
      <4>2. resetPC' = resetPC /\ ack' = ack /\ ack.pc = "idle"
        BY <1>1 DEF Sendt
      <4> QED BY <4>1, <4>2
    <3>2. CASE resetPC = "idle" /\ numbering = "clear" /\ Len(wire) + 2 >= SeqSpace
      BY <1>1, <3>2 DEF Sendt
    <3>3. CASE resetPC = "idle" /\ ~(numbering = "clear" /\ Len(wire) + 2 >= SeqSpace)
      <4>1. numbering' = numbering
        BY <1>1, <3>3 DEF Sendt
      <4> QED BY <1>1, <3>3, <4>1 DEF Sendt
    <3> QED BY <3>1, <3>2, <3>3
  <2>2. numbering' = "clear" => WireInv'
    <3> SUFFICES ASSUME numbering' = "clear" PROVE WireInv'
      OBVIOUS
    <3>1. Len(wire) + 2 < SeqSpace
      BY <2>1, WireTyped, SeqSpaceAssumption
    <3> QED BY <1>1, <2>1, <3>1, WireSendt DEF FreshInv
  <2> QED BY <2>1, <2>2 DEF FreshInv
<1>2. ASSUME NEW t \in Timestamps, AckAdd(t) PROVE FreshInv'
  <2>1. /\ ack'.pc \notin {"idle", "mark"} /\ resetPC' = resetPC
        /\ wire # <<>> /\ wire' = Tail(wire)
        /\ numbering' = IF numbering = "crowded" /\ Len(wire) = 1 THEN "clear"
                                                                  ELSE numbering
    <3>1. \/ ack' = [pc |-> "remove", time |-> t, val |-> -1, way |-> "MARAD"]
          \/ ack' = AckAt(AfterAdd(list'))
      BY <1>2 DEF AckAdd
    <3>2. ack'.pc \in {"remove", "decide", "copy"}
      BY <3>1, AfterAddPC DEF AckAt
    <3> QED BY <1>2, <3>2 DEF AckAdd
  <2>2. CASE numbering' # "clear"
    BY <2>1, <2>2 DEF FreshInv
  <2>3. CASE numbering' = "clear" /\ numbering = "clear"
    <3>1. WireInv /\ resetPC = "idle"
      BY <2>1, <2>3 DEF FreshInv
    <3>2. WireInv' /\ Len(wire') <= SeqSpace - 3
      BY <1>2, <3>1, WireAckAdd
    <3> QED BY <2>1, <2>3, <3>1, <3>2 DEF FreshInv
  <2>4. CASE numbering' = "clear" /\ numbering # "clear"
    <3>1. numbering = "crowded" /\ Len(wire) = 1
      BY <2>1, <2>4
    <3>2. wire' = <<>> /\ Len(wire') = 0
      <4>1. Len(wire') = 0 /\ wire' \in Seq([seq : 0..SeqSpace - 1, old : BOOLEAN])
        BY <2>1, <3>1 DEF TypeOK
      <4> QED BY <4>1
    <3>3. resetPC = "idle" /\ WireInv'
      BY <3>1, <3>2, EmptyWire DEF FreshInv
    <3>4. Len(wire') <= SeqSpace - 3
      BY <3>2, SeqSpaceAssumption
    <3> QED BY <2>1, <2>4, <3>3, <3>4 DEF FreshInv
  <2> QED BY <2>2, <2>3, <2>4
<1>3. CASE AckMark
  <2>1. ack'.pc = "shut" /\ ack.pc = "mark" /\ UNCHANGED <<resetPC, numbering>>
    BY <1>3 DEF AckMark
  <2>2. numbering = "clear" => WireInv' /\ Len(wire') <= SeqSpace - 3
    BY <1>3, <2>1, WireAckMark DEF FreshInv
  <2> QED BY <2>1, <2>2 DEF FreshInv
<1>4. CASE AckRemove \/ AckMedian \/ AckDecide \/ AckShut \/ AckClamp \/ AckTell
  <2>1. /\ UNCHANGED <<wire, seqNumber, unblocker, resetPC, numbering>>
        /\ ack.pc # "idle"
    BY <1>4 DEF AckRemove, AckMedian, AckDecide, AckShut, AckClamp, AckTell, queueVars
  <2>2. (blocked' = blocked /\ ack.pc # "shut") \/ blocked' = TRUE
    BY <1>4 DEF AckRemove, AckMedian, AckDecide, AckShut, AckClamp, AckTell, queueVars
  <2>3. ack'.pc = "mark" => ack'.val = (seqNumber + 2) % SeqSpace
    <3>1. CASE AckDecide
      <4>1. ack'.pc = "clamp" \/ ack'.val = (seqNumber + 2) % SeqSpace
        BY <3>1 DEF AckDecide, AckAt
      <4> QED BY <4>1
    <3>2. CASE ~AckDecide
      <4>1. CASE AckShut \/ AckClamp
        BY <4>1 DEF AckShut, AckClamp
      <4>2. CASE AckRemove \/ AckMedian \/ AckTell
        <5>1. CASE AckRemove
          BY <5>1 DEF AckRemove, NoAck, AfterAdd, AckAt
        <5>2. CASE AckMedian
          BY <5>2 DEF AckMedian, NoAck, AckAt
        <5>3. CASE AckTell
          BY <5>3 DEF AckTell, NoAck, AckAt
        <5> QED BY <4>2, <5>1, <5>2, <5>3
      <4> QED BY <1>4, <3>2, <4>1, <4>2
    <3> QED BY <3>1, <3>2
  <2>4. WireInv => WireInv'
    BY <2>1, <2>2 DEF WireInv, Ahead
  <2> QED BY <2>1, <2>3, <2>4 DEF FreshInv
<1>5. CASE ResetSeq
  <2>1. /\ numbering' # "crowded"
        /\ numbering' = "clear" => wire = <<>> /\ ack.pc = "idle"
        /\ ack' = ack /\ wire' = [i \in DOMAIN wire |-> [wire[i] EXCEPT !.old = FALSE]]
    BY <1>5 DEF ResetSeq
  <2>2. numbering' = "clear" => wire' = <<>>
    BY <2>1
  <2> QED BY <2>1, <2>2, EmptyWire DEF FreshInv
<1>6. CASE ResetStep
  <2>1. UNCHANGED <<wire, ack, numbering>> /\ resetPC # "idle"
    BY <1>6 DEF ResetStep, ResetFrequency, ResetUnchange, ResetList, ResetBlocked,
                ResetUnblocker, ResetDiff
  <2>2. numbering' = "clear" => wire' = <<>> /\ ack'.pc = "idle"
    BY <2>1 DEF FreshInv
  <2>3. numbering' # "crowded"
    BY <2>1 DEF FreshInv
  <2> QED BY <2>2, <2>3, EmptyWire DEF FreshInv
<1>7. CASE UNCHANGED vars
  BY <1>7 DEF vars, queueVars, FreshInv, WireInv, Ahead
<1> QED BY <1>1, <1>2, <1>3, <1>4, <1>5, <1>6, <1>7 DEF Next, AckStep

(* No step takes a measurement of an image sent before the last change of  *)
(* frequency.                                                              *)
LEMMA FreshAction ==
    ASSUME TypeOK, FreshInv, [Next]_vars, numbering = "clear"
    PROVE  ~TakesOldSample
<1> SUFFICES ASSUME TakesOldSample PROVE FALSE
  OBVIOUS
<1>1. /\ wire # <<>> /\ Head(wire) = wire[1] /\ 1 \in DOMAIN wire /\ wire[1].old
      /\ Len(wire') < Len(wire) /\ Len(wire) \in Nat
  BY DEF TakesOldSample, TypeOK
<1>2. PICK t \in Timestamps : AckAdd(t)
  <2>1. ~Sendt
    BY <1>1 DEF Sendt, TypeOK
  <2>2. ~ResetSeq
    <3> SUFFICES ASSUME ResetSeq PROVE FALSE
      OBVIOUS
    <3>1. wire' = [i \in 1 .. Len(wire) |-> [wire[i] EXCEPT !.old = FALSE]]
      BY WireTyped DEF ResetSeq
    <3>2. Len(wire') = Len(wire)
      BY <1>1, <3>1
    <3> QED BY <1>1, <3>2
  <2>3. ~AckMark
    <3> SUFFICES ASSUME AckMark PROVE FALSE
      OBVIOUS
    <3>1. wire' = [i \in 1 .. Len(wire) |-> [wire[i] EXCEPT !.old = TRUE]]
      BY DEF AckMark
    <3>2. Len(wire') = Len(wire)
      BY <1>1, <3>1
    <3> QED BY <1>1, <3>2
  <2>4. AckStep => AckMark
    BY <1>1 DEF AckStep, AckRemove, AckMedian, AckDecide, AckShut, AckClamp, AckTell
  <2>5. ~ResetStep /\ ~UNCHANGED vars
    BY <1>1 DEF ResetStep, ResetFrequency, ResetUnchange, ResetList, ResetBlocked,
                ResetUnblocker, ResetDiff, vars
  <2> QED BY <2>1, <2>2, <2>3, <2>4, <2>5 DEF Next
<1>3. ack.pc = "idle" /\ WireInv
  BY <1>2 DEF AckAdd, FreshInv
<1>4. ~Accepts(Head(wire).seq, t)
  BY <1>1, <1>3, OldRefused
<1>5. list' = list /\ ack' = AckAt(AfterAdd(list'))
  BY <1>2, <1>4 DEF AckAdd
<1>6. ack'.pc # "remove"
  BY <1>5, AfterAddPC DEF AckAt
<1> QED BY <1>5, <1>6 DEF TakesOldSample

(* After a change of frequency only measurements of images sent after it   *)
(* are taken, unless the stream was restarted with images on their way, or *)
(* an acknowledgement under way, or there have been more images on their   *)
(* way than the sequence numbers tell apart.  How many there may be is not *)
(* assumed: once they have all been acknowledged the property holds again. *)
THEOREM FreshSamples == Spec => OnlyFreshSamples
<1>1. TypeOK /\ FreshInv /\ [Next]_vars => FreshInv'
  BY FreshStep
<1>2. TypeOK /\ FreshInv /\ [Next]_vars => [numbering = "clear" => ~TakesOldSample]_vars
  BY FreshAction
<1> QED BY <1>1, <1>2, JitterTypeInit, JitterTypeStep, FreshInit, PTL DEF Spec, OnlyFreshSamples
=============================================================================
