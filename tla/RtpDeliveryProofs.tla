-------------------------- MODULE RtpDeliveryProofs --------------------------
(***************************************************************************)
(* Proofs about RtpDelivery for every sequence and timestamp modulus, every*)
(* length of the stream, and every network whose bursts of loss and whose  *)
(* reordering stay below half the sequence space.                          *)
(***************************************************************************)
EXTENDS RtpDelivery, RtpStreamAnalyzerProofs

-----------------------------------------------------------------------------
(* The extended number of the packet with the given index, counted from    *)
(* the packet that arrived first.                                          *)
NumberOf(index) == base_extended_sequence + index - first_index

DeliveryTypes ==
  /\ first_number \in SequenceNumber
  /\ first_timestamp \in Timestamps
  /\ delivered \subseteq 0..LastIndex
  /\ repeated \in Nat
  /\ statistics.ssrc \in {None, SenderSsrc}

NothingDelivered ==
  delivered = {} =>
    /\ ~ Started
    /\ first_index = None
    /\ repeated = 0
    /\ statistics.duplicate_packets = 0
    /\ previous.arrival_time = None
    /\ jitter.scaled = 0

NewestIsLargest ==
  delivered # {} =>
    /\ Newest \in delivered
    /\ \A other \in delivered : other <= Newest

(* The analyzer's extended numbers are the sender's indices, shifted.      *)
NumbersAreIndices ==
  delivered # {} =>
    /\ Started
    /\ first_index \in delivered
    /\ base_extended_sequence = (first_number + first_index) % SequenceModulus
    /\ highest_extended_sequence = NumberOf(Newest)
    /\ arrived = {NumberOf(index) : index \in delivered}
    /\ statistics.duplicate_packets = repeated

(* The packet the jitter is measured from is the newest one.               *)
PreviousIsNewest ==
  delivered # {} =>
    /\ clock >= previous.arrival_time
    /\ previous.arrival_time - Newest * Interval \in 0..MaxDelay
    /\ previous.timestamp = Sent(Newest).timestamp

DeliveryInv ==
  /\ IInv
  /\ DeliveryTypes
  /\ NothingDelivered
  /\ NewestIsLargest
  /\ NumbersAreIndices
  /\ PreviousIsNewest
  /\ JitterWithinDelayVariation

-----------------------------------------------------------------------------
(* The constants.                                                          *)
LEMMA DeliveryConstants ==
  /\ LastIndex \in Nat /\ Interval \in Nat \ {0} /\ MaxDelay \in Nat
  /\ MaxJump \in Nat /\ MaxJump < HalfSequenceSpace
  /\ MaxDelay \div Interval < HalfSequenceSpace
  /\ ClockRate \in Nat /\ TimestampModulus \in Nat \ {0}
  /\ Timestamps = 0..(TimestampModulus - 1)
  /\ HalfSequenceSpace \in Nat /\ SequenceModulus \in Nat \ {0}
  /\ ConfiguredPayloadType \in PayloadTypes
  /\ SenderSsrc \in Ssrcs /\ SenderSsrc # None
  /\ ConfiguredSsrc \in {None, SenderSsrc}
  /\ FirstNumbers \subseteq SequenceNumber /\ FirstTimestamps \subseteq Timestamps
<1>1. SenderSsrc \in Ssrcs
  BY SenderAssumption DEF SenderAssumption, SenderSsrc
<1>2. QED
  BY <1>1, Modulus, ConstantsAssumption, DeliveryAssumption, SenderAssumption
     DEF ConstantsAssumption, DeliveryAssumption, SenderAssumption

(* The sender's packets are packets of the stream the analyzer analyzes.   *)
LEMMA SentIsPacket ==
  ASSUME DeliveryTypes, NEW index \in 0..LastIndex
  PROVE  /\ Sent(index) \in RtpPacket
         /\ Sent(index).payload_type = ConfiguredPayloadType
         /\ Sent(index).ssrc = SenderSsrc
         /\ Sent(index).sequence_number = (first_number + index) % SequenceModulus
         /\ Sent(index).timestamp = (first_timestamp + index * Interval * ClockRate)
                                      % TimestampModulus
<1>1. /\ index \in Nat /\ first_number \in Int /\ first_timestamp \in Int
  BY DeliveryConstants DEF DeliveryTypes, SequenceNumber
<1>2. (first_number + index) % SequenceModulus \in SequenceNumber
  BY <1>1, Residue
<1>3. (first_timestamp + index * Interval * ClockRate) % TimestampModulus \in Timestamps
  <2> DEFINE t == first_timestamp + index * Interval * ClockRate
  <2>1. t \in Int
    BY <1>1, DeliveryConstants
  <2> HIDE DEF t
  <2>2. t % TimestampModulus \in 0..(TimestampModulus - 1)
    BY <2>1, DeliveryConstants, DivisionWithRemainder
  <2>3. QED
    BY <2>2, DeliveryConstants DEF t
<1>4. QED
  BY <1>2, <1>3, DeliveryConstants DEF Sent, RtpPacket

(* The newest index after one more arrived.                                *)
LEMMA NewestStep ==
  ASSUME delivered \subseteq Nat, NewestIsLargest, NEW index \in Nat,
         delivered' = delivered \cup {index}
  PROVE  /\ NewestIsLargest'
         /\ Newest' = IF delivered = {} \/ index > Newest THEN index ELSE Newest
<1> DEFINE n == IF delivered = {} \/ index > Newest THEN index ELSE Newest
<1>1. /\ n \in delivered'
      /\ \A other \in delivered' : other <= n /\ other \in Nat
  <2>1. CASE delivered = {}
    BY <2>1
  <2>2. CASE delivered # {}
    <3>1. Newest \in Nat /\ \A other \in delivered : other <= Newest /\ other \in Nat
      BY <2>2 DEF NewestIsLargest
    <3>2. QED
      BY <2>2, <3>1 DEF NewestIsLargest
  <2>3. QED
    BY <2>1, <2>2
<1> HIDE DEF n
<1>2. Newest' \in delivered' /\ \A other \in delivered' : other <= Newest'
  BY <1>1 DEF Newest
<1>3. Newest' = n
  BY <1>1, <1>2
<1>4. QED
  BY <1>2, <1>3 DEF NewestIsLargest, n

-----------------------------------------------------------------------------
(* The analyzer's arithmetic finds the right turn of the circle.           *)

(* A number within half the circle of the highest one is the one that the  *)
(* analyzer computes from its 16 bits.                                     *)
LEMMA NearestNumber ==
  ASSUME highest_extended_sequence \in Nat, NEW n \in Int,
         n - highest_extended_sequence \in -HalfSequenceSpace..(HalfSequenceSpace - 1)
  PROVE  LET s == n % SequenceModulus
         IN  /\ s \in SequenceNumber
             /\ ExtendedNumber(s) = n
             /\ IsAhead(s) <=> n > highest_extended_sequence
             /\ n > highest_extended_sequence =>
                  ForwardDelta(s) = n - highest_extended_sequence
             /\ ForwardDelta(s) = 0 <=> n = highest_extended_sequence
<1> DEFINE m == SequenceModulus
           h == highest_extended_sequence
           s == n % m
           f == ForwardDelta(s)
           b == Behind(s)
<1>1. /\ m \in Nat \ {0} /\ HalfSequenceSpace \in Nat \ {0, 1}
      /\ m = 2 * HalfSequenceSpace /\ s \in SequenceNumber
  BY Modulus, Residue
<1>2. /\ f \in 0..(m - 1) /\ (h + f) % m = s
      /\ b \in 0..(m - 1) /\ (h - b) % m = s
      /\ f = 0 <=> b = 0
      /\ f # 0 => f + b = m
  BY <1>1, Window
<1>3. h # None
  BY DEF None
<1> HIDE DEF f, b
<1>4. CASE n >= h
  <2>1. n = h + f
    <3>1. CASE n <= h + f
      BY <1>1, <1>2, <1>4, <3>1, SameResidueWithinTurn, h + f \in Int, (h + f) - n < m
    <3>2. CASE h + f <= n
      BY <1>1, <1>2, <1>4, <3>2, SameResidueWithinTurn, h + f \in Int, n - (h + f) < m
    <3>3. QED
      BY <1>1, <1>2, <3>1, <3>2
  <2>2. f = n - h /\ f <= HalfSequenceSpace - 1
    BY <1>1, <1>2, <2>1
  <2>3. IsAhead(s) <=> n > h
    BY <1>1, <1>2, <2>1, <2>2 DEF IsAhead, f
  <2>4. ~ IsAhead(s) => h - b = n
    BY <1>2, <2>1, <2>3
  <2>5. ExtendedNumber(s) = n
    BY <1>3, <2>1, <2>4 DEF ExtendedNumber, f, b
  <2>6. QED
    BY <1>1, <2>2, <2>3, <2>5 DEF f
<1>5. CASE n < h
  <2>1. n = h - b
    <3>1. CASE n <= h - b
      BY <1>1, <1>2, <1>5, <3>1, SameResidueWithinTurn, h - b \in Int, (h - b) - n < m
    <3>2. CASE h - b <= n
      BY <1>1, <1>2, <1>5, <3>2, SameResidueWithinTurn, h - b \in Int, n - (h - b) < m
    <3>3. QED
      BY <1>1, <1>2, <3>1, <3>2
  <2>2. b # 0 /\ f >= HalfSequenceSpace
    BY <1>1, <1>2, <1>5, <2>1
  <2>3. ~ IsAhead(s)
    BY <1>1, <2>2 DEF IsAhead, f
  <2>4. ExtendedNumber(s) = n
    BY <1>3, <2>1, <2>3 DEF ExtendedNumber, b
  <2>5. QED
    BY <1>1, <1>5, <2>2, <2>3, <2>4 DEF f
<1>6. QED
  BY <1>4, <1>5

(* What Deliver hands to the analyzer.                                     *)
LEMMA DeliveredPacket ==
  ASSUME DeliveryInv, NEW index \in 0..LastIndex, NEW t \in Nat, Deliver(index, t)
  PROVE  /\ Sent(index) \in RtpPacket
         /\ clock' = t
         /\ IInv'
         /\ \/ PushFirst(Sent(index), t) \/ PushAhead(Sent(index), t)
            \/ PushDuplicate(Sent(index)) \/ PushLate(Sent(index))
         /\ delivered' = delivered \cup {index}
         /\ statistics'.ssrc = SenderSsrc
         /\ DeliveryTypes'
         /\ NewestIsLargest'
         /\ Newest' = IF delivered = {} \/ index > Newest THEN index ELSE Newest
<1> DEFINE packet == Sent(index)
<1>1. /\ packet \in RtpPacket
      /\ packet.payload_type = ConfiguredPayloadType /\ packet.ssrc = SenderSsrc
  BY SentIsPacket DEF DeliveryInv
<1> HIDE DEF packet
<1>2. clock' = t /\ PushPacket(packet, t) /\ delivered' = delivered \cup {index}
  BY DEF Deliver, ArrivesAt, packet
<1>3. IInv'
  BY <1>1, <1>2, PushPacketInv DEF DeliveryInv
<1>4. \/ PushFirst(packet, t) \/ PushAhead(packet, t)
      \/ PushDuplicate(packet) \/ PushLate(packet)
  BY <1>1, <1>2
     DEF PushPacket, PushUnexpectedPayloadType, PushUnexpectedSsrc, DeliveryInv,
         DeliveryTypes
<1>5. statistics'.ssrc = SenderSsrc
  BY <1>1, <1>4, PacketSetsSsrc DEF DeliveryInv
<1>6. /\ delivered \subseteq Nat /\ index \in Nat
  BY DeliveryConstants DEF DeliveryInv, DeliveryTypes
<1>7. /\ NewestIsLargest'
      /\ Newest' = IF delivered = {} \/ index > Newest THEN index ELSE Newest
  BY <1>2, <1>6, NewestStep DEF DeliveryInv
<1>8. DeliveryTypes'
  <2>1. repeated' \in Nat
    BY DEF Deliver, DeliveryInv, DeliveryTypes
  <2>2. QED
    BY <1>2, <1>5, <2>1 DEF Deliver, DeliveryInv, DeliveryTypes
<1>9. QED
  BY <1>1, <1>2, <1>3, <1>4, <1>5, <1>7, <1>8 DEF packet

(* Once the stream has begun, the analyzer finds the index of every packet *)
(* that arrives: loss and reordering stay within half the sequence space.  *)
LEMMA DeliveredNumber ==
  ASSUME DeliveryInv, delivered # {}, NEW index \in 0..LastIndex, NEW t \in Nat,
         Deliver(index, t)
  PROVE  LET s == Sent(index).sequence_number
         IN  /\ Newest \in Nat /\ first_index \in Nat /\ NumberOf(index) \in Int
             /\ s \in SequenceNumber
             /\ ExtendedNumber(s) = NumberOf(index)
             /\ IsAhead(s) <=> index > Newest
             /\ index > Newest =>
                  highest_extended_sequence + ForwardDelta(s) = NumberOf(index)
             /\ ForwardDelta(s) = 0 <=> index = Newest
<1> DEFINE m == SequenceModulus
           b == base_extended_sequence
           h == highest_extended_sequence
           n == NumberOf(index)
           s == Sent(index).sequence_number
<1>1. /\ Newest \in Nat /\ first_index \in Nat /\ index \in Nat
      /\ b = (first_number + first_index) % m
      /\ h = NumberOf(Newest)
      /\ s = (first_number + index) % m
      /\ first_number \in Int
  <2>1. DeliveryTypes /\ NewestIsLargest /\ NumbersAreIndices
    BY DEF DeliveryInv
  <2>2. delivered \subseteq Nat /\ index \in Nat
    BY <2>1, DeliveryConstants DEF DeliveryTypes
  <2>3. Newest \in Nat /\ first_index \in Nat
    BY <2>1, <2>2 DEF NewestIsLargest, NumbersAreIndices
  <2>4. first_number \in Int
    BY <2>1, DeliveryConstants DEF DeliveryTypes, SequenceNumber
  <2>5. QED
    BY <2>1, <2>2, <2>3, <2>4, SentIsPacket DEF NumbersAreIndices
<1>2. Started /\ b \in Nat /\ h \in Nat
  BY Running DEF DeliveryInv, NumbersAreIndices
<1>3. n \in Int /\ n - h = index - Newest
  BY <1>1, <1>2 DEF NumberOf
<1>4. n % m = s
  <2> DEFINE a == first_number + first_index
             d == index - first_index
  <2>1. m \in Nat \ {0} /\ a \in Int /\ d \in Int
    BY <1>1, Modulus
  <2>2. n = (a % m) + d /\ first_number + index = a + d
    BY <1>1, <1>2, <2>1 DEF NumberOf
  <2> HIDE DEF a, d, n, m
  <2>3. ((a % m) + d) % m = (a + d) % m
    BY <2>1, ShiftedResidue
  <2>4. QED
    BY <1>1, <2>2, <2>3
<1>5. index - Newest <= HalfSequenceSpace - 1
  BY <1>1, DeliveryConstants DEF Deliver
<1>6. Newest - index <= HalfSequenceSpace
  <2>1. /\ previous.arrival_time \in Int /\ clock \in Int
        /\ clock >= previous.arrival_time
        /\ previous.arrival_time - Newest * Interval \in 0..MaxDelay
    BY DEF DeliveryInv, IInv, TypeOK, PreviousIsNewest, None
  <2>2. t >= clock /\ t - index * Interval \in 0..MaxDelay
    BY DEF Deliver
  <2>3. Newest * Interval \in Int /\ index * Interval \in Int
    BY <1>1, DeliveryConstants
  <2>4. Newest * Interval - index * Interval <= MaxDelay
    BY <2>1, <2>2, <2>3, DeliveryConstants
  <2>5. (Newest - index) * Interval <= MaxDelay
    <3>1. Newest \in Int /\ index \in Int /\ Interval \in Int
      BY <1>1, DeliveryConstants
    <3>2. (Newest - index) * Interval = Newest * Interval - index * Interval
      BY <3>1, ProductOfDifference
    <3>3. QED
      BY <2>3, <2>4, <3>2
  <2>6. Newest - index <= MaxDelay \div Interval
    <3>1. Newest - index \in Int /\ MaxDelay \in Nat /\ Interval \in Nat \ {0}
      BY <1>1, DeliveryConstants
    <3>2. QED
      BY <2>5, <3>1, QuotientIsLargest
  <2>7. MaxDelay \div Interval \in Int
    BY DeliveryConstants, DivisionWithRemainder
  <2>8. QED
    BY <1>1, <2>6, <2>7, DeliveryConstants
<1>7. n - h \in -HalfSequenceSpace..(HalfSequenceSpace - 1)
  BY <1>1, <1>2, <1>3, <1>5, <1>6, DeliveryConstants
<1> HIDE DEF n, s
<1>8. /\ s \in SequenceNumber
      /\ ExtendedNumber(s) = n
      /\ IsAhead(s) <=> n > h
      /\ n > h => ForwardDelta(s) = n - h
      /\ ForwardDelta(s) = 0 <=> n = h
  BY <1>2, <1>3, <1>4, <1>7, NearestNumber
<1>9. (n > h <=> index > Newest) /\ (n = h <=> index = Newest)
  BY <1>1, <1>2, <1>3
<1>10. QED
  BY <1>1, <1>2, <1>3, <1>8, <1>9 DEF n, s

(* What the analyzer calls received are the sender's packets that arrived, *)
(* from the first one on.                                                  *)
LEMMA ReceivedIsDelivered ==
  ASSUME DeliveryInv, delivered # {}, NEW index \in Int
  PROVE  NumberOf(index) \in Received <=> index \in delivered /\ index >= first_index
<1>1. /\ base_extended_sequence \in Nat /\ first_index \in Nat
      /\ delivered \subseteq Nat
      /\ arrived = {NumberOf(other) : other \in delivered}
  <2>1. delivered \subseteq Nat
    BY DeliveryConstants DEF DeliveryInv, DeliveryTypes
  <2>2. QED
    BY <2>1, Running DEF DeliveryInv, NumbersAreIndices
<1>2. NumberOf(index) \in arrived <=> index \in delivered
  BY <1>1 DEF NumberOf
<1>3. NumberOf(index) >= base_extended_sequence <=> index >= first_index
  BY <1>1 DEF NumberOf
<1>4. QED
  BY <1>2, <1>3 DEF Received

(* A delivery keeps the analyzer's numbers in step with the indices.       *)
LEMMA NumbersStep ==
  ASSUME DeliveryInv, NEW index \in 0..LastIndex, NEW t \in Nat, Deliver(index, t)
  PROVE  NumbersAreIndices'
<1> DEFINE packet == Sent(index)
           s == packet.sequence_number
<1>1. /\ packet \in RtpPacket
      /\ delivered' = delivered \cup {index} /\ delivered' # {}
      /\ Newest' = IF delivered = {} \/ index > Newest THEN index ELSE Newest
      /\ Started'
  BY DeliveredPacket, PacketSetsSsrc DEF DeliveryInv
<1>2. IInv /\ statistics \in RtpSessionStatistics
  BY CounterTypes DEF DeliveryInv
<1>3. index \in Nat /\ delivered \subseteq Nat
  BY DeliveryConstants DEF DeliveryInv, DeliveryTypes
<1>4. CASE delivered = {}
  <2>1. ~ Started /\ first_index = None /\ repeated = 0
        /\ statistics.duplicate_packets = 0 /\ arrived = {}
    BY <1>2, <1>4 DEF DeliveryInv, NothingDelivered, IInv, NothingBeforeFirst
  <2>2. PushFirst(packet, t)
    BY <2>1, DeliveredPacket
       DEF PushAhead, PushDuplicate, PushLate, Started
  <2>3. /\ s = (first_number + index) % SequenceModulus /\ s \in Nat
    BY SentIsPacket, Modulus DEF DeliveryInv, RtpPacket
  <2>4. /\ base_extended_sequence' = s /\ highest_extended_sequence' = s
        /\ arrived' = {s}
    BY <2>1, <2>2 DEF PushFirst, NoteArrival, ExtendedNumber, Started
  <2>5. statistics'.duplicate_packets = 0
    BY <1>2, <2>1, <2>2 DEF PushFirst, Counted, WithLoss, RtpSessionStatistics
  <2>6. /\ first_index' = index /\ repeated' = 0 /\ first_number' = first_number
        /\ delivered' = {index} /\ Newest' = index
    BY <1>1, <1>4, <2>1 DEF Deliver
  <2> HIDE DEF packet, s
  <2>7. NumberOf(index)' = s
    BY <1>3, <2>3, <2>4, <2>6 DEF NumberOf
  <2>8. QED
    BY <1>1, <2>3, <2>4, <2>5, <2>6, <2>7 DEF NumbersAreIndices, NumberOf
<1>5. CASE delivered # {}
  <2>1. /\ s \in SequenceNumber
        /\ ExtendedNumber(s) = NumberOf(index)
        /\ IsAhead(s) <=> index > Newest
        /\ index > Newest =>
             highest_extended_sequence + ForwardDelta(s) = NumberOf(index)
        /\ first_index \in Nat
    BY <1>5, DeliveredNumber
  <2>2. /\ Started /\ first_index \in delivered
        /\ base_extended_sequence = (first_number + first_index) % SequenceModulus
        /\ highest_extended_sequence = NumberOf(Newest)
        /\ arrived = {NumberOf(other) : other \in delivered}
        /\ statistics.duplicate_packets = repeated
    BY <1>5 DEF DeliveryInv, NumbersAreIndices
  <2>3. /\ first_index' = first_index /\ first_number' = first_number
        /\ repeated' = IF index \in delivered /\ index >= first_index
                       THEN repeated + 1 ELSE repeated
    BY <2>1 DEF Deliver, None
  <2>4. NumberOf(index) \in Received <=> index \in delivered /\ index >= first_index
    BY <1>3, <1>5, ReceivedIsDelivered
  <2>5. SUFFICES /\ base_extended_sequence' = base_extended_sequence
                 /\ highest_extended_sequence'
                      = IF index > Newest THEN NumberOf(index)
                        ELSE highest_extended_sequence
                 /\ arrived' = arrived \cup {NumberOf(index)}
                 /\ statistics'.duplicate_packets
                      = IF index \in delivered /\ index >= first_index
                        THEN repeated + 1 ELSE repeated
    <3>1. \A other : NumberOf(other)' = base_extended_sequence' + other - first_index'
      BY DEF NumberOf
    <3>2. \A other : NumberOf(other)' = NumberOf(other)
      BY <2>3, <2>5, <3>1 DEF NumberOf
    <3>3. arrived' = {NumberOf(other)' : other \in delivered'}
      BY <1>1, <2>2, <2>5, <3>2
    <3>4. highest_extended_sequence' = NumberOf(Newest)'
      BY <1>1, <1>5, <2>2, <2>3, <2>5 DEF NumberOf
    <3>5. QED
      BY <1>1, <2>2, <2>3, <2>5, <3>3, <3>4 DEF NumbersAreIndices
  <2>6. CASE PushAhead(packet, t)
    <3>1. IsAhead(s) /\ index > Newest
      BY <2>1, <2>6 DEF PushAhead
    <3>2. index \notin delivered
      <4>1. Newest \in Nat /\ \A other \in delivered : other <= Newest
        BY <1>3, <1>5 DEF DeliveryInv, NewestIsLargest
      <4>2. QED
        BY <1>3, <3>1, <4>1
    <3>3. statistics'.duplicate_packets = statistics.duplicate_packets
      BY <1>2, <2>6 DEF PushAhead, Counted, WithLoss, RtpSessionStatistics
    <3>4. QED
      BY <2>1, <2>2, <2>6, <3>1, <3>2, <3>3 DEF PushAhead, NoteArrival
  <2>7. CASE PushDuplicate(packet)
    <3>1. IsDuplicate(s) /\ ExtendedNumber(s) \in Received
      BY <1>2, <2>1, <2>2, <2>7, DuplicateIsReceived DEF PushDuplicate
    <3>2. ~ IsAhead(s)
      BY <3>1, Modulus DEF IsDuplicate, IsAhead
    <3>3. statistics'.duplicate_packets = statistics.duplicate_packets + 1
      BY <1>2, <2>7 DEF PushDuplicate, Counted, RtpSessionStatistics
    <3>4. QED
      BY <2>1, <2>2, <2>4, <2>7, <3>1, <3>2, <3>3 DEF PushDuplicate, NoteArrival
  <2>8. CASE PushLate(packet)
    <3>1. ~ IsAhead(s) /\ ExtendedNumber(s) \notin Received
      BY <1>2, <2>1, <2>2, <2>8, LateIsNotReceived DEF PushLate, IsLate
    <3>2. statistics'.duplicate_packets = statistics.duplicate_packets
      <4>1. CASE Candidate(s) # None
        BY <1>2, <2>8, <4>1 DEF PushLate, Counted, WithLoss, RtpSessionStatistics
      <4>2. CASE Candidate(s) = None
        BY <1>2, <2>8, <4>2 DEF PushLate, Counted, RtpSessionStatistics
      <4>3. QED
        BY <4>1, <4>2
    <3>3. QED
      BY <2>1, <2>2, <2>4, <2>8, <3>1, <3>2 DEF PushLate, NoteArrival
  <2>9. QED
    BY <2>2, <2>6, <2>7, <2>8, DeliveredPacket DEF PushFirst, Started
<1>6. QED
  BY <1>4, <1>5

-----------------------------------------------------------------------------
(* The jitter.                                                             *)

(* The transit times of two packets of the sender differ by no more than   *)
(* the network's delays do, also where the timestamp wraps between them.   *)
LEMMA TransitStep ==
  ASSUME DeliveryInv, delivered # {}, NEW index \in 0..LastIndex, NEW t \in Nat,
         Deliver(index, t), index > Newest
  PROVE  TransitDifference(Sent(index), t) \in 0..(MaxDelay * ClockRate)
<1> DEFINE k == index - Newest
           m == TimestampModulus
           before == previous.arrival_time
           a == first_timestamp + Newest * Interval * ClockRate
           d == k * Interval * ClockRate
           delta == SignedTimestampDelta(Sent(index).timestamp, previous.timestamp)
           drift == (t - before) - k * Interval
<1>1. /\ Newest \in 0..LastIndex /\ Newest \in Nat /\ index \in Nat
      /\ first_timestamp \in Int
  <2>1. DeliveryTypes /\ NewestIsLargest /\ LastIndex \in Nat
    BY DeliveryConstants DEF DeliveryInv
  <2>2. Newest \in 0..LastIndex
    BY <2>1 DEF DeliveryTypes, NewestIsLargest
  <2>3. first_timestamp \in Int
    BY <2>1, DeliveryConstants DEF DeliveryTypes
  <2>4. QED
    BY <2>1, <2>2, <2>3
<1>2. k \in 1..MaxJump /\ k \in Nat
  BY <1>1, DeliveryConstants DEF Deliver
<1>3. /\ before \in Int
      /\ before - Newest * Interval \in 0..MaxDelay
      /\ t - index * Interval \in 0..MaxDelay
      /\ previous.timestamp = Sent(Newest).timestamp
  BY DEF DeliveryInv, IInv, TypeOK, PreviousIsNewest, None, Deliver
<1>4. drift \in -MaxDelay..MaxDelay
  <2>1. Newest * Interval \in Int /\ index * Interval \in Int
    BY <1>1, DeliveryConstants
  <2>2. k * Interval = index * Interval - Newest * Interval
    BY <1>1, DeliveryConstants, ProductOfDifference
  <2>3. t \in Int /\ MaxDelay \in Int /\ before \in Int
    BY <1>3, DeliveryConstants
  <2> HIDE DEF k, before
  <2>4. QED
    BY <1>3, <2>1, <2>2, <2>3
<1>5. d \in 0..(m \div 2 - 1)
  <2>1. k * Interval <= MaxJump * Interval
    BY <1>2, DeliveryConstants, ProductIsMonotonic
  <2>2. d <= (MaxJump * Interval) * ClockRate
    BY <1>2, <2>1, DeliveryConstants, ProductIsMonotonic
  <2>3. (MaxJump * Interval) * ClockRate <= (MaxJump * Interval + MaxDelay) * ClockRate
    BY DeliveryConstants, ProductIsMonotonic
  <2>4. (MaxJump * Interval + MaxDelay) * ClockRate < m \div 2
    BY DeliveryAssumption DEF DeliveryAssumption
  <2>5. d \in Nat
    BY <1>2, DeliveryConstants
  <2>6. /\ m \div 2 \in Int
        /\ (MaxJump * Interval) * ClockRate \in Int
        /\ (MaxJump * Interval + MaxDelay) * ClockRate \in Int
    BY DeliveryConstants
  <2> HIDE DEF d, m
  <2>7. QED
    BY <2>2, <2>3, <2>4, <2>5, <2>6
<1>6. delta = d
  <2>1. /\ a \in Int /\ d \in Int /\ m \in Nat \ {0}
        /\ m \div 2 <= m
    BY <1>1, <1>2, DeliveryConstants
  <2>2. a + d = first_timestamp + index * Interval * ClockRate
    <3>1. k * Interval = index * Interval - Newest * Interval
      BY <1>1, DeliveryConstants, ProductOfDifference
    <3>2. d = index * Interval * ClockRate - Newest * Interval * ClockRate
      <4>1. index * Interval \in Int /\ Newest * Interval \in Int
        BY <1>1, DeliveryConstants
      <4>2. QED
        BY <3>1, <4>1, DeliveryConstants, ProductOfDifference
    <3>3. /\ index * Interval * ClockRate \in Int
          /\ Newest * Interval * ClockRate \in Int
      BY <1>1, DeliveryConstants
    <3> HIDE DEF d
    <3>4. QED
      BY <1>1, <3>2, <3>3
  <2>3. /\ Sent(index).timestamp = (a + d) % m
        /\ previous.timestamp = a % m
    BY <1>1, <1>3, <2>2, SentIsPacket DEF DeliveryInv
  <2> HIDE DEF a, d, m
  <2>4. (((a + d) % m) - (a % m)) % m = d
    <3>1. d \in 0..(m - 1)
      BY <1>5, <2>1
    <3>2. QED
      BY <2>1, <3>1, DifferenceOfResidues
  <2>5. delta = LET raw_delta == (((a + d) % m) - (a % m)) % m
                IN  IF raw_delta <= m \div 2 - 1 THEN raw_delta ELSE raw_delta - m
    BY <2>3 DEF SignedTimestampDelta, m
  <2>6. m \div 2 \in Int /\ d \in Int
    BY <2>1
  <2> DEFINE raw == (((a + d) % m) - (a % m)) % m
  <2>7. raw = d /\ delta = IF raw <= m \div 2 - 1 THEN raw ELSE raw - m
    BY <2>4, <2>5
  <2> HIDE DEF raw, delta
  <2>8. QED
    BY <1>5, <2>6, <2>7
<1>7. TransitDifference(Sent(index), t) = Abs(drift * ClockRate)
  <2>1. (t - before) * ClockRate - d = drift * ClockRate
    <3>1. t - before \in Int /\ k * Interval \in Int /\ ClockRate \in Int
      BY <1>2, <1>3, DeliveryConstants
    <3>2. QED
      BY <3>1, ProductOfDifference
  <2>2. QED
    BY <1>6, <2>1 DEF TransitDifference
<1> HIDE DEF drift
<1>8. Abs(drift * ClockRate) \in 0..(MaxDelay * ClockRate)
  <2>1. CASE drift >= 0
    <3>1. drift * ClockRate <= MaxDelay * ClockRate /\ drift * ClockRate \in Nat
      BY <1>4, <2>1, DeliveryConstants, ProductIsMonotonic
    <3>2. QED
      BY <3>1, DeliveryConstants DEF Abs
  <2>2. CASE drift < 0
    <3>1. (-drift) * ClockRate <= MaxDelay * ClockRate /\ (-drift) * ClockRate \in Nat
      BY <1>4, <2>2, DeliveryConstants, ProductIsMonotonic
    <3>2. drift * ClockRate = -((-drift) * ClockRate)
      BY <1>4, DeliveryConstants
    <3>3. QED
      BY <3>1, <3>2, DeliveryConstants DEF Abs
  <2>3. QED
    BY <1>4, <2>1, <2>2
<1>9. QED
  BY <1>7, <1>8

(* The jitter is measured from the newest packet, and a late or repeated   *)
(* one does not touch it.                                                  *)
LEMMA JitterStep ==
  ASSUME DeliveryInv, NEW index \in 0..LastIndex, NEW t \in Nat, Deliver(index, t)
  PROVE  PreviousIsNewest' /\ JitterWithinDelayVariation'
<1> DEFINE packet == Sent(index)
           s == packet.sequence_number
           limit == MaxDelay * ClockRate
<1>1. /\ clock' = t /\ t >= clock /\ clock \in Nat
      /\ t - index * Interval \in 0..MaxDelay
      /\ delivered' = delivered \cup {index} /\ delivered' # {}
      /\ Newest' = IF delivered = {} \/ index > Newest THEN index ELSE Newest
      /\ first_timestamp' = first_timestamp /\ first_number' = first_number
  BY DeliveredPacket DEF Deliver, DeliveryInv, IInv, TypeOK
<1>2. \A other : Sent(other)' = Sent(other)
  BY <1>1 DEF Sent
<1>3. /\ jitter \in [scaled : Nat, scale : Nat]
      /\ previous.arrival_time \in Int
      /\ jitter.scaled <= limit * jitter.scale
      /\ limit \in Nat
  BY DeliveryConstants
     DEF DeliveryInv, IInv, TypeOK, JitterWithinDelayVariation, None
<1>4. CASE PushFirst(packet, t)
  <2>1. delivered = {}
    BY <1>4 DEF PushFirst, DeliveryInv, NumbersAreIndices, Started
  <2>2. /\ jitter' = jitter
        /\ previous' = [arrival_time |-> t, timestamp |-> packet.timestamp]
    BY <1>4, <2>1 DEF PushFirst, UpdateJitter, DeliveryInv, NothingDelivered
  <2>3. Newest' = index
    BY <1>1, <2>1
  <2>4. PreviousIsNewest'
    BY <1>1, <1>2, <2>2, <2>3 DEF PreviousIsNewest
  <2>5. JitterWithinDelayVariation'
    BY <2>2 DEF DeliveryInv, JitterWithinDelayVariation
  <2>6. QED
    BY <2>4, <2>5
<1>5. CASE PushAhead(packet, t)
  <2>1. delivered # {}
    BY <1>5 DEF PushAhead, DeliveryInv, NothingDelivered, Started
  <2>2. index > Newest
    BY <1>5, <2>1, DeliveredNumber DEF PushAhead
  <2>3. previous' = [arrival_time |-> t, timestamp |-> packet.timestamp]
    BY <1>5 DEF PushAhead, UpdateJitter
  <2>4. Newest' = index
    BY <1>1, <2>2
  <2>5. PreviousIsNewest'
    BY <1>1, <1>2, <2>3, <2>4 DEF PreviousIsNewest
  <2> DEFINE difference == TransitDifference(packet, t)
  <2>6. difference \in 0..limit
    BY <2>1, <2>2, TransitStep
  <2>7. \/ jitter' = jitter
        \/ jitter' = [scaled |-> 15 * jitter.scaled + jitter.scale * difference,
                      scale |-> 16 * jitter.scale]
    BY <1>5 DEF PushAhead, UpdateJitter
  <2>8. jitter'.scaled <= limit * jitter'.scale
    <3> DEFINE scaled == jitter.scaled
               scale == jitter.scale
    <3>1. scaled \in Nat /\ scale \in Nat /\ scaled <= limit * scale
      BY <1>3
    <3> HIDE DEF difference, limit, scaled, scale
    <3>2. difference * scale <= limit * scale
      BY <1>3, <2>6, <3>1, ProductIsMonotonic
    <3>3. /\ scale * difference = difference * scale
          /\ limit * (16 * scale) = 16 * (limit * scale)
          /\ difference * scale \in Int /\ limit * scale \in Int
      BY <1>3, <2>6, <3>1
    <3>4. 15 * scaled + scale * difference <= limit * (16 * scale)
      BY <3>1, <3>2, <3>3
    <3>5. QED
      BY <1>3, <2>7, <3>1, <3>4 DEF scaled, scale
  <2>9. QED
    BY <2>5, <2>8 DEF JitterWithinDelayVariation
<1>6. CASE PushDuplicate(packet) \/ PushLate(packet)
  <2>1. delivered # {}
    BY <1>6 DEF PushDuplicate, PushLate, DeliveryInv, NothingDelivered, Started
  <2>2. ~ IsAhead(s)
    BY <1>6, Modulus DEF PushDuplicate, PushLate, IsDuplicate, IsLate, IsAhead
  <2>3. Newest' = Newest
    BY <1>1, <2>1, <2>2, DeliveredNumber
  <2>4. jitter' = jitter /\ previous' = previous
    BY <1>6 DEF PushDuplicate, PushLate
  <2>5. PreviousIsNewest'
    BY <1>1, <1>2, <1>3, <2>1, <2>3, <2>4 DEF PreviousIsNewest, DeliveryInv
  <2>6. QED
    BY <2>4, <2>5 DEF JitterWithinDelayVariation, DeliveryInv
<1>7. QED
  BY <1>4, <1>5, <1>6, DeliveredPacket

-----------------------------------------------------------------------------
(* The invariant.                                                          *)

(* It holds before the first packet.                                       *)
LEMMA DeliveryInitInv == DeliveryInit => DeliveryInv
<1> SUFFICES ASSUME DeliveryInit PROVE DeliveryInv
  OBVIOUS
<1>1. IInv
  BY InitInv DEF DeliveryInit
<1>2. DeliveryTypes
  BY DeliveryConstants DEF DeliveryInit, Init, DeliveryTypes
<1>3. /\ NothingDelivered /\ NewestIsLargest /\ NumbersAreIndices
      /\ PreviousIsNewest
  BY DEF DeliveryInit, Init, Started, NothingDelivered, NewestIsLargest,
         NumbersAreIndices, PreviousIsNewest
<1>4. JitterWithinDelayVariation
  BY DeliveryConstants DEF DeliveryInit, Init, JitterWithinDelayVariation
<1>5. QED
  BY <1>1, <1>2, <1>3, <1>4 DEF DeliveryInv

(* Every delivery preserves it.                                            *)
LEMMA DeliveryNextInv ==
  ASSUME DeliveryInv, [DeliveryNext]_deliveryVars
  PROVE  DeliveryInv'
<1>1. CASE UNCHANGED deliveryVars
  <2>1. UNCHANGED vars
    BY <1>1 DEF deliveryVars
  <2>2. IInv'
    BY <2>1, StutterInv DEF DeliveryInv
  <2>3. QED
    BY <1>1, <2>1, <2>2
       DEF deliveryVars, vars, DeliveryInv, DeliveryTypes, NothingDelivered,
           NewestIsLargest, Newest, NumbersAreIndices, NumberOf, PreviousIsNewest,
           Sent, JitterWithinDelayVariation, Started
<1>2. ASSUME NEW index \in 0..LastIndex, NEW delay \in 0..MaxDelay,
             Deliver(index, index * Interval + delay)
      PROVE  DeliveryInv'
  <2> DEFINE t == index * Interval + delay
  <2>1. t \in Nat
    BY DeliveryConstants
  <2> HIDE DEF t
  <2>2. Deliver(index, t)
    BY <1>2 DEF t
  <2>3. /\ IInv' /\ DeliveryTypes' /\ NewestIsLargest' /\ NothingDelivered'
    BY <2>1, <2>2, DeliveredPacket DEF NothingDelivered
  <2>4. NumbersAreIndices' /\ PreviousIsNewest' /\ JitterWithinDelayVariation'
    BY <2>1, <2>2, NumbersStep, JitterStep
  <2>5. QED
    BY <2>3, <2>4 DEF DeliveryInv
<1>3. QED
  BY <1>1, <1>2 DEF DeliveryNext

(* Whatever the network does within the bounds, DeliveryInv holds.         *)
THEOREM DeliveryInvariance == DeliverySpec => []DeliveryInv
<1>1. DeliveryInit => DeliveryInv
  BY DeliveryInitInv
<1>2. DeliveryInv /\ [DeliveryNext]_deliveryVars => DeliveryInv'
  BY DeliveryNextInv
<1>3. QED
  BY <1>1, <1>2, PTL DEF DeliverySpec

(* The reported jitter never exceeds the delay variation of the network,   *)
(* for every clock rate and interval, and through every wrap.              *)
THEOREM JitterCorrect == DeliverySpec => []JitterWithinDelayVariation
BY DeliveryInvariance, PTL DEF DeliveryInv

(* The analyzer's count of unique packets is that of the sender's packets  *)
(* that arrived: shifting by the first index is a bijection.               *)
LEMMA UniqueIsDelivered ==
  ASSUME DeliveryInv, delivered # {}
  PROVE  LET arrivals == (first_index..Newest) \cap delivered
         IN  IsFiniteSet(arrivals) /\ Cardinality(arrivals) = Cardinality(Received)
<1> DEFINE arrivals == (first_index..Newest) \cap delivered
           b == base_extended_sequence
           shift == [index \in arrivals |-> b + index - first_index]
<1>1. /\ delivered \subseteq Nat /\ first_index \in Nat /\ Newest \in Nat /\ b \in Nat
      /\ \A other \in delivered : other <= Newest
      /\ arrived = {NumberOf(index) : index \in delivered}
  <2>1. delivered \subseteq Nat
    BY DeliveryConstants DEF DeliveryInv, DeliveryTypes
  <2>2. QED
    BY <2>1, Running DEF DeliveryInv, NumbersAreIndices, NewestIsLargest
<1>2. IsFiniteSet(arrivals)
  <2>1. IsFiniteSet(first_index..Newest)
    BY <1>1, FS_Interval
  <2>2. QED
    BY <2>1, FS_Intersection
<1>3. \A index \in delivered : index >= first_index => index \in arrivals
  BY <1>1
<1>4. \A number : number \in Received <=>
                    \E index \in arrivals : number = b + index - first_index
  BY <1>1, <1>3 DEF Received, NumberOf
<1>5. ExistsBijection(arrivals, Received)
  <2> HIDE DEF arrivals
  <2>1. arrivals \subseteq Int
    BY <1>1 DEF arrivals
  <2>2. shift \in [arrivals -> Received]
    BY <1>4
  <2>3. \A i, j \in arrivals : shift[i] = shift[j] => i = j
    BY <1>1, <2>1
  <2>4. \A number \in Received : \E i \in arrivals : shift[i] = number
    BY <1>4
  <2>5. shift \in Bijection(arrivals, Received)
    <3> HIDE DEF shift
    <3>1. QED
      BY <2>2, <2>3, <2>4 DEF Bijection, Injection, Surjection, IsInjective
  <2>6. QED
    BY <2>5 DEF ExistsBijection
<1>6. QED
  BY <1>2, <1>5, FS_Bijection

(* The report is the truth about the sender's packets, for every start of  *)
(* its numbers, every length of the stream and every modulus: as long as   *)
(* loss and reordering stay below half the sequence space, expected, lost, *)
(* unique and duplicate packets are those of the sender and the network.   *)
THEOREM ReportCorrect == DeliverySpec => []ReportIsTruth
<1>1. DeliveryInv => ReportIsTruth
  <2> SUFFICES ASSUME DeliveryInv, delivered # {}
               PROVE  ReportIsTruth
    BY DEF ReportIsTruth
  <2> DEFINE range == first_index..Newest
             arrivals == range \cap delivered
             b == base_extended_sequence
             h == highest_extended_sequence
  <2>1. /\ delivered \subseteq Nat /\ first_index \in delivered /\ Newest \in delivered
        /\ first_index <= Newest
        /\ h = b + Newest - first_index
        /\ statistics.duplicate_packets = repeated
        /\ Started
    <3>1. delivered \subseteq Nat
      BY DeliveryConstants DEF DeliveryInv, DeliveryTypes
    <3>2. NumbersAreIndices /\ NewestIsLargest
      BY DEF DeliveryInv
    <3>3. first_index \in delivered /\ first_index <= Newest /\ Newest \in delivered
      BY <3>2 DEF NumbersAreIndices, NewestIsLargest
    <3>4. QED
      BY <3>1, <3>2, <3>3 DEF NumbersAreIndices, NumberOf
  <2>2. first_index \in Nat /\ Newest \in Nat /\ b \in Nat
    BY <2>1, Running DEF DeliveryInv
  <2>3. /\ statistics.unique_packets_received = Cardinality(Received)
        /\ statistics.packets_expected = h - b + 1
        /\ statistics.packets_lost = statistics.packets_expected
                                       - statistics.unique_packets_received
    BY <2>1 DEF DeliveryInv, IInv, CountersAreCardinalities
  <2>4. Cardinality(arrivals) = Cardinality(Received)
    BY UniqueIsDelivered
  <2>5. IsFiniteSet(range) /\ Cardinality(range) = Newest - first_index + 1
    BY <2>1, <2>2, FS_Interval
  <2>6. Cardinality(range \ delivered) = Cardinality(range) - Cardinality(arrivals)
    <3> HIDE DEF range
    <3>1. QED
      BY <2>5, FS_Difference
  <2>7. h - b + 1 = Newest - first_index + 1
    BY <2>1, <2>2
  <2>8. QED
    BY <2>1, <2>3, <2>4, <2>5, <2>6, <2>7 DEF ReportIsTruth
<1>2. QED
  BY <1>1, DeliveryInvariance, PTL
=============================================================================
