----------------------- MODULE RtpStreamAnalyzerProofs -----------------------
(***************************************************************************)
(* Proofs about RtpStreamAnalyzer for every sequence modulus, every set of *)
(* packets and every number of datagrams.                                  *)
(***************************************************************************)
EXTENDS RtpStreamAnalyzer, SequenceArithmetic, FiniteSetTheorems

-----------------------------------------------------------------------------
(* Sequence arithmetic in the vocabulary of the analyzer.                  *)

(* The modulus is even, twice half the sequence space.                     *)
LEMMA Modulus ==
  /\ SequenceModulus \in Nat \ {0}
  /\ HalfSequenceSpace \in Nat \ {0, 1}
  /\ SequenceModulus = 2 * HalfSequenceSpace
  /\ SequenceNumber = 0..(SequenceModulus - 1)
BY ConstantsAssumption DEF ConstantsAssumption, HalfSequenceSpace, SequenceNumber

(* Every residue is a sequence number.                                     *)
LEMMA Residue ==
  ASSUME NEW number \in Int
  PROVE  number % SequenceModulus \in SequenceNumber
BY Modulus, DivisionWithRemainder, Zenon

(* Every packet is less than half the circle ahead of the highest number,  *)
(* or at most half the circle behind it.                                   *)
LEMMA Window ==
  ASSUME highest_extended_sequence \in Nat, NEW s \in SequenceNumber
  PROVE  /\ ForwardDelta(s) \in 0..(SequenceModulus - 1)
         /\ (highest_extended_sequence + ForwardDelta(s)) % SequenceModulus = s
         /\ Behind(s) \in 0..(SequenceModulus - 1)
         /\ (highest_extended_sequence - Behind(s)) % SequenceModulus = s
         /\ ForwardDelta(s) = 0 <=> Behind(s) = 0
         /\ ForwardDelta(s) # 0 => ForwardDelta(s) + Behind(s) = SequenceModulus
         /\ ~ IsAhead(s) => Behind(s) \in 0..HalfSequenceSpace
<1> DEFINE m == SequenceModulus
           h == highest_extended_sequence
<1>1. m \in Nat \ {0} /\ s \in 0..(m - 1) /\ h \in Int
  BY Modulus
<1>2. h % m \in 0..(m - 1)
  BY <1>1, DivisionWithRemainder
<1>4. /\ ForwardDelta(s) \in 0..(m - 1)
      /\ (h + ForwardDelta(s)) % m = s
  BY <1>1, ForwardDistance, Zenon DEF ForwardDelta, HighestRaw
<1>5. /\ Behind(s) \in 0..(m - 1)
      /\ (h - Behind(s)) % m = s
  BY <1>1, BackwardDistance, Zenon DEF Behind, HighestRaw
<1>6. /\ h % m = s => ForwardDelta(s) = 0 /\ Behind(s) = 0
      /\ h % m # s => ForwardDelta(s) + Behind(s) = m
  BY <1>1, <1>2, DistancesAddUp, Zenon DEF ForwardDelta, Behind, HighestRaw
<1>7. ForwardDelta(s) = 0 <=> Behind(s) = 0
  BY <1>1, <1>4, <1>5, <1>6
<1>8. ForwardDelta(s) # 0 => ForwardDelta(s) + Behind(s) = m
  BY <1>6
<1>9. ~ IsAhead(s) => Behind(s) \in 0..HalfSequenceSpace
  <2>1. CASE ForwardDelta(s) = 0
    BY <1>7, <2>1, Modulus
  <2>2. CASE ForwardDelta(s) \in 1..(HalfSequenceSpace - 1)
    BY <2>2 DEF IsAhead
  <2>3. CASE ForwardDelta(s) \in HalfSequenceSpace..(m - 1)
    BY <1>5, <1>8, <2>3, Modulus
  <2>4. QED
    BY <1>4, <2>1, <2>2, <2>3, Modulus
<1>10. QED
  BY <1>4, <1>5, <1>7, <1>8, <1>9

-----------------------------------------------------------------------------
(* What IInv says while the stream runs, for the steps below.              *)
LEMMA Running ==
  ASSUME IInv, Started
  PROVE  /\ base_extended_sequence \in Nat
         /\ highest_extended_sequence \in Nat
         /\ base_extended_sequence <= highest_extended_sequence
         /\ arrived \subseteq Int
         /\ \A number \in arrived : number <= highest_extended_sequence
         /\ Received \subseteq base_extended_sequence..highest_extended_sequence
         /\ Received \subseteq Nat
         /\ base_extended_sequence \in Received
         /\ highest_extended_sequence \in Received
         /\ IsFiniteSet(Received)
         /\ statistics.unique_packets_received = Cardinality(Received)
         /\ Cardinality(Received) \in Nat
<1> DEFINE b == base_extended_sequence
           h == highest_extended_sequence
<1>1. h # None /\ b \in 0..h /\ b \in arrived /\ h \in arrived
  BY DEF IInv, NumbersAreOrdered, Started
<1>2. h \in Nat /\ arrived \subseteq Int
  BY <1>1 DEF IInv, TypeOK
<1>3. \A number \in arrived : number <= h
  BY DEF IInv, NumbersAreOrdered
<1>4. /\ Received \subseteq b..h
      /\ b \in Received /\ h \in Received
  <2>1. \A number : number \in Received <=> number \in arrived /\ number >= b
    BY DEF Received
  <2>2. b <= b /\ h >= b
    BY <1>1, <1>2
  <2>3. b \in Received /\ h \in Received
    BY <1>1, <2>1, <2>2
  <2>4. ASSUME NEW number \in Received PROVE number \in b..h
    <3>1. number \in arrived /\ number >= b
      BY <2>1
    <3>2. number \in Int /\ number <= h
      BY <1>2, <1>3, <3>1
    <3>3. b \in Int /\ h \in Int
      BY <1>1, <1>2
    <3>4. QED
      BY <3>1, <3>2, <3>3
  <2>5. QED
    BY <2>3, <2>4
<1>5. /\ IsFiniteSet(Received)
      /\ statistics.unique_packets_received = Cardinality(Received)
  BY DEF IInv, CountersAreCardinalities
<1>6. Cardinality(Received) \in Nat
  BY <1>5, FS_CardinalityType
<1>7. b \in Nat /\ b <= h /\ b..h \subseteq Nat
  BY <1>1, <1>2
<1>8. QED
  BY <1>1, <1>2, <1>3, <1>4, <1>5, <1>6, <1>7

(* A candidate is the number of a packet within half the circle behind the *)
(* highest one and not before the first packet.                            *)
LEMMA CandidateIsNumber ==
  ASSUME IInv, Started, NEW s \in SequenceNumber, ~ IsAhead(s)
  PROVE  /\ Candidate(s) # None <=>
              highest_extended_sequence - Behind(s) >= base_extended_sequence
         /\ Candidate(s) # None =>
              /\ Candidate(s) = highest_extended_sequence - Behind(s)
              /\ Candidate(s) \in base_extended_sequence..highest_extended_sequence
              /\ Candidate(s) % SequenceModulus = s
              /\ highest_extended_sequence - Candidate(s) <= HalfSequenceSpace
         /\ ExtendedNumber(s) = highest_extended_sequence - Behind(s)
<1> DEFINE h == highest_extended_sequence
           behind == Behind(s)
<1>1. /\ h \in Nat /\ base_extended_sequence \in Nat /\ h # None
      /\ HalfSequenceSpace \in Nat
  BY Running, Modulus DEF None
<1>2. /\ behind \in 0..HalfSequenceSpace
      /\ (h - behind) % SequenceModulus = s
  BY <1>1, Window
<1>3. Candidate(s) = IF h - behind >= base_extended_sequence
                     THEN h - behind ELSE -1
  BY <1>1, <1>2 DEF Candidate, None
<1>4. ExtendedNumber(s) = h - behind
  BY <1>1 DEF ExtendedNumber
<1> HIDE DEF h, behind
<1>5. Candidate(s) # None <=> h - behind >= base_extended_sequence
  BY <1>1, <1>2, <1>3 DEF None
<1>6. ASSUME Candidate(s) # None
      PROVE  /\ Candidate(s) = h - behind
             /\ Candidate(s) \in base_extended_sequence..h
             /\ h - Candidate(s) <= HalfSequenceSpace
  BY <1>1, <1>2, <1>3, <1>5, <1>6
<1>7. QED
  BY <1>2, <1>4, <1>5, <1>6 DEF h, behind

(* The memory answers correctly: a candidate is found in its slot exactly  *)
(* when it has been received.                                              *)
LEMMA MemoryDecides ==
  ASSUME IInv, Started, NEW s \in SequenceNumber, ~ IsAhead(s),
         Candidate(s) # None
  PROVE  seen_extended_sequences[s] = Candidate(s) <=> Candidate(s) \in Received
<1> DEFINE m == SequenceModulus
           c == Candidate(s)
           k == seen_extended_sequences[s]
<1>1. /\ c \in Nat /\ c % m = s /\ highest_extended_sequence - c < m
      /\ m \in Nat \ {0} /\ c # None
  BY CandidateIsNumber, Running, Modulus
<1>2. ASSUME k = c PROVE c \in Received
  BY <1>1, <1>2 DEF IInv, MemoryIsSound
<1>3. ASSUME c \in Received PROVE k = c
  <2>1. c <= k
    BY <1>1, <1>3 DEF IInv, MemoryIsComplete
  <2>2. k # None
    BY <1>1, <2>1, None = -1 DEF None
  <2>3. k \in Received /\ k % m = s
    BY <2>2 DEF IInv, MemoryIsSound
  <2>4. k \in Nat /\ k <= highest_extended_sequence
    BY <2>3, Running
  <2>5. k - c < m
    BY <1>1, <2>4, Running
  <2>6. QED
    BY <1>1, <2>1, <2>3, <2>4, <2>5, SameResidueWithinTurn
<1>4. QED
  BY <1>2, <1>3
-----------------------------------------------------------------------------
(* The conjuncts of IInv other than TypeOK.                                *)
Bookkeeping ==
  /\ NothingBeforeFirst
  /\ NumbersAreOrdered
  /\ CountersAreCardinalities
  /\ MemoryIsSound
  /\ MemoryIsComplete
  /\ GapsExplainLoss
  /\ EveryDatagramIsExplained

(* What Counted and WithLoss do keeps the types.                           *)
LEMMA CountedType ==
  ASSUME statistics \in RtpSessionStatistics, NEW packet \in RtpPacket
  PROVE  Counted(packet) \in RtpSessionStatistics
<1>1. /\ packet.ssrc \in Ssrcs \cup {None}
      /\ statistics.datagrams_received + 1 \in Nat
      /\ statistics.packets_received + 1 \in Nat
  BY DEF RtpPacket, RtpSessionStatistics
<1>2. QED
  BY <1>1 DEF Counted, RtpSessionStatistics

(* So does the loss count.                                                 *)
LEMMA WithLossType ==
  ASSUME NEW stats \in RtpSessionStatistics, NEW b \in Int, NEW h \in Int, b <= h
  PROVE  WithLoss(stats, b, h) \in RtpSessionStatistics
<1>1. /\ h - b + 1 \in Nat
      /\ Lost(h - b + 1, stats.unique_packets_received) \in Nat
  BY DEF Lost, RtpSessionStatistics
<1>2. QED
  BY <1>1 DEF WithLoss, RtpSessionStatistics

(* The counters are natural numbers.                                       *)
LEMMA CounterTypes ==
  ASSUME IInv
  PROVE  /\ statistics \in RtpSessionStatistics
         /\ statistics.datagrams_received \in Nat
         /\ statistics.packets_received \in Nat
         /\ statistics.unique_packets_received \in Nat
         /\ statistics.packets_expected \in Nat
         /\ statistics.packets_lost \in Nat
         /\ statistics.duplicate_packets \in Nat
         /\ statistics.out_of_order_packets \in Nat
         /\ gap_missing \in Nat
         /\ diagnostics \in [DiagnosticCode -> Nat]
         /\ seen_extended_sequences \in [SequenceNumber -> Nat \cup {None}]
BY DEF IInv, TypeOK, RtpSessionStatistics

(* A packet ahead of the others is a new number, one more than all that    *)
(* the statistics have counted; the numbers it skips become lost.          *)
LEMMA AheadStep ==
  ASSUME IInv, NEW packet \in RtpPacket, NEW t, PushAhead(packet, t)
  PROVE  Bookkeeping'
<1> DEFINE m == SequenceModulus
           s == packet.sequence_number
           delta == ForwardDelta(s)
           n == highest_extended_sequence + delta
           h == highest_extended_sequence
           b == base_extended_sequence
<1>1. /\ Started /\ s \in SequenceNumber /\ IsAhead(s)
      /\ h \in Nat /\ b \in 0..h
  BY Running DEF PushAhead, Started, RtpPacket
<1>2. delta \in 1..(HalfSequenceSpace - 1) /\ delta < m
  BY <1>1, Modulus DEF IsAhead
<1>3. n \in Nat /\ n > h /\ n = h + delta /\ n % m = s
  BY <1>1, <1>2, Window
<1>4. /\ highest_extended_sequence' = n
      /\ base_extended_sequence' = b
      /\ seen_extended_sequences' = [seen_extended_sequences EXCEPT ![s] = n]
      /\ arrived' = arrived \cup {n}
  BY <1>1 DEF PushAhead, NoteArrival, ExtendedNumber, Started
<1>5. Started'
  BY <1>3, <1>4 DEF Started, None
<1>6. Received' = Received \cup {n} /\ n \notin Received
  BY <1>1, <1>3, <1>4, Running DEF Received
<1>7. /\ IsFiniteSet(Received')
      /\ Cardinality(Received') = Cardinality(Received) + 1
  BY <1>1, <1>6, Running, FS_AddElement
<1>8. Cardinality(Received') <= n - b + 1
  <2>1. Received' \subseteq b..n
    BY <1>1, <1>3, <1>6, Running
  <2>2. IsFiniteSet(b..n) /\ Cardinality(b..n) = n - b + 1
    <3>1. b \in Int /\ n \in Int /\ b <= n
      BY <1>1, <1>3
    <3> HIDE DEF b, n
    <3>2. QED
      BY <3>1, FS_Interval
  <2>3. QED
    BY <2>1, <2>2, FS_Subset
<1>9. /\ statistics'.datagrams_received = statistics.datagrams_received + 1
      /\ statistics'.packets_received = statistics.packets_received + 1
      /\ statistics'.unique_packets_received
            = statistics.unique_packets_received + 1
      /\ statistics'.duplicate_packets = statistics.duplicate_packets
      /\ statistics'.out_of_order_packets = statistics.out_of_order_packets
      /\ statistics'.packets_expected = n - b + 1
      /\ statistics'.packets_lost =
            IF n - b + 1 > statistics.unique_packets_received + 1
            THEN n - b + 1 - (statistics.unique_packets_received + 1) ELSE 0
  <2>1. statistics \in RtpSessionStatistics
    BY CounterTypes
  <2>2. statistics' =
          WithLoss([Counted(packet) EXCEPT
                      !.last_sequence_number = s,
                      !.unique_packets_received = @ + 1], b, n)
    BY DEF PushAhead
  <2>3. QED
    <3>1. b \in Int /\ n \in Int
      BY <1>1, <1>3
    <3> HIDE DEF b, n, s
    <3>2. QED
      BY <2>1, <2>2, <3>1 DEF Counted, WithLoss, Lost, RtpSessionStatistics
<1>10. NothingBeforeFirst'
  BY <1>5 DEF NothingBeforeFirst
<1>11. NumbersAreOrdered'
  BY <1>1, <1>3, <1>4, Running DEF NumbersAreOrdered, IInv
<1>12. CountersAreCardinalities'
  BY <1>1, <1>3, <1>4, <1>7, <1>8, <1>9, Running DEF CountersAreCardinalities
<1>13. MemoryIsSound'
  BY <1>1, <1>3, <1>4, <1>6 DEF MemoryIsSound, IInv, TypeOK
<1>14. MemoryIsComplete'
  <2>1. SUFFICES ASSUME NEW number \in Received'
                 PROVE  number <= seen_extended_sequences'[number % m]
    BY DEF MemoryIsComplete
  <2>2. number \in Nat /\ number <= n /\ number % m \in SequenceNumber
    <3>1. number \in Nat /\ number <= n
      BY <1>1, <1>3, <1>6, <2>1, Running
    <3>2. QED
      BY <3>1, Residue
  <2>3. CASE number % m = s
    BY <1>1, <1>4, <2>2, <2>3 DEF IInv, TypeOK
  <2>4. CASE number % m # s
    <3>1. number \in Received
      BY <1>3, <1>6, <2>4
    <3>2. seen_extended_sequences'[number % m] = seen_extended_sequences[number % m]
      BY <1>4, <2>2, <2>4 DEF IInv, TypeOK
    <3>3. QED
      BY <1>1, <3>1, <3>2 DEF IInv, MemoryIsComplete
  <2>5. QED
    BY <2>3, <2>4
<1>15. GapsExplainLoss'
  <2>1. gap_missing' = gap_missing + delta - 1
    BY <1>2, CounterTypes DEF PushAhead
  <2>2. statistics'.packets_lost = statistics.packets_lost + delta - 1
    BY <1>1, <1>2, <1>3, <1>7, <1>8, <1>9, Running
       DEF IInv, CountersAreCardinalities
  <2>3. QED
    BY <1>2, <1>9, <2>1, <2>2, CounterTypes DEF GapsExplainLoss, IInv
<1>16. EveryDatagramIsExplained'
  <2>1. \A code \in DiagnosticCode \ {"RTP_SEQUENCE_GAP"} :
          diagnostics'[code] = diagnostics[code]
    BY CounterTypes DEF PushAhead, Diagnose
  <2>2. QED
    BY <1>9, <2>1, CounterTypes DEF EveryDatagramIsExplained, IInv, DiagnosticCode
<1>17. QED
  BY <1>10, <1>11, <1>12, <1>13, <1>14, <1>15, <1>16 DEF Bookkeeping

(* The first packet of the stream is all that was expected and received.   *)
LEMMA FirstStep ==
  ASSUME IInv, NEW packet \in RtpPacket, NEW t, PushFirst(packet, t)
  PROVE  Bookkeeping'
<1> DEFINE s == packet.sequence_number
<1>1. ~ Started /\ s \in SequenceNumber /\ s \in Nat /\ s # None
  BY Modulus DEF PushFirst, Started, RtpPacket, None
<1>2. /\ highest_extended_sequence' = s
      /\ base_extended_sequence' = s
      /\ seen_extended_sequences' = [seen_extended_sequences EXCEPT ![s] = s]
      /\ gap_missing' = gap_missing /\ diagnostics' = diagnostics
  BY DEF PushFirst
<1>3. arrived' = {s}
  BY <1>1 DEF PushFirst, NoteArrival, ExtendedNumber, Started, IInv,
              NothingBeforeFirst
<1>4. Received' = {s}
  BY <1>1, <1>2, <1>3 DEF Received
<1>5. IsFiniteSet(Received') /\ Cardinality(Received') = 1
  BY <1>4, FS_Singleton
<1>6. /\ gap_missing = 0
      /\ statistics.packets_received = 0
      /\ statistics.duplicate_packets = 0
      /\ statistics.out_of_order_packets = 0
      /\ seen_extended_sequences = [slot \in SequenceNumber |-> None]
  BY <1>1 DEF IInv, NothingBeforeFirst
<1>7. /\ statistics'.datagrams_received = statistics.datagrams_received + 1
      /\ statistics'.packets_received = statistics.packets_received + 1
      /\ statistics'.unique_packets_received = 1
      /\ statistics'.duplicate_packets = statistics.duplicate_packets
      /\ statistics'.out_of_order_packets = statistics.out_of_order_packets
      /\ statistics'.packets_expected = 1
      /\ statistics'.packets_lost = 0
  <2>1. statistics \in RtpSessionStatistics
    BY CounterTypes
  <2>2. statistics' = WithLoss([Counted(packet) EXCEPT
                                  !.first_sequence_number = s,
                                  !.last_sequence_number = s,
                                  !.unique_packets_received = 1], s, s)
    BY DEF PushFirst
  <2> HIDE DEF s
  <2>3. s \in Int /\ s - s + 1 = 1
    BY <1>1
  <2>4. QED
    BY <2>1, <2>2, <2>3 DEF Counted, WithLoss, Lost, RtpSessionStatistics
<1>8. NothingBeforeFirst' /\ NumbersAreOrdered'
  BY <1>1, <1>2, <1>3 DEF NothingBeforeFirst, NumbersAreOrdered, Started
<1>9. CountersAreCardinalities'
  BY <1>1, <1>2, <1>5, <1>7 DEF CountersAreCardinalities
<1>10. MemoryIsSound' /\ MemoryIsComplete'
  <2>1. s % SequenceModulus = s
    BY <1>1, Modulus, ResidueIsUnique, s = SequenceModulus * 0 + s
  <2>2. \A slot \in SequenceNumber :
          seen_extended_sequences'[slot] = IF slot = s THEN s ELSE None
    BY <1>1, <1>2, <1>6
  <2>3. QED
    BY <1>1, <1>4, <2>1, <2>2 DEF MemoryIsSound, MemoryIsComplete
<1>11. GapsExplainLoss' /\ EveryDatagramIsExplained'
  <2>1. GapsExplainLoss'
    BY <1>2, <1>6, <1>7 DEF GapsExplainLoss
  <2>2. EveryDatagramIsExplained'
    BY <1>2, <1>7, CounterTypes DEF EveryDatagramIsExplained, IInv, DiagnosticCode
  <2>3. QED
    BY <2>1, <2>2
<1>12. QED
  BY <1>8, <1>9, <1>10, <1>11 DEF Bookkeeping

(* A datagram that is not a packet of the stream changes no number.        *)
LEMMA IgnoreStep ==
  ASSUME IInv, NEW code, NEW reason, Ignore(code, reason),
         code \in {"RTP_INVALID_PACKET", "RTP_UNEXPECTED_PAYLOAD_TYPE",
                   "RTP_UNEXPECTED_SSRC"}
  PROVE  Bookkeeping'
<1>1. /\ statistics' = [statistics EXCEPT !.datagrams_received = @ + 1]
      /\ diagnostics' = [diagnostics EXCEPT ![code] = @ + 1]
      /\ UNCHANGED <<seen_extended_sequences, base_extended_sequence,
                     highest_extended_sequence, arrived, gap_missing>>
  BY DEF Ignore, Diagnose, SequenceState
<1>2. /\ statistics'.datagrams_received = statistics.datagrams_received + 1
      /\ statistics'.packets_received = statistics.packets_received
      /\ statistics'.unique_packets_received = statistics.unique_packets_received
      /\ statistics'.duplicate_packets = statistics.duplicate_packets
      /\ statistics'.out_of_order_packets = statistics.out_of_order_packets
      /\ statistics'.packets_expected = statistics.packets_expected
      /\ statistics'.packets_lost = statistics.packets_lost
  BY <1>1, CounterTypes DEF RtpSessionStatistics
<1>3. Received' = Received
  BY <1>1 DEF Received
<1>4. /\ NothingBeforeFirst' /\ NumbersAreOrdered'
      /\ CountersAreCardinalities' /\ GapsExplainLoss'
  BY <1>1, <1>2, <1>3
     DEF IInv, NothingBeforeFirst, NumbersAreOrdered, CountersAreCardinalities,
         GapsExplainLoss, Started
<1>5. MemoryIsSound' /\ MemoryIsComplete'
  BY <1>1, <1>3 DEF IInv, MemoryIsSound, MemoryIsComplete, Started
<1>6. EveryDatagramIsExplained'
  BY <1>1, <1>2, CounterTypes DEF IInv, EveryDatagramIsExplained, DiagnosticCode
<1>7. QED
  BY <1>4, <1>5, <1>6 DEF Bookkeeping

(* A duplicate is a number that has been received: nothing new is known.   *)
LEMMA DuplicateIsReceived ==
  ASSUME IInv, Started, NEW s \in SequenceNumber, IsDuplicate(s)
  PROVE  /\ ExtendedNumber(s) \in Received
         /\ highest_extended_sequence - ExtendedNumber(s) \in 0..HalfSequenceSpace
<1>1. ~ IsAhead(s)
  BY Running, Modulus DEF IsDuplicate, IsAhead
<1>2. /\ ExtendedNumber(s) = highest_extended_sequence - Behind(s)
      /\ highest_extended_sequence \in Nat
      /\ Behind(s) \in 0..HalfSequenceSpace
      /\ ForwardDelta(s) = 0 <=> Behind(s) = 0
  BY <1>1, CandidateIsNumber, Running, Window
<1>3. CASE ForwardDelta(s) = 0
  BY <1>2, <1>3, Running
<1>4. CASE /\ Candidate(s) # None
           /\ seen_extended_sequences[s] = Candidate(s)
  BY <1>1, <1>2, <1>4, CandidateIsNumber, MemoryDecides
<1>5. QED
  BY <1>2, <1>3, <1>4, Modulus DEF IsDuplicate

(* A duplicate only counts itself.                                         *)
LEMMA DuplicateStep ==
  ASSUME IInv, NEW packet \in RtpPacket, PushDuplicate(packet)
  PROVE  Bookkeeping'
<1> DEFINE s == packet.sequence_number
<1>1. Started /\ s \in SequenceNumber /\ IsDuplicate(s)
  BY DEF PushDuplicate, Started, RtpPacket
<1>2. /\ UNCHANGED <<seen_extended_sequences, base_extended_sequence,
                     highest_extended_sequence, gap_missing>>
      /\ diagnostics' = [diagnostics EXCEPT !["RTP_DUPLICATE_PACKET"] = @ + 1]
      /\ statistics' = [Counted(packet) EXCEPT !.duplicate_packets = @ + 1]
      /\ arrived' = arrived \cup {ExtendedNumber(s)}
  BY DEF PushDuplicate, Diagnose, NoteArrival
<1>3. arrived' = arrived /\ Received' = Received
  BY <1>1, <1>2, DuplicateIsReceived DEF Received
<1>4. /\ statistics'.datagrams_received = statistics.datagrams_received + 1
      /\ statistics'.packets_received = statistics.packets_received + 1
      /\ statistics'.unique_packets_received = statistics.unique_packets_received
      /\ statistics'.duplicate_packets = statistics.duplicate_packets + 1
      /\ statistics'.out_of_order_packets = statistics.out_of_order_packets
      /\ statistics'.packets_expected = statistics.packets_expected
      /\ statistics'.packets_lost = statistics.packets_lost
  BY <1>2, CounterTypes DEF Counted, RtpSessionStatistics
<1>5. Started'
  BY <1>1, <1>2 DEF Started
<1>6. /\ NothingBeforeFirst' /\ NumbersAreOrdered' /\ CountersAreCardinalities'
  BY <1>1, <1>2, <1>3, <1>4, <1>5
     DEF IInv, NothingBeforeFirst, NumbersAreOrdered, CountersAreCardinalities
<1>7. GapsExplainLoss'
  BY <1>2, <1>4, CounterTypes DEF IInv, GapsExplainLoss
<1>8. MemoryIsSound' /\ MemoryIsComplete'
  BY <1>1, <1>2, <1>3 DEF IInv, MemoryIsSound, MemoryIsComplete
<1>9. EveryDatagramIsExplained'
  BY <1>2, <1>4, CounterTypes DEF IInv, EveryDatagramIsExplained, DiagnosticCode
<1>10. QED
  BY <1>6, <1>7, <1>8, <1>9 DEF Bookkeeping

(* A late packet is a number that was not received; only one that the      *)
(* analysis expects is added, and it was counted as lost before.           *)
LEMMA LateIsNotReceived ==
  ASSUME IInv, Started, NEW s \in SequenceNumber, IsLate(s)
  PROVE  /\ ~ IsAhead(s)
         /\ ExtendedNumber(s) \in Int
         /\ ExtendedNumber(s) \notin Received
         /\ highest_extended_sequence - ExtendedNumber(s) \in 1..HalfSequenceSpace
         /\ Candidate(s) # None <=> ExtendedNumber(s) >= base_extended_sequence
         /\ Candidate(s) # None => Candidate(s) = ExtendedNumber(s)
<1>1. ~ IsAhead(s)
  BY DEF IsLate
<1>2. /\ ExtendedNumber(s) = highest_extended_sequence - Behind(s)
      /\ highest_extended_sequence \in Nat
      /\ Behind(s) \in 1..HalfSequenceSpace
      /\ Candidate(s) # None <=> ExtendedNumber(s) >= base_extended_sequence
      /\ Candidate(s) # None => Candidate(s) = ExtendedNumber(s)
  <2>1. Behind(s) # 0
    BY Running, Window DEF IsLate
  <2>2. QED
    BY <1>1, <2>1, CandidateIsNumber, Running, Window
<1>3. ExtendedNumber(s) \notin Received
  <2>1. CASE Candidate(s) # None
    BY <1>1, <1>2, <2>1, MemoryDecides DEF IsLate, IsDuplicate
  <2>2. CASE Candidate(s) = None
    BY <1>2, <2>2 DEF Received
  <2>3. QED
    BY <2>1, <2>2
<1>4. QED
  BY <1>1, <1>2, <1>3, Modulus

(* A late packet recovers a lost number or precedes the first one.         *)
LEMMA LateStep ==
  ASSUME IInv, NEW packet \in RtpPacket, PushLate(packet)
  PROVE  Bookkeeping'
<1> DEFINE m == SequenceModulus
           s == packet.sequence_number
           n == ExtendedNumber(s)
           h == highest_extended_sequence
           b == base_extended_sequence
<1>1. Started /\ s \in SequenceNumber /\ IsLate(s)
  BY DEF PushLate, Started, RtpPacket
<1>2. /\ highest_extended_sequence' = h /\ base_extended_sequence' = b
      /\ gap_missing' = gap_missing
      /\ diagnostics' = [diagnostics EXCEPT !["RTP_OUT_OF_ORDER_PACKET"] = @ + 1]
      /\ arrived' = arrived \cup {n}
      /\ h \in Nat /\ b \in 0..h /\ n \in Int /\ n < h /\ n \notin Received
      /\ h - n <= HalfSequenceSpace
  BY <1>1, LateIsNotReceived, Running, Modulus DEF PushLate, Diagnose, NoteArrival
<1>3. Started'
  BY <1>1, <1>2 DEF Started
<1>4. NothingBeforeFirst' /\ NumbersAreOrdered'
  BY <1>1, <1>2, <1>3, Running DEF NothingBeforeFirst, NumbersAreOrdered, IInv
<1>5. /\ statistics'.datagrams_received = statistics.datagrams_received + 1
      /\ statistics'.packets_received = statistics.packets_received + 1
      /\ statistics'.duplicate_packets = statistics.duplicate_packets
      /\ statistics'.out_of_order_packets = statistics.out_of_order_packets + 1
  <2>1. CASE Candidate(s) # None
    BY <2>1, CounterTypes
       DEF PushLate, Counted, WithLoss, RtpSessionStatistics
  <2>2. CASE Candidate(s) = None
    BY <2>2, CounterTypes DEF PushLate, Counted, RtpSessionStatistics
  <2>3. QED
    BY <2>1, <2>2
<1>6. EveryDatagramIsExplained'
  BY <1>2, <1>5, CounterTypes DEF IInv, EveryDatagramIsExplained, DiagnosticCode
<1>7. CASE Candidate(s) = None
  <2>1. Received' = Received
    BY <1>1, <1>2, <1>7, LateIsNotReceived DEF Received
  <2>2. /\ seen_extended_sequences' = seen_extended_sequences
        /\ statistics' = [Counted(packet) EXCEPT !.out_of_order_packets = @ + 1]
    BY <1>7 DEF PushLate
  <2>3. /\ statistics'.unique_packets_received = statistics.unique_packets_received
        /\ statistics'.packets_expected = statistics.packets_expected
        /\ statistics'.packets_lost = statistics.packets_lost
    BY <2>2, CounterTypes DEF Counted, RtpSessionStatistics
  <2>4. CountersAreCardinalities'
    BY <1>1, <1>2, <2>1, <2>3 DEF IInv, CountersAreCardinalities
  <2>5. MemoryIsSound' /\ MemoryIsComplete'
    BY <1>1, <2>1, <2>2 DEF IInv, MemoryIsSound, MemoryIsComplete
  <2>6. GapsExplainLoss'
    BY <1>2, <1>5, <2>3, CounterTypes DEF IInv, GapsExplainLoss
  <2>7. QED
    BY <1>4, <1>6, <2>4, <2>5, <2>6 DEF Bookkeeping
<1>8. CASE Candidate(s) # None
  <2>1. /\ Candidate(s) = n /\ n >= b /\ n \in Nat /\ n % m = s
    BY <1>1, <1>2, <1>8, LateIsNotReceived, CandidateIsNumber
  <2>2. Received' = Received \cup {n}
    BY <1>2, <2>1 DEF Received
  <2>3. /\ IsFiniteSet(Received')
        /\ Cardinality(Received') = Cardinality(Received) + 1
    BY <1>1, <1>2, <2>2, Running, FS_AddElement
  <2>4. Cardinality(Received') <= h - b + 1
    <3>1. Received' \subseteq b..h
      BY <1>1, <1>2, <2>1, <2>2, Running
    <3>2. b \in Int /\ h \in Int /\ b <= h
      BY <1>2
    <3>3. IsFiniteSet(b..h) /\ Cardinality(b..h) = h - b + 1
      BY <3>2, FS_Interval
    <3>4. QED
      BY <3>1, <3>3, FS_Subset
  <2>5. /\ seen_extended_sequences' = [seen_extended_sequences EXCEPT ![s] = n]
        /\ statistics' = WithLoss([[Counted(packet) EXCEPT
                                      !.out_of_order_packets = @ + 1] EXCEPT
                                      !.unique_packets_received = @ + 1], b, h)
    BY <1>8, <2>1 DEF PushLate
  <2>6. /\ statistics'.unique_packets_received
              = statistics.unique_packets_received + 1
        /\ statistics'.packets_expected = h - b + 1
        /\ statistics'.packets_lost =
              IF h - b + 1 > statistics.unique_packets_received + 1
              THEN h - b + 1 - (statistics.unique_packets_received + 1) ELSE 0
    BY <1>2, <2>5, CounterTypes DEF Counted, WithLoss, Lost, RtpSessionStatistics
  <2>7. CountersAreCardinalities'
    BY <1>1, <1>2, <2>3, <2>4, <2>6, Running DEF CountersAreCardinalities
  <2>8. MemoryIsSound'
    BY <1>1, <1>2, <2>1, <2>2, <2>5, CounterTypes DEF MemoryIsSound, IInv
  <2>9. MemoryIsComplete'
    <3>1. SUFFICES ASSUME NEW number \in Received'
                   PROVE  number <= seen_extended_sequences'[number % m]
      BY DEF MemoryIsComplete
    <3>2. /\ number \in Nat /\ number <= h /\ number % m \in SequenceNumber
          /\ number = n \/ number \in Received
      BY <1>1, <1>2, <2>1, <2>2, Running, Residue
    <3>3. CASE number % m = s
      <4>1. ASSUME n < number PROVE FALSE
        <5>1. /\ m \in Nat \ {0} /\ n \in Int /\ number \in Int /\ n <= number
              /\ number - n < m /\ n % m = number % m
          BY <1>2, <2>1, <3>2, <3>3, <4>1, Modulus
        <5> HIDE DEF n, m
        <5>2. n = number
          BY <5>1, SameResidueWithinTurn
        <5>3. QED
          BY <4>1, <5>1, <5>2
      <4>2. QED
        BY <1>1, <2>1, <2>5, <3>2, <3>3, <4>1, CounterTypes
    <3>4. CASE number % m # s
      <4>1. number \in Received
        BY <2>1, <3>2, <3>4
      <4>2. seen_extended_sequences'[number % m]
              = seen_extended_sequences[number % m]
        BY <2>5, <3>2, <3>4, CounterTypes
      <4>3. QED
        BY <1>1, <4>1, <4>2 DEF IInv, MemoryIsComplete
    <3>5. QED
      BY <3>3, <3>4
  <2>10. GapsExplainLoss'
    <3>1. statistics'.packets_lost = statistics.packets_lost - 1
      BY <1>1, <1>2, <2>3, <2>4, <2>6, Running, CounterTypes
         DEF IInv, CountersAreCardinalities
    <3>2. QED
      BY <1>2, <1>5, <2>6, <3>1, CounterTypes DEF IInv, GapsExplainLoss
  <2>11. QED
    BY <1>4, <1>6, <2>7, <2>8, <2>9, <2>10 DEF Bookkeeping
<1>9. QED
  BY <1>7, <1>8

-----------------------------------------------------------------------------
(* Type correctness of a push.                                             *)

(* RTP timestamps are numbers.                                             *)
LEMMA TimestampTypes ==
  /\ TimestampModulus \in Nat \ {0}
  /\ \A stamp \in Timestamps : stamp \in Int
BY ConstantsAssumption DEF ConstantsAssumption

(* The jitter stays a fraction of natural numbers.                         *)
LEMMA JitterType ==
  ASSUME TypeOK, NEW packet \in RtpPacket, NEW t \in Nat,
         UpdateJitter(packet, t)
  PROVE  /\ jitter' \in [scaled : Nat, scale : Nat]
         /\ previous' \in [arrival_time : Nat \cup {None},
                          timestamp : Timestamps \cup {None}]
<1> USE TimestampTypes
<1>1. packet.timestamp \in Timestamps /\ packet.timestamp \in Int
  BY DEF RtpPacket
<1>2. previous' \in [arrival_time : Nat \cup {None},
                    timestamp : Timestamps \cup {None}]
  BY <1>1 DEF UpdateJitter
<1>3. previous.arrival_time \in Int /\ previous.timestamp \in Int
  BY DEF TypeOK, None
<1>4. SignedTimestampDelta(packet.timestamp, previous.timestamp) \in Int
  <2>1. TimestampModulus \in Nat \ {0} /\ packet.timestamp - previous.timestamp \in Int
    BY <1>1, <1>3, ConstantsAssumption DEF ConstantsAssumption
  <2>2. (packet.timestamp - previous.timestamp) % TimestampModulus \in Int
    BY <2>1
  <2>3. QED
    BY <2>1, <2>2 DEF SignedTimestampDelta
<1>5. TransitDifference(packet, t) \in Nat
  <2>1. (t - previous.arrival_time) * ClockRate \in Int
    BY <1>3, ConstantsAssumption DEF ConstantsAssumption
  <2>2. QED
    BY <1>4, <2>1 DEF TransitDifference, Abs
<1>6. jitter.scaled \in Nat /\ jitter.scale \in Nat
  BY DEF TypeOK
<1>7. jitter.scale * TransitDifference(packet, t) \in Nat
  BY <1>5, <1>6
<1>8. jitter' \in [scaled : Nat, scale : Nat]
  BY <1>6, <1>7 DEF UpdateJitter, TypeOK
<1>9. QED
  BY <1>2, <1>8

(* The counters after a push have the right types.                         *)
LEMMA StatisticsType ==
  ASSUME IInv, NEW packet \in RtpPacket, NEW t,
         \/ PushFirst(packet, t) \/ PushAhead(packet, t)
         \/ PushDuplicate(packet) \/ PushLate(packet)
  PROVE  statistics' \in RtpSessionStatistics
<1> DEFINE s == packet.sequence_number
           c == Counted(packet)
<1>1. c \in RtpSessionStatistics /\ s \in SequenceNumber /\ s \in Nat
  BY CounterTypes, CountedType, Modulus DEF RtpPacket
<1>2. /\ c.unique_packets_received + 1 \in Nat
      /\ c.duplicate_packets + 1 \in Nat
      /\ c.out_of_order_packets + 1 \in Nat
  BY <1>1 DEF RtpSessionStatistics
<1>3. CASE PushFirst(packet, t)
  <2>1. [c EXCEPT !.first_sequence_number = s, !.last_sequence_number = s,
                  !.unique_packets_received = 1] \in RtpSessionStatistics
    BY <1>1 DEF RtpSessionStatistics
  <2>2. QED
    BY <1>1, <1>3, <2>1, WithLossType DEF PushFirst
<1>4. CASE PushAhead(packet, t)
  <2> DEFINE n == highest_extended_sequence + ForwardDelta(s)
             stats == [c EXCEPT !.last_sequence_number = s,
                                !.unique_packets_received = @ + 1]
  <2>1. stats \in RtpSessionStatistics
    BY <1>1, <1>2 DEF RtpSessionStatistics
  <2>2. /\ n \in Int /\ base_extended_sequence \in Int
        /\ base_extended_sequence <= n
    BY <1>1, <1>4, Running, Modulus DEF PushAhead, IsAhead, Started
  <2>3. statistics' = WithLoss(stats, base_extended_sequence, n)
    BY <1>4 DEF PushAhead
  <2> HIDE DEF n, stats
  <2>4. QED
    BY <2>1, <2>2, <2>3, WithLossType
<1>5. CASE PushDuplicate(packet)
  BY <1>1, <1>2, <1>5 DEF PushDuplicate, RtpSessionStatistics
<1>6. CASE PushLate(packet)
  <2> DEFINE late == [c EXCEPT !.out_of_order_packets = @ + 1]
             stats == [late EXCEPT !.unique_packets_received = @ + 1]
  <2>1. /\ late \in RtpSessionStatistics
        /\ late.unique_packets_received = c.unique_packets_received
    BY <1>1, <1>2 DEF RtpSessionStatistics
  <2>2. \/ statistics' = late
        \/ statistics' = WithLoss(stats, base_extended_sequence,
                                  highest_extended_sequence)
    BY <1>6 DEF PushLate
  <2>3. /\ base_extended_sequence \in Int /\ highest_extended_sequence \in Int
        /\ base_extended_sequence <= highest_extended_sequence
    BY <1>6, Running DEF PushLate, Started
  <2> HIDE DEF late
  <2>4. stats \in RtpSessionStatistics
    BY <1>2, <2>1 DEF RtpSessionStatistics
  <2> HIDE DEF stats
  <2>5. QED
    BY <2>1, <2>2, <2>3, <2>4, WithLossType
<1>7. QED
  BY <1>3, <1>4, <1>5, <1>6

(* Diagnostics only become more.                                           *)
LEMMA DiagnosticsType ==
  ASSUME diagnostics \in [DiagnosticCode -> Nat], NEW code \in DiagnosticCode,
         Diagnose(code)
  PROVE  diagnostics' \in [DiagnosticCode -> Nat]
BY DEF Diagnose

(* The types after a datagram that is ignored.                             *)
LEMMA IgnoreType ==
  ASSUME IInv, NEW code \in DiagnosticCode, NEW reason \in Disposition,
         Ignore(code, reason), clock' \in Nat
  PROVE  TypeOK'
<1>1. statistics' \in RtpSessionStatistics
  <2>1. statistics.datagrams_received + 1 \in Nat
    BY CounterTypes
  <2>2. QED
    BY <2>1, CounterTypes DEF Ignore, RtpSessionStatistics
<1>2. diagnostics' \in [DiagnosticCode -> Nat]
  BY CounterTypes, DiagnosticsType DEF Ignore
<1>3. QED
  BY <1>1, <1>2 DEF Ignore, SequenceState, IInv, TypeOK

(* The types after a packet of the stream.                                 *)
LEMMA PacketType ==
  ASSUME IInv, NEW packet \in RtpPacket, NEW t \in Nat, clock' \in Nat,
         \/ PushFirst(packet, t) \/ PushAhead(packet, t)
         \/ PushDuplicate(packet) \/ PushLate(packet)
  PROVE  TypeOK'
<1> DEFINE s == packet.sequence_number
<1>1. statistics' \in RtpSessionStatistics
  BY StatisticsType
<1>2. s \in SequenceNumber /\ s \in Nat
  BY Modulus DEF RtpPacket
<1>3. TypeOK
  BY DEF IInv
<1>4. CASE PushFirst(packet, t)
  <2>1. arrived' \subseteq Int
    BY <1>2, <1>3, <1>4 DEF PushFirst, NoteArrival, ExtendedNumber, TypeOK
  <2>2. QED
    BY <1>1, <1>2, <1>3, <1>4, <2>1, JitterType DEF PushFirst, TypeOK, Disposition
<1>5. CASE PushAhead(packet, t)
  <2> DEFINE n == highest_extended_sequence + ForwardDelta(s)
  <2>1. ForwardDelta(s) \in Nat /\ ForwardDelta(s) > 0 /\ n \in Nat
    BY <1>2, <1>5, Running, Modulus DEF PushAhead, IsAhead, Started
  <2>2. /\ highest_extended_sequence' = n
        /\ seen_extended_sequences' = [seen_extended_sequences EXCEPT ![s] = n]
        /\ arrived' = arrived \cup {n}
        /\ base_extended_sequence' = base_extended_sequence
        /\ disposition' = "accepted"
    BY <1>5 DEF PushAhead, NoteArrival, ExtendedNumber
  <2>3. diagnostics' \in [DiagnosticCode -> Nat]
    BY <1>3, <1>5, DiagnosticsType DEF PushAhead, DiagnosticCode, TypeOK
  <2>4. gap_missing' \in Nat
    BY <1>3, <1>5, <2>1 DEF PushAhead, TypeOK
  <2>5. /\ jitter' \in [scaled : Nat, scale : Nat]
        /\ previous' \in [arrival_time : Nat \cup {None},
                         timestamp : Timestamps \cup {None}]
    BY <1>3, <1>5, JitterType DEF PushAhead
  <2> HIDE DEF n
  <2>6. /\ arrived' \subseteq Int
        /\ seen_extended_sequences' \in [SequenceNumber -> Nat \cup {None}]
        /\ highest_extended_sequence' \in Nat
    <3>1. n \in Int /\ n \in Nat \cup {None}
      BY <2>1
    <3>2. QED
      BY <1>2, <1>3, <2>1, <2>2, <3>1 DEF TypeOK
  <2>7. base_extended_sequence' \in Nat \cup {None} /\ disposition' \in Disposition
    BY <1>3, <2>2 DEF TypeOK, Disposition
  <2>8. QED
    BY <1>1, <2>3, <2>4, <2>5, <2>6, <2>7 DEF TypeOK
<1>6. CASE PushDuplicate(packet)
  <2>1. Started /\ IsDuplicate(s)
    BY <1>6 DEF PushDuplicate, Started
  <2>2. arrived' \subseteq Int
    BY <1>2, <1>6, <2>1, DuplicateIsReceived, Running DEF PushDuplicate, NoteArrival
  <2>3. diagnostics' \in [DiagnosticCode -> Nat]
    BY <1>3, <1>6, DiagnosticsType DEF PushDuplicate, DiagnosticCode, TypeOK
  <2>4. QED
    BY <1>1, <1>3, <1>6, <2>2, <2>3 DEF PushDuplicate, TypeOK, Disposition
<1>7. CASE PushLate(packet)
  <2>1. Started /\ IsLate(s)
    BY <1>7 DEF PushLate, Started
  <2>2. /\ ExtendedNumber(s) \in Int
        /\ Candidate(s) # None => Candidate(s) \in Nat
    BY <1>2, <2>1, LateIsNotReceived, Running
  <2>3. arrived' \subseteq Int
    BY <1>3, <1>7, <2>2 DEF PushLate, NoteArrival, TypeOK
  <2>4. seen_extended_sequences' \in [SequenceNumber -> Nat \cup {None}]
    BY <1>3, <1>7, <2>2 DEF PushLate, TypeOK
  <2>5. diagnostics' \in [DiagnosticCode -> Nat]
    BY <1>3, <1>7, DiagnosticsType DEF PushLate, DiagnosticCode, TypeOK
  <2>6. QED
    BY <1>1, <1>3, <1>7, <2>3, <2>4, <2>5 DEF PushLate, TypeOK, Disposition
<1>8. QED
  BY <1>4, <1>5, <1>6, <1>7

-----------------------------------------------------------------------------
(* The invariant.                                                          *)

(* The analyzer starts with the invariant.                                 *)
LEMMA InitInv == Init => IInv
<1> SUFFICES ASSUME Init PROVE IInv
  OBVIOUS
<1>1. TypeOK
  <2>1. statistics \in RtpSessionStatistics
    BY ConstantsAssumption DEF Init, RtpSessionStatistics, ConstantsAssumption
  <2>2. QED
    BY <2>1 DEF Init, TypeOK, Disposition
<1>2. ~ Started
  BY DEF Init, Started
<1>3. NothingBeforeFirst /\ GapsExplainLoss /\ EveryDatagramIsExplained
  BY DEF Init, NothingBeforeFirst, GapsExplainLoss, EveryDatagramIsExplained,
         DiagnosticCode
<1>4. QED
  BY <1>1, <1>2, <1>3 DEF IInv, NumbersAreOrdered, CountersAreCardinalities,
                          MemoryIsSound, MemoryIsComplete

(* A datagram that is ignored preserves the invariant, at any time.        *)
LEMMA IgnoreInv ==
  ASSUME IInv, NEW reason \in Disposition,
         NEW code \in {"RTP_INVALID_PACKET", "RTP_UNEXPECTED_PAYLOAD_TYPE",
                       "RTP_UNEXPECTED_SSRC"},
         Ignore(code, reason), clock' \in Nat
  PROVE  IInv'
BY IgnoreType, IgnoreStep DEF IInv, Bookkeeping, DiagnosticCode

(* So does every packet, whenever it is pushed.                            *)
LEMMA PushPacketInv ==
  ASSUME IInv, NEW packet \in RtpPacket, NEW t \in Nat, clock' \in Nat,
         PushPacket(packet, t)
  PROVE  IInv'
<1>1. SUFFICES TypeOK' /\ Bookkeeping'
  BY DEF IInv, Bookkeeping
<1>2. CASE PushUnexpectedPayloadType(packet)
  BY <1>2, IgnoreInv DEF PushUnexpectedPayloadType, Disposition, IInv, Bookkeeping
<1>3. CASE PushUnexpectedSsrc(packet)
  BY <1>3, IgnoreInv DEF PushUnexpectedSsrc, Disposition, IInv, Bookkeeping
<1>4. CASE PushFirst(packet, t)
  BY <1>4, PacketType, FirstStep
<1>5. CASE PushAhead(packet, t)
  BY <1>5, PacketType, AheadStep
<1>6. CASE PushDuplicate(packet)
  BY <1>6, PacketType, DuplicateStep
<1>7. CASE PushLate(packet)
  BY <1>7, PacketType, LateStep
<1>8. QED
  BY <1>2, <1>3, <1>4, <1>5, <1>6, <1>7 DEF PushPacket

(* And a step in which the analyzer does nothing.                          *)
LEMMA StutterInv ==
  ASSUME IInv, UNCHANGED vars
  PROVE  IInv'
<1>1. Received' = Received
  BY DEF vars, Received
<1>2. QED
  BY <1>1
     DEF vars, IInv, TypeOK, Started, NothingBeforeFirst, NumbersAreOrdered,
         CountersAreCardinalities, MemoryIsSound, MemoryIsComplete,
         GapsExplainLoss, EveryDatagramIsExplained

(* IInv is inductive.                                                      *)
LEMMA NextInv ==
  ASSUME IInv, [Next]_vars
  PROVE  IInv'
<1>1. CASE UNCHANGED vars
  BY <1>1, StutterInv
<1>2. ASSUME NEW delta \in ArrivalDeltas, ArrivesAt(clock + delta)
      PROVE  clock' \in Nat /\ clock + delta \in Nat
  BY <1>2, ConstantsAssumption DEF ArrivesAt, IInv, TypeOK, ConstantsAssumption
<1>3. ASSUME NEW delta \in ArrivalDeltas, ArrivesAt(clock + delta), PushInvalid
      PROVE  IInv'
  BY <1>2, <1>3, IgnoreInv DEF PushInvalid, Disposition
<1>4. ASSUME NEW delta \in ArrivalDeltas, NEW packet \in RtpPacket,
             ArrivesAt(clock + delta), PushPacket(packet, clock + delta)
      PROVE  IInv'
  <2> DEFINE t == clock + delta
  <2>1. clock' \in Nat /\ t \in Nat /\ PushPacket(packet, t)
    BY <1>2, <1>4
  <2> HIDE DEF t
  <2>2. QED
    BY <2>1, PushPacketInv
<1>5. QED
  BY <1>1, <1>3, <1>4 DEF Next

(* In every execution, for every modulus and every packet set, IInv holds. *)
THEOREM Invariance == Spec => []IInv
<1>1. Init => IInv
  BY InitInv
<1>2. IInv /\ [Next]_vars => IInv'
  BY NextInv
<1>3. QED
  BY <1>1, <1>2, PTL DEF Spec

(* The variables always have their types; in particular the 16-bit slots,  *)
(* the counters and the jitter never become negative.                      *)
THEOREM TypeCorrectness == Spec => []TypeOK
BY Invariance, PTL DEF IInv

(* The invariant says what the loss count of the report is.                *)
LEMMA InvGivesLossCount == IInv => LossCountIsExact
<1> SUFFICES ASSUME IInv, Started
             PROVE  LossCountIsExact
  BY DEF LossCountIsExact
<1> DEFINE b == base_extended_sequence
           h == highest_extended_sequence
<1>1. b \in Int /\ h \in Int /\ b <= h /\ Received \subseteq b..h
  BY Running
<1>2. /\ IsFiniteSet(Received) /\ IsFiniteSet(Missing)
      /\ IsFiniteSet(b..h) /\ Cardinality(b..h) = h - b + 1
  <2>1. IsFiniteSet(b..h) /\ Cardinality(b..h) = h - b + 1
    <3> HIDE DEF b, h
    <3>1. QED
      BY <1>1, FS_Interval
  <2>2. Missing \subseteq b..h
    BY DEF Missing
  <2>3. QED
    BY <1>1, <2>1, <2>2, FS_Subset
<1>3. /\ b..h = Received \cup Missing
      /\ Received \cap Missing = {}
  BY <1>1 DEF Missing
<1>4. /\ Cardinality(b..h) = Cardinality(Received) + Cardinality(Missing)
      /\ Cardinality(Received) \in Nat /\ Cardinality(Missing) \in Nat
  <2>1. /\ Cardinality(Received) \in Nat /\ Cardinality(Missing) \in Nat
        /\ Cardinality({}) = 0
    BY <1>2, FS_EmptySet, FS_CardinalityType
  <2>2. Cardinality(Received \cup Missing)
          = Cardinality(Received) + Cardinality(Missing)
              - Cardinality(Received \cap Missing)
    BY <1>2, FS_Union
  <2>3. Cardinality(b..h) = Cardinality(Received \cup Missing)
    BY <1>3, Zenon
  <2>4. Cardinality(Received \cap Missing) = 0
    BY <1>3, <2>1, Zenon
  <2>5. QED
    BY <2>1, <2>2, <2>3, <2>4
<1>5. /\ statistics.unique_packets_received = Cardinality(Received)
      /\ statistics.packets_expected = h - b + 1
      /\ statistics.packets_lost =
            statistics.packets_expected - statistics.unique_packets_received
  BY DEF IInv, CountersAreCardinalities
<1>6. QED
  BY <1>2, <1>4, <1>5 DEF LossCountIsExact

(* The report's unique, expected and lost packets are exactly those that   *)
(* arrived, those between the first and the highest, and the difference.   *)
THEOREM LossCountCorrect == Spec => []LossCountIsExact
BY Invariance, InvGivesLossCount, PTL

(* The gap diagnostics and the loss count of the report never contradict.  *)
THEOREM GapsCorrect == Spec => []GapsExplainLoss
BY Invariance, PTL DEF IInv

(* One slot per 16-bit number is enough: it always holds the newest number *)
(* received with that residue.                                             *)
THEOREM MemoryCorrect == Spec => []MemoryIsNewest
<1>1. IInv => MemoryIsNewest
  <2>1. SUFFICES ASSUME IInv, Started, NEW s \in SequenceNumber,
                        NEW turns,
                        turns = {number \in Received : number % SequenceModulus = s}
                 PROVE  IF turns = {}
                        THEN seen_extended_sequences[s] = None
                        ELSE /\ seen_extended_sequences[s] \in turns
                             /\ \A number \in turns :
                                   number <= seen_extended_sequences[s]
    BY DEF MemoryIsNewest
  <2>2. CASE turns = {}
    BY <2>1, <2>2 DEF IInv, MemoryIsSound
  <2>3. CASE turns # {}
    <3>1. \A number \in turns : number <= seen_extended_sequences[s]
      BY <2>1 DEF IInv, MemoryIsComplete
    <3>2. seen_extended_sequences[s] # None
      <4>1. PICK number \in turns : TRUE
        BY <2>3
      <4>2. number \in Nat /\ number <= seen_extended_sequences[s]
        BY <2>1, <3>1, <4>1, Running
      <4>3. seen_extended_sequences[s] \in Int
        BY <2>1, CounterTypes DEF None
      <4>4. QED
        BY <4>2, <4>3 DEF None
    <3>3. seen_extended_sequences[s] \in turns
      BY <2>1, <3>2 DEF IInv, MemoryIsSound
    <3>4. QED
      BY <2>3, <3>1, <3>3
  <2>4. QED
    BY <2>2, <2>3
<1>2. QED
  BY <1>1, Invariance, PTL

(* Each datagram of a session is counted as a packet of the stream or has  *)
(* exactly one diagnostic that says why not, whatever the order of first,  *)
(* repeated, late and foreign packets.                                     *)
THEOREM DatagramsExplained == Spec => []EveryDatagramIsExplained
BY Invariance, PTL DEF IInv

-----------------------------------------------------------------------------
(* The analyzed SSRC.                                                      *)

(* What the analyzer knows of the SSRC: the configured one before the      *)
(* first packet of the stream, always one after it.                        *)
SsrcIsKnown ==
  /\ Started => statistics.ssrc # None
  /\ ~ Started => statistics.ssrc = ConfiguredSsrc

(* A foreign datagram teaches the analyzer nothing.                        *)
LEMMA IgnoreKeepsSsrc ==
  ASSUME TypeOK, NEW code, NEW reason, Ignore(code, reason)
  PROVE  /\ statistics'.ssrc = statistics.ssrc
         /\ Started' <=> Started
BY DEF Ignore, SequenceState, Started, TypeOK, RtpSessionStatistics

(* After a packet of the stream its SSRC is the analyzed one.              *)
LEMMA PacketSetsSsrc ==
  ASSUME IInv, NEW packet \in RtpPacket, NEW t,
         \/ PushFirst(packet, t) \/ PushAhead(packet, t)
         \/ PushDuplicate(packet) \/ PushLate(packet)
  PROVE  /\ statistics'.ssrc = packet.ssrc /\ packet.ssrc # None
         /\ statistics.ssrc \in {None, packet.ssrc}
         /\ Started'
         /\ Started \/ PushFirst(packet, t)
<1>1. /\ packet.ssrc # None /\ packet.sequence_number \in Nat
      /\ statistics \in RtpSessionStatistics
  BY ConstantsAssumption, Modulus, CounterTypes DEF ConstantsAssumption, RtpPacket
<1>2. CASE PushFirst(packet, t)
  BY <1>1, <1>2 DEF PushFirst, OfTheStream, Counted, WithLoss, Started, None,
                    RtpSessionStatistics
<1>3. CASE PushAhead(packet, t)
  <2>1. /\ Started /\ highest_extended_sequence \in Nat
        /\ ForwardDelta(packet.sequence_number) \in Nat
    BY <1>3, Running, Modulus DEF PushAhead, Started, IsAhead
  <2>2. Started'
    BY <1>3, <2>1 DEF PushAhead, Started, None
  <2>3. statistics'.ssrc = packet.ssrc
    BY <1>1, <1>3 DEF PushAhead, Counted, WithLoss, RtpSessionStatistics
  <2>4. QED
    BY <1>1, <1>3, <2>1, <2>2, <2>3 DEF PushAhead, OfTheStream
<1>4. CASE PushDuplicate(packet)
  BY <1>1, <1>4 DEF PushDuplicate, OfTheStream, Counted, Started,
                    RtpSessionStatistics
<1>5. CASE PushLate(packet)
  <2>1. statistics'.ssrc = packet.ssrc
    <3>1. CASE Candidate(packet.sequence_number) # None
      BY <1>1, <1>5, <3>1 DEF PushLate, Counted, WithLoss, RtpSessionStatistics
    <3>2. CASE Candidate(packet.sequence_number) = None
      BY <1>1, <1>5, <3>2 DEF PushLate, Counted, RtpSessionStatistics
    <3>3. QED
      BY <3>1, <3>2
  <2>2. QED
    BY <1>1, <1>5, <2>1 DEF PushLate, OfTheStream, Started
<1>6. QED
  BY <1>2, <1>3, <1>4, <1>5

(* Every push is of one of two kinds.                                      *)
LEMMA PushKinds ==
  ASSUME NEW packet, NEW t, PushPacket(packet, t)
  PROVE  \/ \E code \in DiagnosticCode, reason \in Disposition \ {"accepted"} :
              Ignore(code, reason)
         \/ PushFirst(packet, t) \/ PushAhead(packet, t)
         \/ PushDuplicate(packet) \/ PushLate(packet)
BY DEF PushPacket, PushUnexpectedPayloadType, PushUnexpectedSsrc, DiagnosticCode,
       Disposition

(* A datagram that is ignored, and a packet, keep what is known of the     *)
(* SSRC; a packet changes it only once.                                    *)
LEMMA SsrcPush ==
  ASSUME IInv, SsrcIsKnown, NEW t,
         PushInvalid \/ \E packet \in RtpPacket : PushPacket(packet, t)
  PROVE  /\ SsrcIsKnown'
         /\ statistics'.ssrc # statistics.ssrc =>
              /\ ConfiguredSsrc = None
              /\ ~ Started /\ Started'
<1>1. ASSUME NEW code, NEW reason, Ignore(code, reason)
      PROVE  SsrcIsKnown' /\ statistics'.ssrc = statistics.ssrc
  BY <1>1, IgnoreKeepsSsrc DEF SsrcIsKnown, IInv
<1>2. ASSUME NEW packet \in RtpPacket,
             \/ PushFirst(packet, t) \/ PushAhead(packet, t)
             \/ PushDuplicate(packet) \/ PushLate(packet)
      PROVE  /\ SsrcIsKnown'
             /\ statistics'.ssrc # statistics.ssrc =>
                  /\ ConfiguredSsrc = None
                  /\ ~ Started /\ Started'
  BY <1>2, PacketSetsSsrc DEF SsrcIsKnown
<1>3. QED
  BY <1>1, <1>2, PushKinds DEF PushInvalid

(* So does every step.                                                     *)
LEMMA SsrcStep ==
  ASSUME IInv, SsrcIsKnown, [Next]_vars
  PROVE  /\ SsrcIsKnown'
         /\ statistics'.ssrc # statistics.ssrc =>
              /\ ConfiguredSsrc = None
              /\ ~ Started /\ Started'
<1>1. CASE UNCHANGED vars
  BY <1>1 DEF vars, SsrcIsKnown, Started
<1>2. CASE Next
  BY <1>2, SsrcPush DEF Next
<1>3. QED
  BY <1>1, <1>2

(* Only the first packet of the stream determines the analyzed SSRC, and   *)
(* only when none was configured; nothing changes it after that.           *)
THEOREM SsrcLocked == Spec => SsrcIsLockedByFirstPacket
<1>1. Init => SsrcIsKnown
  BY DEF Init, SsrcIsKnown, Started
<1>2. IInv /\ SsrcIsKnown /\ [Next]_vars => SsrcIsKnown'
  BY SsrcStep
<1>3. IInv /\ SsrcIsKnown /\ [Next]_vars
        => [statistics'.ssrc # statistics.ssrc =>
              /\ ConfiguredSsrc = None
              /\ ~ Started /\ Started']_vars
  BY SsrcStep
<1>4. QED
  BY <1>1, <1>2, <1>3, Invariance, PTL DEF Spec, SsrcIsLockedByFirstPacket

-----------------------------------------------------------------------------
(* The refinement.                                                         *)

(* The abstract module has its own copy of Cardinality.                    *)
LEMMA SameCardinality ==
  ASSUME NEW S
  PROVE  Reception!Cardinality(S) = Cardinality(S)
BY DEF Reception!Cardinality, Cardinality

(* After a step the reported loss is the cardinality of what is missing.   *)
LEMMA LossAfterStep ==
  ASSUME LossCountIsExact', Started'
  PROVE  statistics'.packets_lost = Reception!Cardinality(Reception!Missing')
BY SameCardinality DEF LossCountIsExact, Missing, Reception!Missing

(* Every step of the analyzer is one of the abstract reception, or none.   *)
LEMMA RefinementStep ==
  ASSUME IInv, LossCountIsExact', [Next]_vars
  PROVE  [Reception!Next]_(Reception!vars)
<1> USE DEF Reception!None, None
<1>1. CASE UNCHANGED vars
  BY <1>1 DEF vars, Reception!vars, Received
<1>2. ASSUME NEW code, NEW reason, Ignore(code, reason)
      PROVE  UNCHANGED Reception!vars
  <2>1. /\ statistics'.packets_lost = statistics.packets_lost
        /\ statistics'.duplicate_packets = statistics.duplicate_packets
        /\ statistics'.out_of_order_packets = statistics.out_of_order_packets
    BY <1>2, CounterTypes DEF Ignore, RtpSessionStatistics
  <2>2. QED
    BY <1>2, <2>1 DEF Ignore, SequenceState, Reception!vars, Received
<1>3. ASSUME NEW packet \in RtpPacket, NEW t, PushFirst(packet, t)
      PROVE  Reception!First
  <2> DEFINE s == packet.sequence_number
  <2>1. ~ Started /\ s \in Nat
    BY <1>3, Modulus DEF PushFirst, Started, RtpPacket
  <2>2. /\ highest_extended_sequence' = s /\ base_extended_sequence' = s
        /\ arrived' = {s}
    BY <1>3, <2>1 DEF PushFirst, NoteArrival, ExtendedNumber, Started, IInv,
                      NothingBeforeFirst
  <2>3. Received' = {s}
    BY <2>1, <2>2 DEF Received
  <2>4. /\ statistics'.duplicate_packets = statistics.duplicate_packets
        /\ statistics'.out_of_order_packets = statistics.out_of_order_packets
    BY <1>3, CounterTypes DEF PushFirst, Counted, WithLoss, RtpSessionStatistics
  <2>5. statistics'.packets_lost = statistics.packets_lost
    <3>1. statistics' = WithLoss([Counted(packet) EXCEPT
                                    !.first_sequence_number = s,
                                    !.last_sequence_number = s,
                                    !.unique_packets_received = 1], s, s)
      BY <1>3 DEF PushFirst
    <3>2. statistics.packets_lost = 0
      BY <2>1 DEF IInv, NothingBeforeFirst
    <3> HIDE DEF s
    <3>3. s - s + 1 = 1
      BY <2>1
    <3>4. QED
      BY <3>1, <3>2, <3>3, CounterTypes
         DEF Counted, WithLoss, Lost, RtpSessionStatistics
  <2>6. QED
    BY <2>1, <2>2, <2>3, <2>4, <2>5 DEF Reception!First, Started
<1>4. ASSUME NEW packet \in RtpPacket, NEW t, PushAhead(packet, t)
      PROVE  Reception!Advance
  <2> DEFINE s == packet.sequence_number
             h == highest_extended_sequence
             n == h + ForwardDelta(s)
  <2>1. Started /\ s \in SequenceNumber /\ IsAhead(s) /\ h \in Nat
    BY <1>4, Running DEF PushAhead, Started, RtpPacket
  <2>2. n \in (h + 1)..(h + HalfSequenceSpace - 1) /\ n \in Nat
    BY <2>1, Modulus DEF IsAhead
  <2>3. /\ highest_extended_sequence' = n
        /\ base_extended_sequence' = base_extended_sequence
        /\ arrived' = arrived \cup {n}
    BY <1>4, <2>1 DEF PushAhead, NoteArrival, ExtendedNumber, Started
  <2>4. Received' = Received \cup {n} /\ Started'
    BY <2>1, <2>2, <2>3, Running DEF Received, Started
  <2>5. /\ statistics'.duplicate_packets = statistics.duplicate_packets
        /\ statistics'.out_of_order_packets = statistics.out_of_order_packets
    BY <1>4, CounterTypes DEF PushAhead, Counted, WithLoss, RtpSessionStatistics
  <2>6. statistics'.packets_lost = Reception!Cardinality(Reception!Missing')
    BY <2>4, LossAfterStep
  <2>7. highest_extended_sequence' \in (h + 1)..(h + HalfSequenceSpace - 1)
    BY <2>2, <2>3
  <2>8. highest_extended_sequence # -1
    BY <2>1
  <2> HIDE DEF n
  <2>9. QED
    BY <2>3, <2>4, <2>5, <2>6, <2>7, <2>8 DEF Reception!Advance
<1>5. ASSUME NEW packet \in RtpPacket, PushDuplicate(packet)
      PROVE  Reception!Repeat
  <2> DEFINE s == packet.sequence_number
  <2>1. Started /\ s \in SequenceNumber /\ IsDuplicate(s)
    BY <1>5 DEF PushDuplicate, Started, RtpPacket
  <2>2. /\ ExtendedNumber(s) \in Received
        /\ highest_extended_sequence - ExtendedNumber(s) \in 0..HalfSequenceSpace
    BY <2>1, DuplicateIsReceived
  <2>3. Received' = Received
    BY <1>5, <2>2 DEF PushDuplicate, NoteArrival, Received
  <2>4. /\ statistics'.packets_lost = statistics.packets_lost
        /\ statistics'.duplicate_packets = statistics.duplicate_packets + 1
        /\ statistics'.out_of_order_packets = statistics.out_of_order_packets
    BY <1>5, CounterTypes DEF PushDuplicate, Counted, RtpSessionStatistics
  <2>5. QED
    BY <1>5, <2>2, <2>3, <2>4 DEF PushDuplicate, Reception!Repeat
<1>6. ASSUME NEW packet \in RtpPacket, PushLate(packet)
      PROVE  Reception!Late
  <2> DEFINE s == packet.sequence_number
             h == highest_extended_sequence
             n == ExtendedNumber(s)
  <2>1. Started /\ s \in SequenceNumber /\ IsLate(s) /\ h \in Nat
    BY <1>6, Running DEF PushLate, Started, RtpPacket
  <2>2. n \in Int /\ n \notin Received /\ n \in (h - HalfSequenceSpace)..(h - 1)
    BY <2>1, LateIsNotReceived, Modulus
  <2>3. /\ highest_extended_sequence' = h
        /\ base_extended_sequence' = base_extended_sequence
        /\ arrived' = arrived \cup {n}
    BY <1>6 DEF PushLate, NoteArrival
  <2>4. Received' = IF n >= base_extended_sequence THEN Received \cup {n}
                                                   ELSE Received
    BY <2>2, <2>3 DEF Received
  <2>5. /\ statistics'.duplicate_packets = statistics.duplicate_packets
        /\ statistics'.out_of_order_packets = statistics.out_of_order_packets + 1
    <3>1. CASE Candidate(s) # None
      BY <1>6, <3>1, CounterTypes
         DEF PushLate, Counted, WithLoss, RtpSessionStatistics
    <3>2. CASE Candidate(s) = None
      BY <1>6, <3>2, CounterTypes DEF PushLate, Counted, RtpSessionStatistics
    <3>3. QED
      BY <3>1, <3>2
  <2>6. Started'
    BY <2>1, <2>3 DEF Started
  <2>7. statistics'.packets_lost = Reception!Cardinality(Reception!Missing')
    BY <2>6, LossAfterStep
  <2>8. highest_extended_sequence # -1
    BY <2>1
  <2> HIDE DEF n
  <2>9. QED
    BY <2>2, <2>3, <2>4, <2>5, <2>7, <2>8 DEF Reception!Late
<1>7. QED
  BY <1>1, <1>2, <1>3, <1>4, <1>5, <1>6
     DEF Next, PushInvalid, PushPacket, PushUnexpectedPayloadType,
         PushUnexpectedSsrc, Reception!Next

(* The analyzer implements the abstract reception: a packet is a duplicate *)
(* exactly when its extended number was received before, late exactly when *)
(* it is behind and was not, and nothing else is counted or lost.          *)
THEOREM Refinement == Spec => ImplementsReception
<1>1. Init => Reception!Init
  BY DEF Init, Reception!Init, Reception!None, None, Received
<1>2. IInv /\ LossCountIsExact' /\ [Next]_vars
        => [Reception!Next]_(Reception!vars)
  BY RefinementStep
<1>3. QED
  BY <1>1, <1>2, Invariance, LossCountCorrect, PTL DEF Spec, ImplementsReception, Reception!Spec
=============================================================================
