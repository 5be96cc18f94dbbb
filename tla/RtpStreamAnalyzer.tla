-------------------------- MODULE RtpStreamAnalyzer --------------------------
(***************************************************************************)
(* The state machine of class RtpStreamAnalyzer                            *)
(* (src/core/rtp_stream_analyzer.cpp): one push(datagram, arrival_time)    *)
(* per UDP datagram.  The analyzer extends the 16-bit RTP sequence number, *)
(* classifies each packet, and keeps the session statistics.               *)
(*                                                                         *)
(* The text of the diagnostics is left out: the number of diagnostics of   *)
(* each code is kept, and the total of the "N packets are missing" lines.  *)
(* 64-bit counters do not wrap within MaxDatagrams pushes.                 *)
(***************************************************************************)
EXTENDS Integers, FiniteSets

CONSTANTS
    SequenceModulus,        \* sequence_modulus, 2^16 in the code
    TimestampModulus,       \* values of the RTP timestamp, 2^32 in the code
    PayloadTypes,           \* payload types that occur in packets
    ConfiguredPayloadType,  \* config_.payload_type
    Ssrcs,                  \* SSRCs that occur in packets
    ConfiguredSsrc,         \* config_.ssrc, None when not configured
    ClockRate,              \* timestamp units per unit of arrival time
    ArrivalDeltas,          \* how far the clock moves between two pushes
    Timestamps,             \* timestamps the sender may use
    MaxDatagrams            \* bound: datagrams in one session

(* std::nullopt, and unseen_extended_sequence: no sequence number is -1.   *)
None == -1

ASSUME ConstantsAssumption ==
    /\ SequenceModulus \in Nat /\ SequenceModulus % 2 = 0 /\ SequenceModulus >= 4
    /\ TimestampModulus \in Nat /\ TimestampModulus % 2 = 0 /\ TimestampModulus >= 2
    /\ ConfiguredPayloadType \in PayloadTypes
    /\ None \notin Ssrcs
    /\ ConfiguredSsrc \in Ssrcs \cup {None}
    /\ ClockRate \in Nat
    /\ ArrivalDeltas \subseteq Nat
    /\ Timestamps \subseteq 0..(TimestampModulus - 1)
    /\ MaxDatagrams \in Nat

(* half_sequence_space *)
HalfSequenceSpace == SequenceModulus \div 2

SequenceNumber == 0..(SequenceModulus - 1)

RtpPacket == [payload_type : PayloadTypes, ssrc : Ssrcs,
              sequence_number : SequenceNumber, timestamp : Timestamps]

RtpSessionStatistics ==
    [ssrc : Ssrcs \cup {None},
     first_sequence_number : SequenceNumber \cup {None},
     last_sequence_number : SequenceNumber \cup {None},
     datagrams_received : Nat, packets_received : Nat,
     unique_packets_received : Nat, packets_expected : Nat,
     packets_lost : Nat, duplicate_packets : Nat,
     out_of_order_packets : Nat]

Disposition == {"none", "accepted", "invalid", "unexpected_payload_type",
                "unexpected_ssrc", "duplicate", "out_of_order"}

DiagnosticCode == {"RTP_INVALID_PACKET", "RTP_UNEXPECTED_PAYLOAD_TYPE",
                   "RTP_UNEXPECTED_SSRC", "RTP_DUPLICATE_PACKET",
                   "RTP_SEQUENCE_GAP", "RTP_OUT_OF_ORDER_PACKET"}

VARIABLES
    statistics,               \* statistics_, without the jitter
    seen_extended_sequences,  \* newest extended number seen per 16-bit number
    base_extended_sequence,
    highest_extended_sequence,
    previous,                 \* previous_arrival_time_ and previous_rtp_timestamp_
    jitter,                   \* jitter_timestamp_units_ = scaled / scale
    diagnostics,              \* how many diagnostics of each code
    disposition,              \* of the last push
    clock,                    \* the caller's monotonic clock
    arrived,                  \* history: extended number of every packet of the stream
    gap_missing               \* history: total of the packets the gap diagnostics name

vars == <<statistics, seen_extended_sequences, base_extended_sequence,
          highest_extended_sequence, previous, jitter, diagnostics, disposition,
          clock, arrived, gap_missing>>

Init ==
    /\ statistics = [ssrc |-> ConfiguredSsrc,
                     first_sequence_number |-> None,
                     last_sequence_number |-> None,
                     datagrams_received |-> 0,
                     packets_received |-> 0,
                     unique_packets_received |-> 0,
                     packets_expected |-> 0,
                     packets_lost |-> 0,
                     duplicate_packets |-> 0,
                     out_of_order_packets |-> 0]
    /\ seen_extended_sequences = [s \in SequenceNumber |-> None]
    /\ base_extended_sequence = None
    /\ highest_extended_sequence = None
    /\ previous = [arrival_time |-> None, timestamp |-> None]
    /\ jitter = [scaled |-> 0, scale |-> 1]
    /\ diagnostics = [code \in DiagnosticCode |-> 0]
    /\ disposition = "none"
    /\ clock = 0
    /\ arrived = {}
    /\ gap_missing = 0

-----------------------------------------------------------------------------
(* 16-bit sequence arithmetic relative to the highest extended number.     *)

HighestRaw == highest_extended_sequence % SequenceModulus

ForwardDelta(sequence_number) ==
    (sequence_number - HighestRaw) % SequenceModulus

Behind(sequence_number) ==
    (HighestRaw - sequence_number) % SequenceModulus

(* Mutation: every number but the highest one is ahead.                    *)
IsAheadAlways(sequence_number) == ForwardDelta(sequence_number) # 0

IsAhead(sequence_number) ==
    ForwardDelta(sequence_number) \in 1..(HalfSequenceSpace - 1)

(* Mutation: the first packet of the analysis is no limit.                 *)
CandidateBeforeBase(sequence_number) ==
    IF Behind(sequence_number) <= highest_extended_sequence
    THEN highest_extended_sequence - Behind(sequence_number) ELSE None

(* The extended number of a packet that is behind the highest one, None    *)
(* when it would be before the first packet of the analysis.               *)
Candidate(sequence_number) ==
    IF /\ Behind(sequence_number) <= highest_extended_sequence
       /\ highest_extended_sequence - Behind(sequence_number)
            >= base_extended_sequence
    THEN highest_extended_sequence - Behind(sequence_number)
    ELSE None

(* The extended number nearest to the highest one; for the history only.   *)
ExtendedNumber(sequence_number) ==
    IF highest_extended_sequence = None THEN sequence_number
    ELSE IF IsAhead(sequence_number)
         THEN highest_extended_sequence + ForwardDelta(sequence_number)
         ELSE highest_extended_sequence - Behind(sequence_number)

(* update_loss_statistics: an unsigned subtraction, clamped at zero.       *)
Lost(expected, unique) == IF expected > unique THEN expected - unique ELSE 0

(* Mutation: the first packet is not counted as expected.                  *)
WithLossOffByOne(stats, base, highest) ==
    [stats EXCEPT
       !.packets_expected = highest - base,
       !.packets_lost = Lost(highest - base, stats.unique_packets_received)]

WithLoss(stats, base, highest) ==
    [stats EXCEPT
       !.packets_expected = highest - base + 1,
       !.packets_lost = Lost(highest - base + 1, stats.unique_packets_received)]

(* Mutation: a timestamp that wrapped is far ahead, not just ahead.        *)
TimestampDeltaUnwrapped(current, prior) == current - prior

(* signed_timestamp_delta: the shorter way round the timestamp circle.     *)
SignedTimestampDelta(current, prior) ==
    LET raw_delta == (current - prior) % TimestampModulus
    IN  IF raw_delta <= TimestampModulus \div 2 - 1
        THEN raw_delta ELSE raw_delta - TimestampModulus

Abs(i) == IF i < 0 THEN -i ELSE i

TransitDifference(packet, arrival_time) ==
    Abs((arrival_time - previous.arrival_time) * ClockRate
        - SignedTimestampDelta(packet.timestamp, previous.timestamp))

(* update_jitter: J := J + (D - J)/16, kept as a fraction.                 *)
UpdateJitter(packet, arrival_time) ==
    /\ jitter' = IF previous.arrival_time # None /\ ClockRate # 0
                 THEN [scaled |-> 15 * jitter.scaled
                          + jitter.scale * TransitDifference(packet, arrival_time),
                       scale |-> 16 * jitter.scale]
                 ELSE jitter
    /\ previous' = [arrival_time |-> arrival_time,
                    timestamp |-> packet.timestamp]

Diagnose(code) == diagnostics' = [diagnostics EXCEPT ![code] = @ + 1]

-----------------------------------------------------------------------------
(* The actions: push, one action per way through it.                       *)

SequenceState == <<seen_extended_sequences, base_extended_sequence,
                   highest_extended_sequence, arrived, gap_missing>>

ArrivesAt(arrival_time) ==
    /\ statistics.datagrams_received < MaxDatagrams
    /\ clock' = arrival_time

Ignore(code, reason) ==
    /\ statistics' = [statistics EXCEPT !.datagrams_received = @ + 1]
    /\ Diagnose(code)
    /\ disposition' = reason
    /\ UNCHANGED <<SequenceState, previous, jitter>>

PushInvalid == Ignore("RTP_INVALID_PACKET", "invalid")

(* Mutation: the SSRC is learned before the payload type is looked at.     *)
PushForeignLearningSsrc(packet) ==
    /\ packet.payload_type # ConfiguredPayloadType
    /\ statistics' = [statistics EXCEPT
                        !.ssrc = IF statistics.ssrc = None THEN packet.ssrc ELSE @,
                        !.datagrams_received = @ + 1]
    /\ Diagnose("RTP_UNEXPECTED_PAYLOAD_TYPE")
    /\ disposition' = "unexpected_payload_type"
    /\ UNCHANGED <<SequenceState, previous, jitter>>

PushUnexpectedPayloadType(packet) ==
    /\ packet.payload_type # ConfiguredPayloadType
    /\ Ignore("RTP_UNEXPECTED_PAYLOAD_TYPE", "unexpected_payload_type")

PushUnexpectedSsrc(packet) ==
    /\ packet.payload_type = ConfiguredPayloadType
    /\ statistics.ssrc # None /\ packet.ssrc # statistics.ssrc
    /\ Ignore("RTP_UNEXPECTED_SSRC", "unexpected_ssrc")

OfTheStream(packet) ==
    /\ packet.payload_type = ConfiguredPayloadType
    /\ statistics.ssrc \in {None, packet.ssrc}

(* Mutation: the datagram itself is not counted.                           *)
CountedAsPacketOnly(packet) ==
    [statistics EXCEPT !.ssrc = packet.ssrc, !.packets_received = @ + 1]

(* What every packet of the stream does to the statistics.                 *)
Counted(packet) ==
    [statistics EXCEPT !.ssrc = packet.ssrc,
                       !.datagrams_received = @ + 1,
                       !.packets_received = @ + 1]

NoteArrival(packet) ==
    arrived' = arrived \cup {ExtendedNumber(packet.sequence_number)}

(* initialize_sequence *)
PushFirst(packet, arrival_time) ==
    LET sequence_number == packet.sequence_number
        counted == [Counted(packet) EXCEPT
                      !.first_sequence_number = sequence_number,
                      !.last_sequence_number = sequence_number,
                      !.unique_packets_received = 1]
    IN  /\ OfTheStream(packet)
        /\ highest_extended_sequence = None
        /\ base_extended_sequence' = sequence_number
        /\ highest_extended_sequence' = sequence_number
        /\ seen_extended_sequences' =
             [seen_extended_sequences EXCEPT ![sequence_number] = sequence_number]
        /\ statistics' = WithLoss(counted, sequence_number, sequence_number)
        /\ UpdateJitter(packet, arrival_time)
        /\ disposition' = "accepted"
        /\ NoteArrival(packet)
        /\ UNCHANGED <<diagnostics, gap_missing>>

PushAhead(packet, arrival_time) ==
    LET sequence_number == packet.sequence_number
        forward_delta == ForwardDelta(sequence_number)
        extended_sequence == highest_extended_sequence + forward_delta
        counted == [Counted(packet) EXCEPT
                      !.last_sequence_number = sequence_number,
                      !.unique_packets_received = @ + 1]
    IN  /\ OfTheStream(packet)
        /\ highest_extended_sequence # None
        /\ IsAhead(sequence_number)
        /\ IF forward_delta > 1
           THEN /\ Diagnose("RTP_SEQUENCE_GAP")
                /\ gap_missing' = gap_missing + forward_delta - 1
           ELSE UNCHANGED <<diagnostics, gap_missing>>
        /\ highest_extended_sequence' = extended_sequence
        /\ seen_extended_sequences' =
             [seen_extended_sequences EXCEPT ![sequence_number] = extended_sequence]
        /\ statistics' = WithLoss(counted, base_extended_sequence,
                                  extended_sequence)
        /\ UpdateJitter(packet, arrival_time)
        /\ disposition' = "accepted"
        /\ NoteArrival(packet)
        /\ UNCHANGED base_extended_sequence

(* Mutation: late packets are not remembered.                              *)
IsDuplicateOfHighest(sequence_number) == ForwardDelta(sequence_number) = 0

IsDuplicate(sequence_number) ==
    \/ ForwardDelta(sequence_number) = 0
    \/ /\ ~ IsAhead(sequence_number)
       /\ Candidate(sequence_number) # None
       /\ seen_extended_sequences[sequence_number] = Candidate(sequence_number)

PushDuplicate(packet) ==
    /\ OfTheStream(packet)
    /\ highest_extended_sequence # None
    /\ IsDuplicate(packet.sequence_number)
    /\ statistics' = [Counted(packet) EXCEPT !.duplicate_packets = @ + 1]
    /\ Diagnose("RTP_DUPLICATE_PACKET")
    /\ disposition' = "duplicate"
    /\ NoteArrival(packet)
    /\ UNCHANGED <<seen_extended_sequences, base_extended_sequence,
                   highest_extended_sequence, gap_missing, previous, jitter>>

IsLate(sequence_number) ==
    /\ ForwardDelta(sequence_number) # 0
    /\ ~ IsAhead(sequence_number)
    /\ ~ IsDuplicate(sequence_number)

PushLate(packet) ==
    LET sequence_number == packet.sequence_number
        candidate == Candidate(sequence_number)
        counted == [Counted(packet) EXCEPT !.out_of_order_packets = @ + 1]
    IN  /\ OfTheStream(packet)
        /\ highest_extended_sequence # None
        /\ IsLate(sequence_number)
        /\ IF candidate # None
           THEN /\ seen_extended_sequences' =
                     [seen_extended_sequences EXCEPT ![sequence_number] = candidate]
                /\ statistics' =
                     WithLoss([counted EXCEPT !.unique_packets_received = @ + 1],
                              base_extended_sequence, highest_extended_sequence)
           ELSE /\ statistics' = counted
                /\ UNCHANGED seen_extended_sequences
        /\ Diagnose("RTP_OUT_OF_ORDER_PACKET")
        /\ disposition' = "out_of_order"
        /\ NoteArrival(packet)
        /\ UNCHANGED <<base_extended_sequence, highest_extended_sequence,
                       gap_missing, previous, jitter>>

PushPacket(packet, arrival_time) ==
    \/ PushUnexpectedPayloadType(packet)
    \/ PushUnexpectedSsrc(packet)
    \/ PushFirst(packet, arrival_time)
    \/ PushAhead(packet, arrival_time)
    \/ PushDuplicate(packet)
    \/ PushLate(packet)

Next ==
    \E delta \in ArrivalDeltas :
      /\ ArrivesAt(clock + delta)
      /\ \/ PushInvalid
         \/ \E packet \in RtpPacket : PushPacket(packet, clock + delta)

Spec == Init /\ [][Next]_vars

-----------------------------------------------------------------------------
(* Every number the analyzer must account for has either arrived or is     *)
(* missing.  Numbers before the first packet of the analysis are neither.  *)
Started == highest_extended_sequence # None

Received == {number \in arrived : number >= base_extended_sequence}

Missing == (base_extended_sequence..highest_extended_sequence) \ Received

TypeOK ==
    /\ statistics \in RtpSessionStatistics
    /\ seen_extended_sequences \in [SequenceNumber -> Nat \cup {None}]
    /\ base_extended_sequence \in Nat \cup {None}
    /\ highest_extended_sequence \in Nat \cup {None}
    /\ previous \in [arrival_time : Nat \cup {None},
                     timestamp : Timestamps \cup {None}]
    /\ jitter \in [scaled : Nat, scale : Nat]
    /\ diagnostics \in [DiagnosticCode -> Nat]
    /\ disposition \in Disposition
    /\ clock \in Nat
    /\ arrived \subseteq Int
    /\ gap_missing \in Nat

(* The reported numbers of unique, expected and lost packets are those of  *)
(* the packets that really arrived, although the analyzer remembers only   *)
(* one extended number per 16-bit number and clamps the loss at zero.      *)
LossCountIsExact ==
    Started =>
      /\ statistics.unique_packets_received = Cardinality(Received)
      /\ statistics.packets_expected =
           Cardinality(base_extended_sequence..highest_extended_sequence)
      /\ statistics.packets_lost = Cardinality(Missing)

(* Slot s of the duplicate memory holds the newest extended number with    *)
(* that 16-bit number, also after the sequence number wrapped and when a   *)
(* late packet writes into the slot of an earlier turn.                    *)
MemoryIsNewest ==
    Started =>
      \A s \in SequenceNumber :
        LET turns == {number \in Received : number % SequenceModulus = s}
        IN  IF turns = {}
            THEN seen_extended_sequences[s] = None
            ELSE /\ seen_extended_sequences[s] \in turns
                 /\ \A number \in turns : number <= seen_extended_sequences[s]

(* What the gap diagnostics announce as missing is what the statistics     *)
(* count as lost plus what late packets have recovered since: the evidence *)
(* of the diagnostics and the summary of the report never contradict.      *)
GapsExplainLoss ==
    LET accepted == statistics.packets_received - statistics.duplicate_packets
                      - statistics.out_of_order_packets
        recovered == statistics.unique_packets_received - accepted
    IN  gap_missing = statistics.packets_lost + recovered

(* Each datagram is either a packet of the stream or explained by exactly  *)
(* one diagnostic, and the duplicate and out-of-order counters agree with  *)
(* their diagnostics.                                                      *)
EveryDatagramIsExplained ==
    /\ statistics.datagrams_received =
         statistics.packets_received + diagnostics["RTP_INVALID_PACKET"]
           + diagnostics["RTP_UNEXPECTED_PAYLOAD_TYPE"]
           + diagnostics["RTP_UNEXPECTED_SSRC"]
    /\ diagnostics["RTP_DUPLICATE_PACKET"] = statistics.duplicate_packets
    /\ diagnostics["RTP_OUT_OF_ORDER_PACKET"] = statistics.out_of_order_packets

(* The strengthening of these invariants that every push preserves: what   *)
(* is known before the first packet, the order of the extended numbers,    *)
(* the counters as cardinalities, and the memory read from both sides.     *)
NothingBeforeFirst ==
    ~ Started =>
      /\ base_extended_sequence = None
      /\ arrived = {}
      /\ seen_extended_sequences = [s \in SequenceNumber |-> None]
      /\ gap_missing = 0
      /\ statistics.packets_received = 0
      /\ statistics.unique_packets_received = 0
      /\ statistics.packets_lost = 0
      /\ statistics.duplicate_packets = 0
      /\ statistics.out_of_order_packets = 0

NumbersAreOrdered ==
    Started =>
      /\ base_extended_sequence \in arrived
      /\ highest_extended_sequence \in arrived
      /\ base_extended_sequence \in 0..highest_extended_sequence
      /\ \A number \in arrived : number <= highest_extended_sequence

CountersAreCardinalities ==
    Started =>
      /\ IsFiniteSet(Received)
      /\ statistics.unique_packets_received = Cardinality(Received)
      /\ statistics.packets_expected =
           highest_extended_sequence - base_extended_sequence + 1
      /\ statistics.packets_lost =
           statistics.packets_expected - statistics.unique_packets_received

MemoryIsSound ==
    Started =>
      \A s \in SequenceNumber :
        seen_extended_sequences[s] # None =>
          /\ seen_extended_sequences[s] \in Received
          /\ seen_extended_sequences[s] % SequenceModulus = s

MemoryIsComplete ==
    Started =>
      \A number \in Received :
        number <= seen_extended_sequences[number % SequenceModulus]

IInv ==
    /\ TypeOK
    /\ NothingBeforeFirst
    /\ NumbersAreOrdered
    /\ CountersAreCardinalities
    /\ MemoryIsSound
    /\ MemoryIsComplete
    /\ GapsExplainLoss
    /\ EveryDatagramIsExplained

(* The analyzed SSRC is learned from the first packet of the stream, never *)
(* from a packet with another payload type, and never changes after that.  *)
SsrcIsLockedByFirstPacket ==
    [][statistics'.ssrc # statistics.ssrc =>
         /\ ConfiguredSsrc = None
         /\ ~ Started /\ Started']_vars

(* The 16-bit arithmetic, the table of slots and the clamped subtraction   *)
(* implement the abstract reception: each packet is classified by whether  *)
(* its extended number was received before.                                *)
Reception == INSTANCE RtpReception WITH
    HalfWindow <- HalfSequenceSpace,
    base <- base_extended_sequence,
    highest <- highest_extended_sequence,
    received <- Received,
    lost <- statistics.packets_lost,
    duplicates <- statistics.duplicate_packets,
    late <- statistics.out_of_order_packets

ImplementsReception == Reception!Spec

(* docs/report-contract.md:244 - a sequence number that was seen before    *)
(* is a duplicate when it arrives again.  Not so for numbers from before   *)
(* the first packet of the analysis, which the analyzer does not remember. *)
SeenAgainIsDuplicate ==
    [][\A packet \in RtpPacket :
         /\ Started
         /\ ExtendedNumber(packet.sequence_number) \in arrived
         /\ OfTheStream(packet)
         /\ PushPacket(packet, clock')
         => disposition' = "duplicate"]_vars
=============================================================================
