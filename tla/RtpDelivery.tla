----------------------------- MODULE RtpDelivery -----------------------------
(***************************************************************************)
(* RtpStreamAnalyzer behind a sender and a UDP network.  The sender        *)
(* numbers its packets 0, 1, 2, ... and sends one every Interval; the      *)
(* network loses, repeats and reorders them, and delays each by at most    *)
(* MaxDelay.  The analyzer sees 16-bit numbers and timestamps that wrap;   *)
(* the history here knows which packets really arrived.                    *)
(***************************************************************************)
EXTENDS RtpStreamAnalyzer

CONSTANTS
    LastIndex,      \* bound: the sender sends packets 0..LastIndex
    Interval,       \* arrival-time units between two packets of the sender
    MaxDelay,       \* the network delays a packet by 0..MaxDelay
    MaxJump,        \* the network loses fewer than MaxJump packets in a row
    FirstNumbers,   \* sequence numbers the sender may start with
    FirstTimestamps \* timestamps the sender may start with

ASSUME DeliveryAssumption ==
    /\ LastIndex \in Nat /\ Interval \in Nat \ {0} /\ MaxDelay \in Nat
    /\ MaxJump \in 1..(HalfSequenceSpace - 1)
    /\ MaxDelay \div Interval < HalfSequenceSpace
    /\ FirstNumbers \subseteq SequenceNumber
    /\ FirstTimestamps \subseteq Timestamps
    /\ (MaxJump * Interval + MaxDelay) * ClockRate < TimestampModulus \div 2
    /\ Timestamps = 0..(TimestampModulus - 1)

(* The SSRC of the sender, whose stream is the one that is analyzed.       *)
SenderSsrc == CHOOSE ssrc \in Ssrcs : TRUE

ASSUME SenderAssumption ==
    /\ Ssrcs # {}
    /\ ConfiguredSsrc \in {None, SenderSsrc}

VARIABLES
    first_number, first_timestamp,  \* chosen by the sender
    delivered,                      \* indices of the packets that arrived
    first_index,                    \* the one that arrived first, None before
    repeated                        \* arrivals of a packet for another time, not
                                    \* counting packets before the first one

deliveryVars == <<vars, first_number, first_timestamp, delivered, first_index,
                  repeated>>

(* The packet of the sender with the given index.                          *)
Sent(index) ==
    [payload_type |-> ConfiguredPayloadType,
     ssrc |-> SenderSsrc,
     sequence_number |-> (first_number + index) % SequenceModulus,
     timestamp |-> (first_timestamp + index * Interval * ClockRate)
                     % TimestampModulus]

DeliveryInit ==
    /\ Init
    /\ first_number \in FirstNumbers
    /\ first_timestamp \in FirstTimestamps
    /\ delivered = {}
    /\ first_index = None
    /\ repeated = 0

Newest == CHOOSE index \in delivered : \A other \in delivered : other <= index

Deliver(index, arrival_time) ==
    /\ delivered # {} => index <= Newest + MaxJump
    /\ arrival_time >= clock
    /\ arrival_time - index * Interval \in 0..MaxDelay
    /\ ArrivesAt(arrival_time)
    /\ PushPacket(Sent(index), arrival_time)
    /\ delivered' = delivered \cup {index}
    /\ first_index' = IF first_index = None THEN index ELSE first_index
    /\ repeated' = IF index \in delivered /\ index >= first_index
                   THEN repeated + 1 ELSE repeated
    /\ UNCHANGED <<first_number, first_timestamp>>

DeliveryNext ==
    \E index \in 0..LastIndex, delay \in 0..MaxDelay :
      Deliver(index, index * Interval + delay)

DeliverySpec == DeliveryInit /\ [][DeliveryNext]_deliveryVars

-----------------------------------------------------------------------------
(* As long as bursts of loss and reordering stay below half the sequence   *)
(* space, the report counts the sender's own packets: those from the first *)
(* one that arrived on are expected, and the ones that never came are lost,*)
(* whatever the sender started with and however often the number wrapped.  *)
(* A packet the network repeated is a duplicate, and nothing else is, for  *)
(* every packet the analysis is responsible for.                           *)
ReportIsTruth ==
    delivered # {} =>
      LET range == first_index..Newest
      IN  /\ statistics.packets_expected = Cardinality(range)
          /\ statistics.packets_lost = Cardinality(range \ delivered)
          /\ statistics.unique_packets_received = Cardinality(range \cap delivered)
          /\ statistics.duplicate_packets = repeated

(* The interarrival jitter never exceeds the delay variation of the        *)
(* network; over a network with a constant delay it stays exactly zero,    *)
(* through loss and through the wrap of the RTP timestamp.                 *)
JitterWithinDelayVariation ==
    jitter.scaled <= MaxDelay * ClockRate * jitter.scale
=============================================================================
