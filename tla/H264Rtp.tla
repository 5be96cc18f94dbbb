------------------------------- MODULE H264Rtp -------------------------------
(***************************************************************************)
(* RFC 6184 payloads as h264_rtp.cpp reads them, and the transition        *)
(* function of class H264FuAReassembler.                                   *)
(*                                                                         *)
(* A payload is a record of what the parsers tell apart.  NAL bytes are    *)
(* sequences of tokens; the one-byte NAL header in front of them counts in *)
(* the size but is not a token.  A payload is one of                       *)
(*   [kind |-> "invalid"]      empty, or forbidden_zero_bit set            *)
(*   [kind |-> "unsupported"]  STAP-B, MTAP, FU-B, reserved types          *)
(*   [kind |-> "single_nal_unit", nal |-> a NAL unit]                      *)
(*   [kind |-> "stap_a", nal_ref_idc |-> k, units |-> sequence of NAL      *)
(*      units and Malformed: truncated size or data, size zero, forbidden  *)
(*      bit, or a nested aggregate]                                        *)
(*   [kind |-> "fu_a", well_formed |-> FU header present, reserved bit     *)
(*      zero, original type 1..23; start, end, nal_ref_idc, nal_unit_type, *)
(*      bytes]                                                             *)
(***************************************************************************)
EXTENDS Integers, Sequences

CONSTANTS
    SequenceModulus,   \* 2^16 in the code
    MaxNalUnitSize,    \* max_nal_unit_size_, header byte included
    SizeModulus        \* values of size_t, 2^64 in the code

PayloadKind == {"invalid", "unsupported", "single_nal_unit", "stap_a", "fu_a"}

(* std::nullopt                                                            *)
Nothing == [kind |-> "nothing"]

Malformed == [kind |-> "malformed"]

NalUnit(nal_unit_type, nal_ref_idc, bytes) ==
    [kind |-> "nal", nal_unit_type |-> nal_unit_type,
     nal_ref_idc |-> nal_ref_idc, bytes |-> bytes]

(* Mutation: the 16-bit wrap is missing.                                   *)
NextWithoutWrap(sequence_number) == sequence_number + 1

NextSequenceNumber(sequence_number) == (sequence_number + 1) % SequenceModulus

(* depacketize_h264_stap_a: all units or none.                             *)
StapAIsValid(payload) ==
    /\ payload.units # <<>>
    /\ \A i \in DOMAIN payload.units : payload.units[i] # Malformed

MaximumNalRefIdc(units) ==
    CHOOSE k \in {units[i].nal_ref_idc : i \in DOMAIN units} :
      \A i \in DOMAIN units : units[i].nal_ref_idc <= k

(* Mutation: a marker bit before the last fragment is let through.         *)
FragmentIsValidWithMarker(packet) ==
    packet.payload.well_formed /\ ~ (packet.payload.start /\ packet.payload.end)

(* parse_h264_fu_a_fragment                                                *)
FragmentIsValid(packet) ==
    LET fragment == packet.payload
    IN  /\ fragment.well_formed
        /\ ~ (fragment.start /\ fragment.end)
        /\ packet.marker => fragment.end

-----------------------------------------------------------------------------
(* H264FuAReassembler: active is Nothing or the NAL unit being collected.  *)

Size(active) == Len(active.bytes) + 1

Opened(packet) ==
    LET fragment == packet.payload
    IN  [kind |-> "active",
         nal_unit_type |-> fragment.nal_unit_type,
         nal_ref_idc |-> fragment.nal_ref_idc,
         bytes |-> fragment.bytes,
         start_sequence_number |-> packet.sequence_number,
         expected_sequence_number |-> NextSequenceNumber(packet.sequence_number),
         timestamp |-> packet.timestamp,
         ssrc |-> packet.ssrc,
         payload_type |-> packet.payload_type]

Extended(active, packet) ==
    [active EXCEPT
       !.bytes = @ \o packet.payload.bytes,
       !.expected_sequence_number = NextSequenceNumber(packet.sequence_number)]

SameContext(active, packet) ==
    /\ packet.timestamp = active.timestamp
    /\ packet.ssrc = active.ssrc
    /\ packet.payload_type = active.payload_type
    /\ packet.payload.nal_ref_idc = active.nal_ref_idc
    /\ packet.payload.nal_unit_type = active.nal_unit_type

(* The checks on the size; the second subtraction is one of size_t.        *)
StartFits(packet) ==
    /\ MaxNalUnitSize # 0
    /\ Len(packet.payload.bytes) <= MaxNalUnitSize - 1

ContinuationFits(active, packet) ==
    Len(packet.payload.bytes) <= (MaxNalUnitSize - Size(active)) % SizeModulus

(* Mutation: the sequence number is not compared.                          *)
ContinuesOutOfSequence(active, packet) ==
    active # Nothing /\ SameContext(active, packet) /\ ContinuationFits(active, packet)

(* Is a fragment that does not start a NAL unit the next one of active?    *)
Continues(active, packet) ==
    /\ active # Nothing
    /\ packet.sequence_number = active.expected_sequence_number
    /\ SameContext(active, packet)
    /\ ContinuationFits(active, packet)

Step(outcome, active, nal) == [outcome |-> outcome, active |-> active, nal |-> nal]

Rejected == Step("error", Nothing, Nothing)

(* push: what becomes of the active NAL unit, and what is returned.  Every *)
(* error leaves no active NAL unit behind.                                 *)
Reassemble(active, packet) ==
    LET fragment == packet.payload
        extended == Extended(active, packet)
    IN  CASE ~ FragmentIsValid(packet) -> Rejected
          [] FragmentIsValid(packet) /\ fragment.start ->
               IF active = Nothing /\ StartFits(packet)
               THEN Step("pending", Opened(packet), Nothing)
               ELSE Rejected
          [] FragmentIsValid(packet) /\ ~ fragment.start ->
               IF ~ Continues(active, packet) THEN Rejected
               ELSE IF ~ fragment.end THEN Step("pending", extended, Nothing)
               ELSE Step("completed", Nothing,
                         NalUnit(active.nal_unit_type, active.nal_ref_idc,
                                 extended.bytes))
=============================================================================
