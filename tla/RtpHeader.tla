----------------------------- MODULE RtpHeader -----------------------------
(***************************************************************************)
(* parse_rtp_packet (src/core/rtp.cpp): the RTP header, its CSRC list, its *)
(* extension and the padding.  A packet is its size and the fields that    *)
(* decide how it is cut; sizes are size_t.                                 *)
(***************************************************************************)
EXTENDS Integers, SequencesExt

CONSTANTS
    Versions,        \* values of the version bits
    CsrcCounts,      \* values of the CC bits
    LengthWords,     \* values of the extension's length
    LastBytes,       \* values of the last byte of the packet
    MaxPacketSize,   \* bound: bytes in a packet
    SizeModulus      \* values of size_t

ASSUME RtpHeaderAssumption ==
    /\ Versions \cup CsrcCounts \cup LengthWords \cup LastBytes \subseteq Nat
    /\ MaxPacketSize \in Nat
    /\ SizeModulus \in Nat /\ SizeModulus > MaxPacketSize

FixedHeaderSize == 12

VARIABLES
    packet,   \* the datagram
    result    \* what parse_rtp_packet has returned for it

rtpHeaderVars == <<packet, result>>

Size(n) == n % SizeModulus

(* read_u32_be by read_u32_be, where the CSRC list ends.                   *)
CsrcEnd(p) == FixedHeaderSize + 4 * p.csrc_count

ExtensionData(p) == CsrcEnd(p) + 4

HeaderSize(p) ==
    IF p.has_extension THEN ExtensionData(p) + 4 * p.length_words ELSE CsrcEnd(p)

PaddingSize(p) == IF p.has_padding THEN p.last_byte ELSE 0

(* Mutation: the CSRC list is taken to be there.                           *)
CsrcsTruncatedNever(p) == FALSE

CsrcsTruncated(p) == Size(p.size - FixedHeaderSize) < 4 * p.csrc_count

(* The checks, in the order of the code: what fails, with which error, and *)
(* at which byte.                                                          *)
Checks(p) == <<
    [fails |-> p.size < FixedHeaderSize,
     error |-> "unexpected_end_of_data", at |-> p.size],
    [fails |-> p.version # 2, error |-> "invalid_rtp", at |-> 0],
    [fails |-> CsrcsTruncated(p),
     error |-> "unexpected_end_of_data", at |-> FixedHeaderSize],
    [fails |-> p.has_extension /\ Size(p.size - CsrcEnd(p)) < 4,
     error |-> "unexpected_end_of_data", at |-> CsrcEnd(p)],
    [fails |-> p.has_extension
                 /\ Size(p.size - ExtensionData(p)) < 4 * p.length_words,
     error |-> "unexpected_end_of_data", at |-> ExtensionData(p)],
    [fails |-> p.has_padding /\ Size(p.size - HeaderSize(p)) = 0,
     error |-> "invalid_rtp", at |-> p.size],
    [fails |-> p.has_padding /\ p.last_byte = 0,
     error |-> "invalid_rtp", at |-> p.size - 1],
    [fails |-> p.has_padding /\ p.last_byte > Size(p.size - HeaderSize(p)),
     error |-> "invalid_rtp", at |-> p.size - 1] >>

(* The first check that fails, or the sizes of the packet's parts.         *)
ParseRtpPacket(p) ==
    LET failed == SelectInSeq(Checks(p), LAMBDA check : check.fails)
    IN  IF failed # 0
        THEN [error |-> Checks(p)[failed].error, at |-> Checks(p)[failed].at]
        ELSE [error |-> "none", header_size |-> HeaderSize(p),
              padding_size |-> PaddingSize(p),
              payload_size |-> Size(Size(p.size - HeaderSize(p)) - PaddingSize(p))]

(* When the packet ends with the length of its extension, the last byte is *)
(* this length.                                                            *)
Packets ==
    {p \in [size : 0..MaxPacketSize, version : Versions, has_padding : BOOLEAN,
            has_extension : BOOLEAN, csrc_count : CsrcCounts,
            length_words : LengthWords, last_byte : LastBytes] :
       p.has_extension /\ p.size = ExtensionData(p) => p.last_byte = p.length_words}

RtpHeaderInit(datagram) ==
    /\ packet = datagram
    /\ result = [error |-> "not parsed"]

RtpHeaderNext ==
    /\ result = [error |-> "not parsed"]
    /\ result' = ParseRtpPacket(packet)
    /\ UNCHANGED packet

-----------------------------------------------------------------------------
(* RFC 3550, 5.1 and 5.3.1: the parts of a packet and nothing else, and at *)
(* least the count itself in the padding.                                  *)
IsLayout(p, payload_size, padding_size) ==
    /\ p.version = 2
    /\ p.size = FixedHeaderSize + 4 * p.csrc_count
                  + (IF p.has_extension THEN 4 + 4 * p.length_words ELSE 0)
                  + payload_size + padding_size
    /\ IF p.has_padding THEN padding_size > 0 /\ padding_size = p.last_byte
                        ELSE padding_size = 0

(* A packet is accepted exactly when it can be laid out as the RFC says,   *)
(* and then header, payload and padding are those of this layout: no check *)
(* is missing that keeps an unsigned subtraction from wrapping, and none   *)
(* rejects an empty payload or an extension without data.  An error is at  *)
(* a byte of the packet, or at its end where bytes are missing.            *)
AcceptsRfcPackets ==
    result.error # "not parsed" =>
      IF result.error = "none"
      THEN IsLayout(packet, result.payload_size, result.padding_size)
             /\ result.header_size + result.payload_size + result.padding_size
                  = packet.size
      ELSE /\ ~ \E payload_size, padding_size \in 0..packet.size :
                  IsLayout(packet, payload_size, padding_size)
           /\ result.at \in 0..packet.size
=============================================================================
