----------------------------- MODULE H264Delivery -----------------------------
(***************************************************************************)
(* H264RtpStreamAnalyzer behind a sender and a UDP network.  The sender    *)
(* packs its NAL units into a fixed sequence of packets; the network       *)
(* loses, repeats and reorders them; when the listener ends it calls       *)
(* finish (src/application/listen.cpp).  The history knows which packets   *)
(* the analyzer accepted and which NAL units came out of it.               *)
(***************************************************************************)
EXTENDS H264RtpStreamAnalyzer

CONSTANTS
    Nals,          \* the NAL units of the sender, all different
    Script,        \* its packets: [timestamp, marker, payload, carries], where
                   \* carries is the set of the NAL units in the payload
    MaxJump,       \* the network loses fewer than MaxJump packets in a row
    MaxDisplacement, \* how much later than its successors a packet may arrive
    FirstNumbers   \* sequence numbers the sender may start with

(* The SSRC of the sender, whose stream is the one that is analyzed.       *)
SenderSsrc == CHOOSE ssrc \in Ssrcs : TRUE

ASSUME NetworkAssumption ==
    /\ Ssrcs # {} /\ ConfiguredSsrc \in {None, SenderSsrc}
    /\ MaxJump \in 1..(HalfSequenceSpace - 1)
    /\ MaxDisplacement \in 0..(HalfSequenceSpace - 1)
    /\ FirstNumbers \subseteq SequenceNumber

(* The indices of the packets of each NAL unit.                            *)
PacketsOf ==
    [k \in DOMAIN Nals |-> {index \in DOMAIN Script : k \in Script[index].carries}]

IsSingle(packet) ==
    /\ packet.payload.kind = "single_nal_unit"
    /\ \E k \in DOMAIN Nals : packet.carries = {k} /\ packet.payload.nal = Nals[k]

IsAggregation(packet) ==
    /\ packet.payload.kind = "stap_a"
    /\ \E first, last \in DOMAIN Nals :
         /\ first <= last
         /\ packet.carries = first..last
         /\ packet.payload.units = SubSeq(Nals, first, last)

(* Packets first to last are the fragments of a NAL unit; the first        *)
(* offsets[i] bytes of it have been sent when packet i has been sent.      *)
AreFragments(k, first, last, offsets) ==
    /\ first < last
    /\ offsets[first - 1] = 0 /\ offsets[last] = Len(Nals[k].bytes)
    /\ \A i \in first..last :
         /\ offsets[i - 1] <= offsets[i]
         /\ Script[i].carries = {k}
         /\ Script[i].timestamp = Script[first].timestamp
         /\ Script[i].marker => i = last
         /\ LET fragment == Script[i].payload
            IN  /\ fragment.kind = "fu_a" /\ fragment.well_formed
                /\ fragment.start <=> i = first
                /\ fragment.end <=> i = last
                /\ fragment.nal_ref_idc = Nals[k].nal_ref_idc
                /\ fragment.nal_unit_type = Nals[k].nal_unit_type
                /\ fragment.bytes
                     = SubSeq(Nals[k].bytes, offsets[i - 1] + 1, offsets[i])

IsFragmented(k) ==
    /\ Len(Nals[k].bytes) < MaxNalUnitSize
    /\ \E first, last \in DOMAIN Script :
         /\ PacketsOf[k] = first..last
         /\ \E offsets \in [(first - 1)..last -> 0..Len(Nals[k].bytes)] :
              AreFragments(k, first, last, offsets)

IsSequence(s) == s \in Seq({s[i] : i \in DOMAIN s})

(* The sender follows RFC 6184: its packets carry all NAL units, in their  *)
(* order, alone, several together, or one in fragments.                    *)
ASSUME ScriptAssumption ==
    /\ IsSequence(Nals) /\ IsSequence(Script)
    /\ \A k \in DOMAIN Nals :
         /\ Nals[k] = NalUnit(Nals[k].nal_unit_type, Nals[k].nal_ref_idc, Nals[k].bytes)
         /\ IsSequence(Nals[k].bytes)
         /\ PacketsOf[k] # {}
         /\ \A l \in DOMAIN Nals : Nals[k] = Nals[l] => k = l
    /\ \A index \in DOMAIN Script :
         /\ Script[index].timestamp \in Timestamps
         /\ Script[index].carries \subseteq DOMAIN Nals
         /\ \/ IsSingle(Script[index])
            \/ IsAggregation(Script[index])
            \/ \E k \in Script[index].carries : IsFragmented(k)
    /\ \A i, j \in DOMAIN Script :
         i < j => \A k \in Script[i].carries, l \in Script[j].carries :
                    k < l \/ (k = l /\ IsFragmented(k))

VARIABLES
    first_number,  \* chosen by the sender
    newest,        \* index of the newest packet that arrived, None before
    accepted,      \* indices of the packets the RTP layer accepted
    received_nals, \* all NAL units returned so far
    ended          \* the listener has stopped and called finish

h264DeliveryVars == <<rtpVars, h264Vars, first_number, newest, accepted,
                      received_nals, ended>>

Sent(index) ==
    [payload_type |-> ConfiguredPayloadType,
     ssrc |-> SenderSsrc,
     sequence_number |-> (first_number + index) % SequenceModulus,
     timestamp |-> Script[index].timestamp,
     marker |-> Script[index].marker,
     payload |-> Script[index].payload]

DeliveryInit ==
    /\ H264Init
    /\ first_number \in FirstNumbers
    /\ newest = None
    /\ accepted = {}
    /\ received_nals = <<>>
    /\ ended = FALSE

Deliver(index) ==
    /\ ~ ended
    /\ newest # None => index \in (newest - MaxDisplacement)..(newest + MaxJump)
    /\ ArrivesAt(clock)
    /\ Push(Sent(index), clock)
    /\ newest' = IF index > newest THEN index ELSE newest
    /\ accepted' = IF disposition' = "accepted" THEN accepted \cup {index}
                                                 ELSE accepted
    /\ received_nals' = received_nals \o output'
    /\ UNCHANGED <<first_number, ended>>

End ==
    /\ ~ ended
    /\ ended' = TRUE
    /\ \/ Finish
       \/ /\ active = Nothing
          /\ UNCHANGED <<rtpVars, h264Vars>>
    /\ UNCHANGED <<first_number, newest, accepted, received_nals>>

DeliveryNext == End \/ \E index \in DOMAIN Script : Deliver(index)

DeliverySpec == DeliveryInit /\ [][DeliveryNext]_h264DeliveryVars

-----------------------------------------------------------------------------
FragmentedNals ==
    {k \in DOMAIN Nals :
       \E index \in PacketsOf[k] : Script[index].payload.kind = "fu_a"}

FirstPacketOf ==
    [k \in DOMAIN Nals |->
       CHOOSE first \in PacketsOf[k] : \A index \in PacketsOf[k] : first <= index]

IsReceived(k) == \E i \in DOMAIN received_nals : received_nals[i] = Nals[k]

(* The NAL unit that is being collected is k.                              *)
IsOpen(k) ==
    /\ active # Nothing
    /\ newest \in PacketsOf[k]
    /\ active.start_sequence_number
         = (first_number + FirstPacketOf[k]) % SequenceModulus

(* What comes out is a subsequence of what the sender sent: every NAL unit *)
(* is one of the sender's, whole and unmixed, none comes twice, and their  *)
(* order is the sender's, whatever the network loses, repeats or reorders. *)
WholeNalsInOrder ==
    /\ \A i \in DOMAIN received_nals : \E k \in DOMAIN Nals : received_nals[i] = Nals[k]
    /\ \A j \in DOMAIN received_nals, l \in DOMAIN Nals : received_nals[j] = Nals[l] =>
         \A i \in DOMAIN received_nals, k \in DOMAIN Nals :
           i < j /\ received_nals[i] = Nals[k] => k < l

(* No NAL unit is given up without need: it comes out exactly when the RTP *)
(* layer accepted all of its packets.                                      *)
ReceivedIffAccepted ==
    \A k \in DOMAIN Nals : IsReceived(k) <=> PacketsOf[k] \subseteq accepted

(* The incomplete NAL units of the report are real and each counts once:   *)
(* those whose start fragment was accepted but that did not come out.      *)
IncompleteIsTruth ==
    LET Broken(k) == /\ k \in FragmentedNals
                     /\ FirstPacketOf[k] \in accepted
                     /\ ~ IsReceived(k) /\ ~ IsOpen(k)
        broken == {k \in DOMAIN Nals : Broken(k)}
    IN  /\ h264_statistics.incomplete_fu_a_nal_units = Cardinality(broken)
        /\ h264_statistics.incomplete_idr_nal_units
             = Cardinality({k \in broken : IsIdr(Nals[k])})
=============================================================================
