----------------------------- MODULE H264Session -----------------------------
(***************************************************************************)
(* A whole session of the listener: the sender and the network of          *)
(* H264Delivery, H264RtpStreamAnalyzer with the H264StreamModel it owns,   *)
(* and the status of the report that is made of both                       *)
(* (src/application/rtp_analysis.cpp).  Datagrams that are not RTP, or     *)
(* belong to another payload type, come in between.                        *)
(*                                                                         *)
(* One push of the analyzer is one Receive, which leaves the NAL units it  *)
(* completed in queue, and one AppendCompleteNal for each of them; nothing *)
(* else happens in between.                                                *)
(***************************************************************************)
EXTENDS H264Delivery, SequencesExt

CONSTANTS
    Contents,     \* Contents[k] is Nals[k] as H264StreamModel reads it
    Foreign,      \* a packet of another payload type
    MaxStrays     \* bound: datagrams that are not the sender's

VARIABLES
    queue,        \* NAL units append_complete_nal still has to hand over
    came,         \* history: indices of the packets that arrived
    strays,       \* history: the datagrams in between, by what they are
    sps, pps, assembler, nal_units, slices,  \* stream_model_
    sequence_parameter_sets, picture_parameter_sets, access_units, gop,
    stream_diagnostics, finished, pushed

ASSUME SessionAssumption ==
    /\ DOMAIN Contents = DOMAIN Nals
    /\ IsH264Packet(Foreign)
    /\ Foreign.payload_type # ConfiguredPayloadType
    /\ MaxStrays \in Nat

Stream == INSTANCE H264StreamModel WITH
    SpsIds <- {0}, PpsIds <- {0}, NalUnits <- Range(Contents),
    MaxNalUnits <- Len(Nals), diagnostics <- stream_diagnostics

streamVars == <<sps, pps, assembler, nal_units, slices, sequence_parameter_sets,
                picture_parameter_sets, access_units, gop, stream_diagnostics,
                finished, pushed>>

sessionVars == <<h264DeliveryVars, streamVars, queue, came, strays>>

SessionInit ==
    /\ DeliveryInit
    /\ Stream!Init
    /\ queue = <<>>
    /\ came = {}
    /\ strays = [invalid |-> 0, foreign |-> 0]

Receive(index) ==
    /\ queue = <<>>
    /\ Deliver(index)
    /\ queue' = output'
    /\ came' = came \cup {index}
    /\ UNCHANGED <<streamVars, strays>>

(* A datagram that is not RTP, or an RTP packet of another payload type.   *)
ReceiveStray ==
    /\ queue = <<>> /\ ~ ended
    /\ strays.invalid + strays.foreign < MaxStrays
    /\ ArrivesAt(clock)
    /\ \/ /\ PushInvalid /\ Skip
          /\ strays' = [strays EXCEPT !.invalid = @ + 1]
       \/ /\ Push(Foreign, clock)
          /\ strays' = [strays EXCEPT !.foreign = @ + 1]
    /\ UNCHANGED <<first_number, newest, accepted, received_nals, ended,
                   streamVars, queue, came>>

(* append_complete_nal: the next NAL unit goes to the stream model.        *)
AppendCompleteNal ==
    /\ queue # <<>>
    /\ Stream!Push(Contents[CHOOSE k \in DOMAIN Nals : Nals[k] = Head(queue)])
    /\ queue' = Tail(queue)
    /\ UNCHANGED <<h264DeliveryVars, came, strays>>

(* finish of the analyzer, which finishes the stream model, too.           *)
Stop ==
    /\ queue = <<>>
    /\ End
    /\ Stream!Finish
    /\ UNCHANGED <<queue, came, strays>>

SessionNext ==
    ReceiveStray \/ AppendCompleteNal \/ Stop \/ \E index \in DOMAIN Script : Receive(index)

SessionSpec == SessionInit /\ [][SessionNext]_sessionVars

-----------------------------------------------------------------------------
(* make_rtp_analysis_report                                                *)

(* The codes that come with severity error, besides those of stream_model_ *)
ErrorCodes == {"RTP_INVALID_PACKET", "RTP_SEQUENCE_GAP"}

H264ErrorCodes == H264DiagnosticCode \ {"H264_STAP_A_NRI_MISMATCH"}

HasError ==
    \/ \E code \in ErrorCodes : diagnostics[code] # 0
    \/ \E code \in H264ErrorCodes : h264_diagnostics[code] # 0
    \/ stream_diagnostics # <<>>

(* Mutation: late packets do not count.                                    *)
ReportStatusOfErrors == IF HasError THEN "partial" ELSE "complete"

ReportStatus ==
    IF HasError \/ statistics.out_of_order_packets # 0 THEN "partial" ELSE "complete"

-----------------------------------------------------------------------------
IsSlice(k) == Nals[k].nal_unit_type \in {1, 5}

IsSequenceSet(k) == Nals[k].nal_unit_type = 7

IsPictureSet(k) == Nals[k].nal_unit_type = 8

(* The sender's NAL units that came out.                                   *)
Reassembled == {k \in DOMAIN Nals : IsReceived(k)}

(* Is NAL unit k among nals preceded by the parameter sets it is read with?*)
HasSequenceSet(nals, k) == \E set \in nals : set < k /\ IsSequenceSet(set)

HasPictureSet(nals, k) ==
    \E set \in nals : set < k /\ IsPictureSet(set) /\ HasSequenceSet(nals, set)

IsDecodable(nals, k) ==
    /\ IsPictureSet(k) => HasSequenceSet(nals, k)
    /\ IsSlice(k) => HasPictureSet(nals, k)

(* The slices the stream model could read.                                 *)
Readable == {k \in Reassembled : IsSlice(k) /\ IsDecodable(Reassembled, k)}

(* What can be read in the sender's PPS with its SPS.                      *)
PictureSets ==
    UNION {{Contents[k].read[Contents[set].sps.chroma] :
              set \in {other \in DOMAIN Nals : IsSequenceSet(other)}} :
           k \in {other \in DOMAIN Nals : IsPictureSet(other)}}

(* The sender is an encoder: its NAL units are well formed, the SPS stays  *)
(* the same when it is sent again, and every slice can be read with every  *)
(* PPS.                                                                    *)
ASSUME ContentsAssumption ==
    /\ \A k \in DOMAIN Nals :
         /\ Contents[k].type = Nals[k].nal_unit_type
         /\ Contents[k].type \in 0..31
         /\ IsPictureSet(k) => Contents[k].ids = [pps_id |-> 0, sps_id |-> 0]
         /\ IsSlice(k) => Contents[k].pps_id = 0
         /\ \A set \in {other \in DOMAIN Nals : IsSequenceSet(other)} :
              LET parameters == Contents[set].sps
              IN  /\ parameters \notin {Nothing, Malformed} /\ parameters.id = 0
                  /\ IsSequenceSet(k) => Contents[k].sps = parameters
                  /\ IsSlice(k) =>
                       \A picture \in PictureSets :
                         Contents[k].read[parameters.format, picture.format] \notin
                           {Malformed, Stream!SyntaxInvalid, Stream!NotFound}
    /\ \A picture \in PictureSets :
         /\ picture \notin {Nothing, Malformed, Stream!SyntaxInvalid, Stream!NotFound}
         /\ picture.id = 0 /\ picture.sps_id = 0

(* docs/report-contract.md:127 - a complete report has used all its input, *)
(* and a partial one has not: some packet of the stream was lost or came   *)
(* too late to be used, a NAL unit was cut off by loss or by the ends of   *)
(* the session, a slice or a PPS came without the parameter sets it is     *)
(* read with, or a datagram was not RTP at all.  Repeated packets, packets *)
(* of others and a wrong priority in a STAP-A make no report partial.  The *)
(* status is derived from diagnostics of four classes and a counter, none  *)
(* of which knows the others.                                              *)
ReportStatusIsTruth ==
    ended =>
      LET touched == {k \in DOMAIN Nals : PacketsOf[k] \cap came # {}}
          whole == /\ strays.invalid = 0
                   /\ accepted = came
                   /\ \A index \in came : index..newest \subseteq came
                   /\ touched \subseteq Reassembled
                   /\ \A k \in touched : IsDecodable(Reassembled, k)
      IN  ReportStatus = (IF whole THEN "complete" ELSE "partial")

(* The access units of the report are the sender's pictures, which all     *)
(* packets of a picture name by their RTP timestamp: the slices that the   *)
(* stream model could read, grouped by picture, in the order they were     *)
(* sent.  No loss, repetition or reordering merges two pictures or splits  *)
(* one, though the stream model sees no timestamps and no gaps.            *)
PicturesAreReported ==
    queue = <<>> =>
      LET TimestampOf(k) == Script[FirstPacketOf[k]].timestamp
          SliceAt(nal_index) ==
            CHOOSE k \in DOMAIN Nals : Nals[k] = received_nals[nal_index + 1]
          reported ==
            [i \in DOMAIN Stream!Pictures |->
               {SliceAt(index) : index \in ToSet(Stream!Pictures[i].vcl_nal_indices)}]
          timestamps == {TimestampOf(k) : k \in Readable}
      IN  reported = [i \in 1..Cardinality(timestamps) |->
                        LET timestamp == SetToSortSeq(timestamps, <)[i]
                        IN  {k \in Readable : TimestampOf(k) = timestamp}]
=============================================================================
