------------------------ MODULE H264RtpStreamAnalyzer ------------------------
(***************************************************************************)
(* Class H264RtpStreamAnalyzer (src/core/h264_rtp_stream_analyzer.cpp):    *)
(* every datagram goes through RtpStreamAnalyzer first; the payload of an  *)
(* accepted packet is dispatched to single NAL, STAP-A or FU-A handling.   *)
(* Complete NAL units are returned and handed to the stream model, which   *)
(* is represented here by the units it is handed (output).                 *)
(***************************************************************************)
EXTENDS RtpStreamAnalyzer, Sequences

CONSTANTS
    MaxNalUnitSize,   \* config.max_nal_unit_size
    SizeModulus,      \* values of size_t
    H264Packets       \* the packets that may arrive

INSTANCE H264Rtp

(* What the parsers of the RTP and the payload layer make of a datagram.   *)
IsH264Packet(packet) ==
    /\ packet.payload_type \in PayloadTypes
    /\ packet.ssrc \in Ssrcs
    /\ packet.sequence_number \in SequenceNumber
    /\ packet.timestamp \in Timestamps
    /\ packet.payload.kind \in PayloadKind
    /\ packet.payload.kind = "stap_a" =>
         packet.payload.units \in
           Seq({packet.payload.units[i] : i \in DOMAIN packet.payload.units})

ASSUME H264Assumption ==
    /\ SizeModulus \in Nat
    /\ MaxNalUnitSize \in 0..(SizeModulus - 1)
    /\ \A packet \in H264Packets : IsH264Packet(packet)

H264RtpStreamStatistics ==
    [single_nal_packets : Nat, stap_a_packets : Nat, fu_a_packets : Nat,
     completed_nal_units : Nat, completed_idr_nal_units : Nat,
     incomplete_fu_a_nal_units : Nat, incomplete_idr_nal_units : Nat]

H264DiagnosticCode ==
    {"H264_RTP_INVALID_PAYLOAD", "H264_STAP_A_INVALID",
     "H264_STAP_A_NRI_MISMATCH", "H264_FU_A_MISSING_START",
     "H264_FU_A_SEQUENCE_GAP", "H264_FU_A_INTERRUPTED",
     "H264_FU_A_CONTEXT_CHANGED", "H264_FU_A_INCOMPLETE",
     "H264_IDR_INCOMPLETE"}

VARIABLES
    active,            \* fu_a_reassembler_
    h264_statistics,   \* statistics_
    h264_diagnostics,  \* how many diagnostics of each code this class adds
    output,            \* the NAL units the last push returned
    fu                 \* history: FU-A NAL units opened and completed

rtpVars == vars
h264Vars == <<active, h264_statistics, h264_diagnostics, output, fu>>

H264Init ==
    /\ Init
    /\ active = Nothing
    /\ h264_statistics = [single_nal_packets |-> 0,
                          stap_a_packets |-> 0,
                          fu_a_packets |-> 0,
                          completed_nal_units |-> 0,
                          completed_idr_nal_units |-> 0,
                          incomplete_fu_a_nal_units |-> 0,
                          incomplete_idr_nal_units |-> 0]
    /\ h264_diagnostics = [code \in H264DiagnosticCode |-> 0]
    /\ output = <<>>
    /\ fu = [opened |-> 0, opened_idr |-> 0, completed |-> 0, completed_idr |-> 0]

-----------------------------------------------------------------------------
(* Why a NAL unit under reassembly is given up, or a packet ignored.       *)

NoCode == "none"

One(condition) == IF condition THEN 1 ELSE 0

IsIdr(nal) == nal # Nothing /\ nal.nal_unit_type = 5

IsFuA(packet) == packet.payload.kind = "fu_a"

(* Mutations: a gap that goes unnoticed, and a continuation without a      *)
(* start that is not reported.                                             *)
NoBreak(packet) == FALSE

FragmentRejectionSilent(packet) ==
    IF ~ FragmentIsValid(packet) \/ (packet.payload.start /\ ~ StartFits(packet))
    THEN "H264_RTP_INVALID_PAYLOAD" ELSE NoCode

BreaksSequence(packet) == packet.sequence_number # active.expected_sequence_number

(* Anything but a valid continuation ends the active NAL unit.             *)
Interrupts(packet) ==
    \/ ~ IsFuA(packet)
    \/ ~ FragmentIsValid(packet)
    \/ packet.payload.start

(* The active NAL unit is discarded for the first reason that applies.     *)
FuFailure(packet) ==
    IF active = Nothing THEN NoCode
    ELSE IF BreaksSequence(packet) THEN "H264_FU_A_SEQUENCE_GAP"
    ELSE IF Interrupts(packet) THEN "H264_FU_A_INTERRUPTED"
    ELSE IF ~ SameContext(active, packet) THEN "H264_FU_A_CONTEXT_CHANGED"
    ELSE IF ~ ContinuationFits(active, packet) THEN "H264_RTP_INVALID_PAYLOAD"
    ELSE NoCode

(* What the payload handler meets after that.                              *)
Remaining(packet) == IF FuFailure(packet) = NoCode THEN active ELSE Nothing

(* A continuation without a start is not reported again when its NAL unit  *)
(* was discarded by this very packet.                                      *)
FragmentRejection(packet) ==
    IF ~ FragmentIsValid(packet) \/ (packet.payload.start /\ ~ StartFits(packet))
    THEN "H264_RTP_INVALID_PAYLOAD"
    ELSE IF ~ packet.payload.start /\ active = Nothing
         THEN "H264_FU_A_MISSING_START" ELSE NoCode

(* The payload itself is ignored.                                          *)
Rejection(packet) ==
    CASE packet.payload.kind \in {"invalid", "unsupported"} -> "H264_RTP_INVALID_PAYLOAD"
      [] packet.payload.kind = "single_nal_unit" -> NoCode
      [] packet.payload.kind = "stap_a" ->
           IF StapAIsValid(packet.payload) THEN NoCode ELSE "H264_STAP_A_INVALID"
      [] packet.payload.kind = "fu_a" -> FragmentRejection(packet)

(* The STAP-A is valid but announces the wrong priority.                   *)
NriMismatch(packet) ==
    /\ packet.payload.kind = "stap_a"
    /\ StapAIsValid(packet.payload)
    /\ packet.payload.nal_ref_idc # MaximumNalRefIdc(packet.payload.units)

(* Mutation: no impact diagnostic for IDR NAL units.                       *)
EmittedWithoutIdr(packet) == {FuFailure(packet), Rejection(packet)} \ {NoCode}

(* The diagnostics of one push; no code occurs twice.                      *)
Emitted(packet) ==
    ({FuFailure(packet), Rejection(packet)} \ {NoCode})
    \cup {code \in {"H264_IDR_INCOMPLETE"} :
            FuFailure(packet) # NoCode /\ IsIdr(active)}
    \cup {code \in {"H264_STAP_A_NRI_MISMATCH"} : NriMismatch(packet)}

-----------------------------------------------------------------------------
(* push of a packet that the RTP layer accepted                            *)

(* What the reassembler does with a packet that was not rejected.          *)
Reassembly(packet) ==
    IF /\ IsFuA(packet)
       /\ Rejection(packet) = NoCode
       /\ packet.payload.start \/ Remaining(packet) # Nothing
    THEN Reassemble(Remaining(packet), packet)
    ELSE Step("none", Remaining(packet), Nothing)

(* The NAL units a packet completes, in order.                             *)
Completed(packet) ==
    LET payload == packet.payload
    IN  CASE Rejection(packet) # NoCode -> <<>>
          [] Rejection(packet) = NoCode /\ payload.kind = "single_nal_unit" -> <<payload.nal>>
          [] Rejection(packet) = NoCode /\ payload.kind = "stap_a" -> payload.units
          [] Rejection(packet) = NoCode /\ payload.kind = "fu_a" ->
               IF Reassembly(packet).nal # Nothing
               THEN <<Reassembly(packet).nal>> ELSE <<>>

IdrCount(nals) == Cardinality({i \in DOMAIN nals : IsIdr(nals[i])})

Analyze(packet) ==
    LET failed == FuFailure(packet) # NoCode
        step == Reassembly(packet)
        opens == step.outcome = "pending" /\ packet.payload.start
        completes == step.outcome = "completed"
        nals == Completed(packet)
        emitted == Emitted(packet)
    IN  /\ active' = step.active
        /\ h264_statistics' =
             [h264_statistics EXCEPT
                !.single_nal_packets = @ + One(packet.payload.kind = "single_nal_unit"),
                !.stap_a_packets = @ + One(packet.payload.kind = "stap_a"),
                !.fu_a_packets = @ + One(IsFuA(packet)),
                !.completed_nal_units = @ + Len(nals),
                !.completed_idr_nal_units = @ + IdrCount(nals),
                !.incomplete_fu_a_nal_units = @ + One(failed),
                !.incomplete_idr_nal_units = @ + One(failed /\ IsIdr(active))]
        /\ h264_diagnostics' = [code \in H264DiagnosticCode |->
                                  h264_diagnostics[code] + One(code \in emitted)]
        /\ output' = nals
        /\ fu' = [opened |-> fu.opened + One(opens),
                  opened_idr |-> fu.opened_idr + One(opens /\ packet.payload.nal_unit_type = 5),
                  completed |-> fu.completed + One(completes),
                  completed_idr |-> fu.completed_idr + One(completes /\ IsIdr(active))]

(* A datagram the RTP layer did not accept goes no further.                *)
Skip ==
    /\ output' = <<>>
    /\ UNCHANGED <<active, h264_statistics, h264_diagnostics, fu>>

(* What RtpStreamAnalyzer reads of a packet.                               *)
RtpHeader(packet) ==
    [payload_type |-> packet.payload_type, ssrc |-> packet.ssrc,
     sequence_number |-> packet.sequence_number, timestamp |-> packet.timestamp]

(* Mutation: late packets go on to the reassembler.                        *)
PushForwardingLate(packet, arrival_time) ==
    /\ PushPacket(RtpHeader(packet), arrival_time)
    /\ IF disposition' \in {"accepted", "out_of_order"} THEN Analyze(packet) ELSE Skip

Push(packet, arrival_time) ==
    /\ PushPacket(RtpHeader(packet), arrival_time)
    /\ IF disposition' = "accepted" THEN Analyze(packet) ELSE Skip

(* Mutation: finish resets the reassembler without a record.               *)
FinishSilently ==
    /\ active # Nothing
    /\ active' = Nothing
    /\ output' = <<>>
    /\ UNCHANGED <<rtpVars, h264_statistics, h264_diagnostics, fu>>

(* finish: idempotent.                                                     *)
Finish ==
    /\ active # Nothing
    /\ active' = Nothing
    /\ h264_statistics' =
         [h264_statistics EXCEPT
            !.incomplete_fu_a_nal_units = @ + 1,
            !.incomplete_idr_nal_units = @ + One(IsIdr(active))]
    /\ h264_diagnostics' =
         [h264_diagnostics EXCEPT
            !["H264_FU_A_INCOMPLETE"] = @ + 1,
            !["H264_IDR_INCOMPLETE"] = @ + One(IsIdr(active))]
    /\ output' = <<>>
    /\ UNCHANGED <<rtpVars, fu>>

H264Next ==
    \/ \E delta \in ArrivalDeltas :
         /\ ArrivesAt(clock + delta)
         /\ \/ PushInvalid /\ Skip
            \/ \E packet \in H264Packets : Push(packet, clock + delta)
    \/ Finish

H264Spec == H264Init /\ [][H264Next]_<<rtpVars, h264Vars>>

-----------------------------------------------------------------------------
H264TypeOK ==
    /\ TypeOK
    /\ active # Nothing => active.expected_sequence_number \in SequenceNumber
    /\ h264_statistics \in H264RtpStreamStatistics
    /\ h264_diagnostics \in [H264DiagnosticCode -> Nat]
    /\ fu \in [opened : Nat, opened_idr : Nat, completed : Nat, completed_idr : Nat]

(* Every NAL unit that a start fragment opened is completed, reported as   *)
(* incomplete, or still being collected; and the same for IDR NAL units.   *)
(* Nothing is dropped or reported twice on any way out of push or finish.  *)
FuAccounting ==
    /\ fu.opened = fu.completed + h264_statistics.incomplete_fu_a_nal_units
                     + One(active # Nothing)
    /\ fu.opened_idr = fu.completed_idr + h264_statistics.incomplete_idr_nal_units
                         + One(IsIdr(active))

(* Every incomplete NAL unit has a diagnostic of its own that says why     *)
(* (one for an oversized fragment shares its code with ignored payloads),  *)
(* and exactly the incomplete IDR NAL units have the impact diagnostic.    *)
FailuresAreDiagnosed ==
    LET reasons == h264_diagnostics["H264_FU_A_SEQUENCE_GAP"]
                   + h264_diagnostics["H264_FU_A_INTERRUPTED"]
                   + h264_diagnostics["H264_FU_A_CONTEXT_CHANGED"]
                   + h264_diagnostics["H264_FU_A_INCOMPLETE"]
        failures == h264_statistics.incomplete_fu_a_nal_units
    IN  /\ reasons <= failures
        /\ failures <= reasons + h264_diagnostics["H264_RTP_INVALID_PAYLOAD"]
        /\ h264_diagnostics["H264_IDR_INCOMPLETE"]
             = h264_statistics.incomplete_idr_nal_units

(* Two layers keep a sequence number each.  The one the reassembler waits  *)
(* for is always the successor of the highest one the RTP layer accepted,  *)
(* in the SSRC and payload type the RTP layer analyzes: duplicates, late   *)
(* packets and foreign packets cannot make them disagree.                  *)
ActiveFollowsHighest ==
    active # Nothing =>
      /\ Started
      /\ active.expected_sequence_number = NextSequenceNumber(HighestRaw)
      /\ active.ssrc = statistics.ssrc
      /\ active.payload_type = ConfiguredPayloadType

(* docs/report-contract.md:97 - the FU-A gap says that a transport gap has *)
(* destroyed the NAL unit being collected: it never comes without the RTP  *)
(* gap of the same push, and an RTP gap always ends the active NAL unit.   *)
FuGapIsRtpGap ==
    [][LET rtp_gap == diagnostics'["RTP_SEQUENCE_GAP"] # diagnostics["RTP_SEQUENCE_GAP"]
           fu_gap == h264_diagnostics'["H264_FU_A_SEQUENCE_GAP"]
                       # h264_diagnostics["H264_FU_A_SEQUENCE_GAP"]
       IN  fu_gap <=> (rtp_gap /\ active # Nothing)]_<<rtpVars, h264Vars>>

(* An accepted packet leaves a trace: it completes NAL units, or becomes   *)
(* part of the active one, or some diagnostic of this class tells of it.   *)
NoSilentDrop ==
    [][clock' # clock \/ statistics' # statistics =>
         \/ disposition' # "accepted"
         \/ output' # <<>>
         \/ /\ active' # Nothing
            /\ active'.expected_sequence_number
                 = NextSequenceNumber(statistics'.last_sequence_number)
         \/ h264_diagnostics' # h264_diagnostics]_<<rtpVars, h264Vars>>
=============================================================================
