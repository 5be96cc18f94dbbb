-------------------------- MODULE H264FuAReassembler --------------------------
(***************************************************************************)
(* Class H264FuAReassembler on its own: any FU-A packets in any order, as  *)
(* its public interface allows (include/.../h264_rtp.hpp).  The stream     *)
(* analyzer, which only hands it packets it has already checked, is module *)
(* H264RtpStreamAnalyzer.                                                  *)
(***************************************************************************)
EXTENDS H264Rtp

CONSTANTS
    Packets,     \* the packets that may be pushed
    Bytes,       \* what their fragments are made of
    MaxRun       \* bound: fragments of one NAL unit

ASSUME ReassemblerAssumption ==
    /\ SequenceModulus \in Nat /\ SequenceModulus >= 2
    /\ MaxNalUnitSize \in 0..(SizeModulus - 1)
    /\ SizeModulus \in Nat
    /\ MaxRun \in Nat
    /\ \A packet \in Packets : packet.payload.bytes \in Seq(Bytes)

VARIABLES
    active,    \* active_
    outcome,   \* of the last push
    nal,       \* the NAL unit the last push returned
    run        \* history: the packets collected since the last start fragment

vars == <<active, outcome, nal, run>>

Init ==
    /\ active = Nothing
    /\ outcome = "none"
    /\ nal = Nothing
    /\ run = <<>>

Push(packet) ==
    LET step == Reassemble(active, packet)
    IN  /\ Len(run) < MaxRun \/ packet.payload.start
        /\ active' = step.active
        /\ outcome' = step.outcome
        /\ nal' = step.nal
        /\ run' = IF step.outcome = "error" THEN <<>>
                  ELSE IF packet.payload.start THEN <<packet>>
                  ELSE Append(run, packet)

Reset ==
    /\ active' = Nothing
    /\ outcome' = "none"
    /\ nal' = Nothing
    /\ run' = <<>>

Next == Reset \/ \E packet \in Packets : Push(packet)

Spec == Init /\ [][Next]_vars

-----------------------------------------------------------------------------
(* The bytes of a run of fragments, in order.                              *)
Collected(packets) ==
    LET bytes[i \in 0..Len(packets)] ==
          IF i = 0 THEN <<>> ELSE bytes[i - 1] \o packets[i].payload.bytes
    IN  bytes[Len(packets)]

(* A run that a correct sender could have produced for one NAL unit, up to *)
(* the given number of fragments.                                          *)
IsOneNalUnit(packets) ==
    /\ packets # <<>>
    /\ packets[1].payload.start
    /\ \A i \in DOMAIN packets :
         /\ SameContext(Opened(packets[1]), packets[i])
         /\ packets[i].payload.start => i = 1
         /\ packets[i].payload.end => i = Len(packets)
         /\ packets[i].marker => i = Len(packets)
         /\ i > 1 => packets[i].sequence_number
                       = NextSequenceNumber(packets[i - 1].sequence_number)

(* The NAL unit under reassembly is always the fragments since the last    *)
(* start fragment, contiguous, of one context, none lost, repeated or      *)
(* taken from another NAL unit; and it never exceeds the size limit, so    *)
(* that the unsigned "room left" never wraps.                              *)
ActiveIsOneRun ==
    active # Nothing =>
      /\ IsOneNalUnit(run)
      /\ \A i \in DOMAIN run : ~ run[i].payload.end
      /\ active.bytes = Collected(run)
      /\ active.start_sequence_number = run[1].sequence_number
      /\ active.expected_sequence_number
           = NextSequenceNumber(run[Len(run)].sequence_number)
      /\ Size(active) <= MaxNalUnitSize

(* A returned NAL unit is one whole run from a start to an end fragment.   *)
CompletedIsOneRun ==
    nal # Nothing =>
      /\ outcome = "completed"
      /\ IsOneNalUnit(run)
      /\ run[Len(run)].payload.end
      /\ nal = NalUnit(run[1].payload.nal_unit_type, run[1].payload.nal_ref_idc,
                       Collected(run))
      /\ Len(nal.bytes) < MaxNalUnitSize
=============================================================================
