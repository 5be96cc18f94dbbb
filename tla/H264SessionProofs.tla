-------------------------- MODULE H264SessionProofs --------------------------
(***************************************************************************)
(* Proofs about H264RtpStreamAnalyzer for all datagrams: its two layers    *)
(* agree.  And about H264Delivery and H264Session for every stream of NAL  *)
(* units, every way of packing them that RFC 6184 allows, and every loss,  *)
(* repetition and reordering below half the number space: what comes out   *)
(* is what was sent, whole, in order, and no less than can be.             *)
(***************************************************************************)
EXTENDS H264Session, RtpStreamAnalyzerProofs

-----------------------------------------------------------------------------
(* What the RTP analyzer and the reassembler owe each other.               *)

(* The NAL unit under reassembly is a record with all of its fields.       *)
IsActive(nal) ==
  nal \in [kind : {"active"},
           nal_unit_type : {nal.nal_unit_type},
           nal_ref_idc : {nal.nal_ref_idc},
           bytes : {nal.bytes},
           start_sequence_number : {nal.start_sequence_number},
           expected_sequence_number : {nal.expected_sequence_number},
           timestamp : {nal.timestamp},
           ssrc : {nal.ssrc},
           payload_type : {nal.payload_type}]

ActiveShape == active # Nothing => IsActive(active)

H264Inv ==
  /\ IInv
  /\ SsrcIsKnown
  /\ H264TypeOK
  /\ ActiveShape
  /\ ActiveFollowsHighest
  /\ FuAccounting
  /\ FailuresAreDiagnosed

-----------------------------------------------------------------------------
(* Facts about packets and NAL units.                                      *)

(* A packet's header is one the RTP layer can read.                        *)
LEMMA HeaderIsPacket ==
  ASSUME NEW packet, IsH264Packet(packet)
  PROVE  /\ RtpHeader(packet) \in RtpPacket
         /\ RtpHeader(packet).sequence_number = packet.sequence_number
         /\ RtpHeader(packet).ssrc = packet.ssrc
         /\ RtpHeader(packet).payload_type = packet.payload_type
         /\ packet.sequence_number \in SequenceNumber
         /\ packet.payload.kind \in PayloadKind
BY DEF IsH264Packet, RtpHeader, RtpPacket

(* The packets that may arrive are packets.                                *)
LEMMA PacketsAreRead == \A packet \in H264Packets : IsH264Packet(packet)
BY H264Assumption DEF H264Assumption

(* The successor of a number is a number of the circle.                    *)
LEMMA NextIsNumber ==
  ASSUME NEW s \in SequenceNumber
  PROVE  NextSequenceNumber(s) \in SequenceNumber
<1>1. s + 1 \in Int
  BY Modulus
<1>2. QED
  BY <1>1, Residue DEF NextSequenceNumber

(* What a start fragment opens is an active NAL unit.                      *)
LEMMA OpenedShape ==
  ASSUME NEW packet
  PROVE  /\ Opened(packet) # Nothing
         /\ IsActive(Opened(packet))
         /\ IsIdr(Opened(packet)) <=> packet.payload.nal_unit_type = 5
         /\ Opened(packet).expected_sequence_number
              = NextSequenceNumber(packet.sequence_number)
         /\ Opened(packet).ssrc = packet.ssrc
         /\ Opened(packet).payload_type = packet.payload_type
BY DEF Opened, Nothing, IsIdr, IsActive

-----------------------------------------------------------------------------
(* What a packet does to the NAL unit under reassembly.                    *)

(* A NAL unit survives a packet only as its next fragment.                 *)
LEMMA SurvivesAsContinuation ==
  ASSUME NEW packet, active # Nothing, FuFailure(packet) = NoCode
  PROVE  /\ ~ BreaksSequence(packet) /\ ~ Interrupts(packet)
         /\ SameContext(active, packet) /\ ContinuationFits(active, packet)
         /\ Remaining(packet) = active
BY DEF FuFailure, NoCode, Remaining

(* The four ways: nothing is left, a NAL unit is opened, the active one    *)
(* grows, or it is complete.                                               *)
LEMMA ReassemblyOutcomes ==
  ASSUME NEW packet, IsH264Packet(packet)
  PROVE  \/ /\ Reassembly(packet) = Step("none", Nothing, Nothing)
            /\ active = Nothing \/ FuFailure(packet) # NoCode
            /\ ~ IsFuA(packet) \/ Rejection(packet) # NoCode
                 \/ FuFailure(packet) # NoCode
         \/ /\ Reassembly(packet) = Step("pending", Opened(packet), Nothing)
            /\ packet.payload.start
            /\ active = Nothing \/ FuFailure(packet) # NoCode
         \/ /\ Reassembly(packet) = Step("pending", Extended(active, packet), Nothing)
            /\ ~ packet.payload.start
            /\ active # Nothing /\ FuFailure(packet) = NoCode
         \/ /\ Reassembly(packet)
                  = Step("completed", Nothing,
                         NalUnit(active.nal_unit_type, active.nal_ref_idc,
                                 Extended(active, packet).bytes))
            /\ ~ packet.payload.start
            /\ active # Nothing /\ FuFailure(packet) = NoCode
            /\ IsFuA(packet) /\ Rejection(packet) = NoCode
<1>1. IsFuA(packet) => Rejection(packet) = FragmentRejection(packet)
  BY DEF IsFuA, Rejection
<1>2. CASE active # Nothing /\ FuFailure(packet) = NoCode
  <2>1. /\ ~ BreaksSequence(packet) /\ ~ Interrupts(packet)
        /\ SameContext(active, packet) /\ ContinuationFits(active, packet)
        /\ Remaining(packet) = active
    BY <1>2, SurvivesAsContinuation
  <2>2. IsFuA(packet) /\ FragmentIsValid(packet) /\ ~ packet.payload.start
    BY <2>1 DEF Interrupts
  <2>3. Rejection(packet) = NoCode
    BY <1>1, <1>2, <2>2 DEF FragmentRejection
  <2>4. Reassembly(packet) = Reassemble(active, packet)
    BY <1>2, <2>1, <2>2, <2>3 DEF Reassembly
  <2>5. Continues(active, packet)
    BY <1>2, <2>1 DEF Continues, BreaksSequence
  <2>6. CASE packet.payload.end
    BY <1>2, <2>2, <2>3, <2>4, <2>5, <2>6 DEF Reassemble
  <2>7. CASE ~ packet.payload.end
    BY <1>2, <2>2, <2>4, <2>5, <2>7 DEF Reassemble
  <2>8. QED
    BY <2>6, <2>7
<1>3. CASE active = Nothing \/ FuFailure(packet) # NoCode
  <2>1. Remaining(packet) = Nothing
    BY <1>3 DEF Remaining
  <2>2. CASE IsFuA(packet) /\ Rejection(packet) = NoCode /\ packet.payload.start
    <3>1. FragmentIsValid(packet) /\ StartFits(packet)
      BY <1>1, <2>2 DEF FragmentRejection, NoCode
    <3>2. Reassembly(packet) = Step("pending", Opened(packet), Nothing)
      BY <2>1, <2>2, <3>1 DEF Reassembly, Reassemble
    <3>3. QED
      BY <1>3, <2>2, <3>2
  <2>3. CASE ~ (IsFuA(packet) /\ Rejection(packet) = NoCode /\ packet.payload.start)
    <3>1. Reassembly(packet) = Step("none", Nothing, Nothing)
      BY <2>1, <2>3 DEF Reassembly
    <3>2. ASSUME IsFuA(packet), Rejection(packet) = NoCode,
                 FuFailure(packet) = NoCode
          PROVE  FALSE
      BY <1>1, <1>3, <2>3, <3>2 DEF FragmentRejection, NoCode
    <3>3. QED
      BY <1>3, <3>1, <3>2
  <2>4. QED
    BY <2>2, <2>3
<1>4. QED
  BY <1>2, <1>3

(* A NAL unit that grows keeps everything but its bytes and the number of  *)
(* the next fragment.                                                      *)
LEMMA ExtendedShape ==
  ASSUME NEW packet, ActiveShape, active # Nothing
  PROVE  /\ Extended(active, packet) # Nothing
         /\ IsActive(Extended(active, packet))
         /\ IsIdr(Extended(active, packet)) <=> IsIdr(active)
         /\ Extended(active, packet).expected_sequence_number
              = NextSequenceNumber(packet.sequence_number)
         /\ Extended(active, packet).ssrc = active.ssrc
         /\ Extended(active, packet).payload_type = active.payload_type
<1>1. IsActive(active)
  BY DEF ActiveShape
<1>2. IsActive(Extended(active, packet)) /\ Extended(active, packet) # Nothing
  BY <1>1 DEF IsActive, Extended, Nothing
<1>3. /\ Extended(active, packet).nal_unit_type = active.nal_unit_type
      /\ Extended(active, packet).ssrc = active.ssrc
      /\ Extended(active, packet).payload_type = active.payload_type
      /\ Extended(active, packet).expected_sequence_number
           = NextSequenceNumber(packet.sequence_number)
  BY <1>1 DEF IsActive, Extended
<1>4. QED
  BY <1>2, <1>3 DEF IsIdr

(* A packet of the stream leaves no NAL unit behind, or one whose next     *)
(* fragment is the next packet, in the packet's own context.               *)
LEMMA AnalyzeActive ==
  ASSUME ActiveShape, NEW packet, IsH264Packet(packet), Analyze(packet)
  PROVE  /\ ActiveShape'
         /\ active' # Nothing =>
              /\ active'.expected_sequence_number
                   = NextSequenceNumber(packet.sequence_number)
              /\ active'.ssrc = packet.ssrc
              /\ active'.payload_type = packet.payload_type
<1>1. active' = Reassembly(packet).active
  BY DEF Analyze
<1>2. CASE active' = Nothing
  BY <1>2 DEF ActiveShape
<1>3. CASE active' = Opened(packet)
  BY <1>3, OpenedShape DEF ActiveShape
<1>4. CASE /\ active' = Extended(active, packet)
           /\ active # Nothing /\ FuFailure(packet) = NoCode
  BY <1>4, ExtendedShape, SurvivesAsContinuation DEF ActiveShape, SameContext
<1>5. QED
  BY <1>1, <1>2, <1>3, <1>4, ReassemblyOutcomes DEF Step

(* A condition counts for zero or one.                                     *)
LEMMA OneType ==
  ASSUME NEW condition
  PROVE  One(condition) \in {0, 1} /\ (One(condition) = 1 <=> condition)
BY DEF One

(* A list has a number of NAL units, and of IDR NAL units among them.      *)
LEMMA CompletedCounts ==
  ASSUME NEW packet, IsH264Packet(packet)
  PROVE  Len(Completed(packet)) \in Nat /\ IdrCount(Completed(packet)) \in Nat
<1> DEFINE nals == Completed(packet)
<1>1. nals \in Seq({nals[i] : i \in DOMAIN nals})
  <2>1. CASE nals = <<>>
    BY <2>1
  <2>2. ASSUME NEW nal, nals = <<nal>>
        PROVE  nals \in Seq({nals[i] : i \in DOMAIN nals})
    BY <2>2
  <2>3. CASE packet.payload.kind = "stap_a" /\ nals = packet.payload.units
    BY <2>3 DEF IsH264Packet
  <2>4. QED
    <3>1. \/ nals = <<>> \/ (\E nal : nals = <<nal>>)
          \/ packet.payload.kind = "stap_a" /\ nals = packet.payload.units
      <4>1. packet.payload.kind \in PayloadKind
        BY HeaderIsPacket
      <4>2. CASE Rejection(packet) # NoCode
        BY <4>2 DEF Completed
      <4>3. CASE Rejection(packet) = NoCode /\ packet.payload.kind = "single_nal_unit"
        BY <4>3 DEF Completed
      <4>4. CASE Rejection(packet) = NoCode /\ packet.payload.kind = "stap_a"
        BY <4>4 DEF Completed
      <4>5. CASE Rejection(packet) = NoCode /\ packet.payload.kind = "fu_a"
        BY <4>5 DEF Completed
      <4>6. CASE packet.payload.kind \in {"invalid", "unsupported"}
        BY <4>2, <4>6 DEF Rejection, NoCode
      <4>7. QED
        BY <4>1, <4>2, <4>3, <4>4, <4>5, <4>6 DEF PayloadKind
    <3>2. QED
      BY <2>1, <2>2, <2>3, <3>1
<1> HIDE DEF nals
<1>2. Len(nals) \in Nat /\ DOMAIN nals = 1..Len(nals)
  BY <1>1
<1>3. IsFiniteSet(DOMAIN nals)
  BY <1>2, FS_Interval
<1>4. IdrCount(nals) \in Nat
  BY <1>3, FS_Subset, FS_CardinalityType DEF IdrCount
<1>5. QED
  BY <1>2, <1>4 DEF nals

(* What push adds to the counters of this class.                           *)
LEMMA AnalyzeCounts ==
  ASSUME H264TypeOK, NEW packet, IsH264Packet(packet), Analyze(packet)
  PROVE  LET failed == FuFailure(packet) # NoCode
             step == Reassembly(packet)
             opens == step.outcome = "pending" /\ packet.payload.start
             completes == step.outcome = "completed"
         IN  /\ h264_statistics' \in H264RtpStreamStatistics
             /\ h264_statistics'.incomplete_fu_a_nal_units
                  = h264_statistics.incomplete_fu_a_nal_units + One(failed)
             /\ h264_statistics'.incomplete_idr_nal_units
                  = h264_statistics.incomplete_idr_nal_units
                      + One(failed /\ IsIdr(active))
             /\ fu' \in [opened : Nat, opened_idr : Nat,
                         completed : Nat, completed_idr : Nat]
             /\ fu'.opened = fu.opened + One(opens)
             /\ fu'.opened_idr = fu.opened_idr
                  + One(opens /\ packet.payload.nal_unit_type = 5)
             /\ fu'.completed = fu.completed + One(completes)
             /\ fu'.completed_idr = fu.completed_idr
                  + One(completes /\ IsIdr(active))
             /\ h264_diagnostics' \in [H264DiagnosticCode -> Nat]
             /\ \A code \in H264DiagnosticCode :
                  h264_diagnostics'[code]
                    = h264_diagnostics[code] + One(code \in Emitted(packet))
<1> DEFINE failed == FuFailure(packet) # NoCode
           step == Reassembly(packet)
           opens == step.outcome = "pending" /\ packet.payload.start
           completes == step.outcome = "completed"
           nals == Completed(packet)
<1>1. \A condition : One(condition) \in Nat
  BY OneType
<1>2. Len(nals) \in Nat /\ IdrCount(nals) \in Nat
  BY CompletedCounts
<1>3. /\ h264_statistics \in H264RtpStreamStatistics
      /\ h264_diagnostics \in [H264DiagnosticCode -> Nat]
      /\ fu \in [opened : Nat, opened_idr : Nat,
                 completed : Nat, completed_idr : Nat]
  BY DEF H264TypeOK
<1>4. /\ h264_statistics' =
           [h264_statistics EXCEPT
              !.single_nal_packets = @ + One(packet.payload.kind = "single_nal_unit"),
              !.stap_a_packets = @ + One(packet.payload.kind = "stap_a"),
              !.fu_a_packets = @ + One(IsFuA(packet)),
              !.completed_nal_units = @ + Len(nals),
              !.completed_idr_nal_units = @ + IdrCount(nals),
              !.incomplete_fu_a_nal_units = @ + One(failed),
              !.incomplete_idr_nal_units = @ + One(failed /\ IsIdr(active))]
      /\ h264_diagnostics' = [code \in H264DiagnosticCode |->
                                h264_diagnostics[code] + One(code \in Emitted(packet))]
      /\ fu' = [opened |-> fu.opened + One(opens),
                opened_idr |-> fu.opened_idr
                  + One(opens /\ packet.payload.nal_unit_type = 5),
                completed |-> fu.completed + One(completes),
                completed_idr |-> fu.completed_idr
                  + One(completes /\ IsIdr(active))]
  BY DEF Analyze
<1> HIDE DEF failed, step, opens, completes, nals
<1>5. /\ h264_statistics' \in H264RtpStreamStatistics
      /\ h264_statistics'.incomplete_fu_a_nal_units
           = h264_statistics.incomplete_fu_a_nal_units + One(failed)
      /\ h264_statistics'.incomplete_idr_nal_units
           = h264_statistics.incomplete_idr_nal_units
               + One(failed /\ IsIdr(active))
  <2> DEFINE single == One(packet.payload.kind = "single_nal_unit")
             stap_a == One(packet.payload.kind = "stap_a")
             fu_a == One(IsFuA(packet))
             complete == Len(nals)
             complete_idr == IdrCount(nals)
             lost == One(failed)
             lost_idr == One(failed /\ IsIdr(active))
             old == h264_statistics
  <2>1. /\ single \in Nat /\ stap_a \in Nat /\ fu_a \in Nat
        /\ complete \in Nat /\ complete_idr \in Nat
        /\ lost \in Nat /\ lost_idr \in Nat
    BY <1>1, <1>2, Zenon
  <2>2. h264_statistics' = [old EXCEPT
                              !.single_nal_packets = @ + single,
                              !.stap_a_packets = @ + stap_a,
                              !.fu_a_packets = @ + fu_a,
                              !.completed_nal_units = @ + complete,
                              !.completed_idr_nal_units = @ + complete_idr,
                              !.incomplete_fu_a_nal_units = @ + lost,
                              !.incomplete_idr_nal_units = @ + lost_idr]
    BY <1>4
  <2> HIDE DEF single, stap_a, fu_a, complete, complete_idr, lost, lost_idr
  <2>3. /\ old.single_nal_packets + single \in Nat
        /\ old.stap_a_packets + stap_a \in Nat
        /\ old.fu_a_packets + fu_a \in Nat
        /\ old.completed_nal_units + complete \in Nat
        /\ old.completed_idr_nal_units + complete_idr \in Nat
        /\ old.incomplete_fu_a_nal_units + lost \in Nat
        /\ old.incomplete_idr_nal_units + lost_idr \in Nat
    BY <1>3, <2>1 DEF H264RtpStreamStatistics
  <2>4. h264_statistics' \in H264RtpStreamStatistics
    BY <1>3, <2>2, <2>3 DEF H264RtpStreamStatistics
  <2>5. /\ h264_statistics'.incomplete_fu_a_nal_units
             = old.incomplete_fu_a_nal_units + lost
        /\ h264_statistics'.incomplete_idr_nal_units
             = old.incomplete_idr_nal_units + lost_idr
    BY <1>3, <2>2 DEF H264RtpStreamStatistics
  <2>6. QED
    BY <2>4, <2>5 DEF lost, lost_idr
<1>6. /\ h264_diagnostics' \in [H264DiagnosticCode -> Nat]
      /\ \A code \in H264DiagnosticCode :
           h264_diagnostics'[code]
             = h264_diagnostics[code] + One(code \in Emitted(packet))
  BY <1>1, <1>3, <1>4
<1>7. fu' \in [opened : Nat, opened_idr : Nat, completed : Nat, completed_idr : Nat]
  BY <1>1, <1>3, <1>4
<1>8. QED
  BY <1>4, <1>5, <1>6, <1>7 DEF failed, step, opens, completes

(* Every way out of push keeps the books of the NAL units: one that was    *)
(* being collected is completed, grows, or is counted as incomplete.       *)
LEMMA AnalyzeAccounts ==
  ASSUME H264TypeOK, ActiveShape, FuAccounting,
         NEW packet, IsH264Packet(packet), Analyze(packet)
  PROVE  FuAccounting'
<1> DEFINE failed == FuFailure(packet) # NoCode
           step == Reassembly(packet)
           opens == step.outcome = "pending" /\ packet.payload.start
           completes == step.outcome = "completed"
<1>1. /\ h264_statistics'.incomplete_fu_a_nal_units
           = h264_statistics.incomplete_fu_a_nal_units + One(failed)
      /\ h264_statistics'.incomplete_idr_nal_units
           = h264_statistics.incomplete_idr_nal_units
               + One(failed /\ IsIdr(active))
      /\ fu'.opened = fu.opened + One(opens)
      /\ fu'.opened_idr = fu.opened_idr
           + One(opens /\ packet.payload.nal_unit_type = 5)
      /\ fu'.completed = fu.completed + One(completes)
      /\ fu'.completed_idr = fu.completed_idr + One(completes /\ IsIdr(active))
  BY AnalyzeCounts
<1>2. active' = step.active
  BY DEF Analyze
<1>3. failed => active # Nothing
  BY DEF FuFailure
<1>4. /\ h264_statistics.incomplete_fu_a_nal_units \in Nat
      /\ h264_statistics.incomplete_idr_nal_units \in Nat
      /\ fu.opened \in Nat /\ fu.opened_idr \in Nat
      /\ fu.completed \in Nat /\ fu.completed_idr \in Nat
  BY DEF H264TypeOK, H264RtpStreamStatistics
<1>5. /\ fu.opened = fu.completed + h264_statistics.incomplete_fu_a_nal_units
                       + One(active # Nothing)
      /\ fu.opened_idr = fu.completed_idr
                           + h264_statistics.incomplete_idr_nal_units
                           + One(IsIdr(active))
  BY DEF FuAccounting
<1>6. ~ IsIdr(Nothing) /\ (IsIdr(active) => active # Nothing)
  BY DEF IsIdr
<1>7. SUFFICES
        /\ One(opens) + One(active # Nothing)
             = One(completes) + One(failed) + One(active' # Nothing)
        /\ One(opens /\ packet.payload.nal_unit_type = 5) + One(IsIdr(active))
             = One(completes /\ IsIdr(active)) + One(failed /\ IsIdr(active))
                 + One(IsIdr(active'))
  <2>1. IsIdr(active)' <=> IsIdr(active')
    BY DEF IsIdr
  <2>2. \A condition : One(condition) \in Nat
    BY OneType
  <2> HIDE DEF failed, opens, completes
  <2>3. /\ One(opens) \in Nat /\ One(active # Nothing) \in Nat
        /\ One(completes) \in Nat /\ One(failed) \in Nat
        /\ One(active' # Nothing) \in Nat
    BY <2>2, Zenon
  <2>4. /\ One(opens /\ packet.payload.nal_unit_type = 5) \in Nat
        /\ One(IsIdr(active)) \in Nat
        /\ One(completes /\ IsIdr(active)) \in Nat
        /\ One(failed /\ IsIdr(active)) \in Nat
        /\ One(IsIdr(active')) \in Nat
    BY <2>2, Zenon
  <2>5. fu'.opened = fu'.completed + h264_statistics'.incomplete_fu_a_nal_units
                       + One(active' # Nothing)
    BY <1>1, <1>4, <1>5, <1>7, <2>3
  <2>6. fu'.opened_idr = fu'.completed_idr
                           + h264_statistics'.incomplete_idr_nal_units
                           + One(IsIdr(active'))
    BY <1>1, <1>4, <1>5, <1>7, <2>4
  <2>7. QED
    BY <2>1, <2>5, <2>6 DEF FuAccounting
<1>8. CASE /\ step = Step("none", Nothing, Nothing)
           /\ active = Nothing \/ failed
  <2>1. ~ opens /\ ~ completes /\ active' = Nothing
    BY <1>2, <1>8 DEF Step
  <2>2. QED
    BY <1>3, <1>6, <1>8, <2>1 DEF One
<1>9. CASE /\ step = Step("pending", Opened(packet), Nothing)
           /\ packet.payload.start
           /\ active = Nothing \/ failed
  <2>1. opens /\ ~ completes /\ active' = Opened(packet)
    BY <1>2, <1>9 DEF Step
  <2>2. active' # Nothing /\ (IsIdr(active') <=> packet.payload.nal_unit_type = 5)
    BY <2>1, OpenedShape
  <2>3. QED
    BY <1>3, <1>6, <1>9, <2>1, <2>2 DEF One
<1>10. CASE /\ step = Step("pending", Extended(active, packet), Nothing)
            /\ ~ packet.payload.start
            /\ active # Nothing /\ ~ failed
  <2>1. ~ opens /\ ~ completes /\ active' = Extended(active, packet)
    BY <1>2, <1>10 DEF Step
  <2>2. active' # Nothing /\ (IsIdr(active') <=> IsIdr(active))
    BY <1>10, <2>1, ExtendedShape
  <2>3. QED
    BY <1>3, <1>6, <1>10, <2>1, <2>2 DEF One
<1>11. CASE /\ step.outcome = "completed" /\ step.active = Nothing
            /\ active # Nothing /\ ~ failed
  <2>1. ~ opens /\ completes /\ active' = Nothing
    BY <1>2, <1>11
  <2>2. QED
    BY <1>3, <1>6, <1>11, <2>1 DEF One
<1>12. QED
  BY <1>8, <1>9, <1>10, <1>11, ReassemblyOutcomes DEF Step

(* Which codes a packet is diagnosed with.                                 *)
LEMMA EmittedCodes ==
  ASSUME NEW packet, IsH264Packet(packet)
  PROVE  LET failure == FuFailure(packet)
             emitted == Emitted(packet)
         IN  /\ failure \in {NoCode, "H264_FU_A_SEQUENCE_GAP",
                             "H264_FU_A_INTERRUPTED",
                             "H264_FU_A_CONTEXT_CHANGED",
                             "H264_RTP_INVALID_PAYLOAD"}
             /\ failure # NoCode => failure \in emitted /\ active # Nothing
             /\ Rejection(packet) # NoCode => Rejection(packet) \in emitted
             /\ "H264_FU_A_SEQUENCE_GAP" \in emitted
                  <=> failure = "H264_FU_A_SEQUENCE_GAP"
             /\ "H264_FU_A_INTERRUPTED" \in emitted
                  <=> failure = "H264_FU_A_INTERRUPTED"
             /\ "H264_FU_A_CONTEXT_CHANGED" \in emitted
                  <=> failure = "H264_FU_A_CONTEXT_CHANGED"
             /\ "H264_FU_A_INCOMPLETE" \notin emitted
             /\ "H264_IDR_INCOMPLETE" \in emitted
                  <=> failure # NoCode /\ IsIdr(active)
             /\ emitted \subseteq H264DiagnosticCode
<1>1. FuFailure(packet) \in {NoCode, "H264_FU_A_SEQUENCE_GAP",
                             "H264_FU_A_INTERRUPTED", "H264_FU_A_CONTEXT_CHANGED",
                             "H264_RTP_INVALID_PAYLOAD"}
  BY DEF FuFailure
<1>2. FuFailure(packet) # NoCode => active # Nothing
  BY DEF FuFailure
<1>3. Rejection(packet) \in {NoCode, "H264_RTP_INVALID_PAYLOAD",
                             "H264_STAP_A_INVALID", "H264_FU_A_MISSING_START"}
  <2>1. packet.payload.kind \in PayloadKind
    BY HeaderIsPacket
  <2>2. CASE packet.payload.kind \in {"invalid", "unsupported"}
    BY <2>2 DEF Rejection
  <2>3. CASE packet.payload.kind = "single_nal_unit"
    BY <2>3 DEF Rejection
  <2>4. CASE packet.payload.kind = "stap_a"
    BY <2>4 DEF Rejection
  <2>5. CASE packet.payload.kind = "fu_a"
    BY <2>5 DEF Rejection, FragmentRejection
  <2>6. QED
    BY <2>1, <2>2, <2>3, <2>4, <2>5 DEF PayloadKind
<1>4. QED
  BY <1>1, <1>2, <1>3 DEF Emitted, NoCode, H264DiagnosticCode

(* A packet that costs a NAL unit adds the diagnostic that says why.       *)
LEMMA AnalyzeDiagnoses ==
  ASSUME H264TypeOK, FailuresAreDiagnosed,
         NEW packet, IsH264Packet(packet), Analyze(packet)
  PROVE  FailuresAreDiagnosed'
<1> DEFINE failed == FuFailure(packet) # NoCode
           Count(code) == h264_diagnostics[code]
           Adds(code) == One(code \in Emitted(packet))
<1>1. /\ h264_statistics'.incomplete_fu_a_nal_units
           = h264_statistics.incomplete_fu_a_nal_units + One(failed)
      /\ h264_statistics'.incomplete_idr_nal_units
           = h264_statistics.incomplete_idr_nal_units
               + One(failed /\ IsIdr(active))
      /\ \A code \in H264DiagnosticCode :
           h264_diagnostics'[code] = Count(code) + Adds(code)
  BY AnalyzeCounts
<1>2. /\ \A code \in H264DiagnosticCode : Count(code) \in Nat
      /\ h264_statistics.incomplete_fu_a_nal_units \in Nat
      /\ h264_statistics.incomplete_idr_nal_units \in Nat
  BY DEF H264TypeOK, H264RtpStreamStatistics
<1>3. /\ Adds("H264_FU_A_SEQUENCE_GAP") + Adds("H264_FU_A_INTERRUPTED")
           + Adds("H264_FU_A_CONTEXT_CHANGED") + Adds("H264_FU_A_INCOMPLETE")
           <= One(failed)
      /\ One(failed)
           <= Adds("H264_FU_A_SEQUENCE_GAP") + Adds("H264_FU_A_INTERRUPTED")
                + Adds("H264_FU_A_CONTEXT_CHANGED") + Adds("H264_FU_A_INCOMPLETE")
                + Adds("H264_RTP_INVALID_PAYLOAD")
      /\ Adds("H264_IDR_INCOMPLETE") = One(failed /\ IsIdr(active))
  BY EmittedCodes DEF One, NoCode
<1>4. \A code \in H264DiagnosticCode : Adds(code) \in Nat
  BY OneType
<1>5. One(failed) \in Nat /\ One(failed /\ IsIdr(active)) \in Nat
  BY OneType
<1> HIDE DEF failed, Count, Adds
<1>6. /\ "H264_FU_A_SEQUENCE_GAP" \in H264DiagnosticCode
      /\ "H264_FU_A_INTERRUPTED" \in H264DiagnosticCode
      /\ "H264_FU_A_CONTEXT_CHANGED" \in H264DiagnosticCode
      /\ "H264_FU_A_INCOMPLETE" \in H264DiagnosticCode
      /\ "H264_IDR_INCOMPLETE" \in H264DiagnosticCode
      /\ "H264_RTP_INVALID_PAYLOAD" \in H264DiagnosticCode
  BY DEF H264DiagnosticCode
<1>7. QED
  BY <1>1, <1>2, <1>3, <1>4, <1>5, <1>6 DEF FailuresAreDiagnosed, Count

-----------------------------------------------------------------------------
(* What the RTP layer tells the layer above it.                            *)

(* Ahead of the highest packet by one is the number the reassembler        *)
(* computes as its successor.                                              *)
LEMMA SuccessorIsNext ==
  ASSUME highest_extended_sequence \in Nat, NEW s \in SequenceNumber
  PROVE  s = NextSequenceNumber(HighestRaw) <=> ForwardDelta(s) = 1
<1> DEFINE m == SequenceModulus
           h == highest_extended_sequence
           delta == ForwardDelta(s)
<1>1. m \in Nat \ {0} /\ h \in Int /\ delta \in 0..(m - 1) /\ m >= 4
  <2>1. delta \in 0..(m - 1)
    BY Window
  <2>2. m \in Nat \ {0} /\ m >= 4
    BY ConstantsAssumption DEF ConstantsAssumption
  <2>3. QED
    BY <2>1, <2>2
<1>2. (h + delta) % m = s
  BY Window
<1>3. NextSequenceNumber(HighestRaw) = (h + 1) % m
  <2>1. ((h % m) + 1) % m = (h + 1) % m
    BY <1>1, ShiftedResidue, 1 \in Int
  <2>2. QED
    BY <2>1 DEF NextSequenceNumber, HighestRaw
<1>4. NextSequenceNumber(HighestRaw) = s <=> (h + delta) % m = (h + 1) % m
  BY <1>2, <1>3
<1> HIDE DEF m, h, delta
<1>5. (h + delta) % m = (h + 1) % m <=> delta = 1
  <2>1. h + delta \in Int /\ h + 1 \in Int
    BY <1>1
  <2>2. CASE delta <= 1
    <3>1. h + delta <= h + 1 /\ (h + 1) - (h + delta) < m
      BY <1>1, <2>2
    <3>2. (h + delta) % m = (h + 1) % m => h + delta = h + 1
      BY <1>1, <2>1, <3>1, SameResidueWithinTurn
    <3>3. QED
      BY <1>1, <3>2
  <2>3. CASE delta >= 1
    <3>1. h + 1 <= h + delta /\ (h + delta) - (h + 1) < m
      BY <1>1, <2>3
    <3>2. (h + delta) % m = (h + 1) % m => h + 1 = h + delta
      BY <1>1, <2>1, <3>1, SameResidueWithinTurn
    <3>3. QED
      BY <1>1, <3>2
  <2>4. QED
    BY <1>1, <2>2, <2>3
<1>6. QED
  BY <1>4, <1>5 DEF delta

(* An accepted packet is the new highest one of the analyzed stream, and a *)
(* gap is diagnosed when it is not the successor of the last one.          *)
LEMMA AcceptedPush ==
  ASSUME IInv, NEW packet \in RtpPacket, NEW t, PushPacket(packet, t),
         disposition' = "accepted"
  PROVE  /\ Started'
         /\ HighestRaw' = packet.sequence_number
         /\ statistics'.last_sequence_number = packet.sequence_number
         /\ statistics'.ssrc = packet.ssrc
         /\ packet.payload_type = ConfiguredPayloadType
         /\ (diagnostics'["RTP_SEQUENCE_GAP"] # diagnostics["RTP_SEQUENCE_GAP"])
              <=> /\ Started
                  /\ packet.sequence_number # NextSequenceNumber(HighestRaw)
<1> DEFINE s == packet.sequence_number
<1>1. s \in SequenceNumber /\ s \in 0..(SequenceModulus - 1)
  BY Modulus DEF RtpPacket
<1>2. PushFirst(packet, t) \/ PushAhead(packet, t)
  BY DEF PushPacket, PushUnexpectedPayloadType, PushUnexpectedSsrc, Ignore,
         PushDuplicate, PushLate
<1>3. statistics \in RtpSessionStatistics /\ diagnostics \in [DiagnosticCode -> Nat]
  BY CounterTypes
<1>4. statistics'.ssrc = packet.ssrc /\ Started'
  BY <1>2, PacketSetsSsrc
<1>5. CASE PushFirst(packet, t)
  <2>1. highest_extended_sequence' = s /\ ~ Started /\ diagnostics' = diagnostics
    BY <1>5 DEF PushFirst, Started
  <2>2. s % SequenceModulus = s
    BY <1>1, Modulus, ResidueIsUnique, s = SequenceModulus * 0 + s
  <2>3. statistics'.last_sequence_number = s
    BY <1>3, <1>5 DEF PushFirst, Counted, WithLoss, RtpSessionStatistics
  <2>4. QED
    BY <1>4, <1>5, <2>1, <2>2, <2>3 DEF PushFirst, OfTheStream, HighestRaw
<1>6. CASE PushAhead(packet, t)
  <2> DEFINE delta == ForwardDelta(s)
  <2>1. Started /\ highest_extended_sequence \in Nat
    BY <1>6, Running DEF PushAhead, Started
  <2>2. delta \in Nat /\ delta >= 1
    BY <1>6, Modulus DEF PushAhead, IsAhead
  <2>3. (highest_extended_sequence + delta) % SequenceModulus = s
    BY <1>1, <2>1, Window
  <2>4. HighestRaw' = s
    BY <1>6, <2>3 DEF PushAhead, HighestRaw
  <2>5. statistics'.last_sequence_number = s
    BY <1>3, <1>6 DEF PushAhead, Counted, WithLoss, RtpSessionStatistics
  <2>6. diagnostics'["RTP_SEQUENCE_GAP"] # diagnostics["RTP_SEQUENCE_GAP"]
          <=> delta > 1
    <3>1. "RTP_SEQUENCE_GAP" \in DiagnosticCode
      BY DEF DiagnosticCode
    <3>2. CASE delta > 1
      BY <1>3, <1>6, <3>1, <3>2 DEF PushAhead, Diagnose
    <3>3. CASE ~ (delta > 1)
      BY <1>6, <3>3 DEF PushAhead
    <3>4. QED
      BY <3>2, <3>3
  <2>7. delta > 1 <=> s # NextSequenceNumber(HighestRaw)
    BY <1>1, <2>1, <2>2, SuccessorIsNext
  <2>8. QED
    BY <1>4, <1>6, <2>1, <2>4, <2>5, <2>6, <2>7 DEF PushAhead, OfTheStream
<1>7. QED
  BY <1>2, <1>5, <1>6

(* Any other datagram leaves the highest packet and a known SSRC alone,    *)
(* and is no gap.                                                          *)
LEMMA OtherPush ==
  ASSUME IInv, NEW t,
         PushInvalid \/ \E packet \in RtpPacket : PushPacket(packet, t),
         disposition' # "accepted"
  PROVE  /\ highest_extended_sequence' = highest_extended_sequence
         /\ statistics.ssrc # None => statistics'.ssrc = statistics.ssrc
         /\ diagnostics'["RTP_SEQUENCE_GAP"] = diagnostics["RTP_SEQUENCE_GAP"]
<1>1. diagnostics \in [DiagnosticCode -> Nat]
  BY CounterTypes
<1>2. ASSUME NEW code \in DiagnosticCode \ {"RTP_SEQUENCE_GAP"}, Diagnose(code)
      PROVE  diagnostics'["RTP_SEQUENCE_GAP"] = diagnostics["RTP_SEQUENCE_GAP"]
  BY <1>1, <1>2 DEF Diagnose, DiagnosticCode
<1>3. ASSUME NEW code \in DiagnosticCode \ {"RTP_SEQUENCE_GAP"}, NEW reason,
             Ignore(code, reason)
      PROVE  /\ highest_extended_sequence' = highest_extended_sequence
             /\ statistics'.ssrc = statistics.ssrc
             /\ diagnostics'["RTP_SEQUENCE_GAP"] = diagnostics["RTP_SEQUENCE_GAP"]
  <2>1. statistics'.ssrc = statistics.ssrc
    BY <1>3, IgnoreKeepsSsrc DEF IInv
  <2>2. QED
    BY <1>2, <1>3, <2>1 DEF Ignore, SequenceState
<1>4. CASE PushInvalid
  BY <1>3, <1>4 DEF PushInvalid, DiagnosticCode
<1>5. ASSUME NEW packet \in RtpPacket, PushPacket(packet, t)
      PROVE  /\ highest_extended_sequence' = highest_extended_sequence
             /\ statistics.ssrc # None => statistics'.ssrc = statistics.ssrc
             /\ diagnostics'["RTP_SEQUENCE_GAP"] = diagnostics["RTP_SEQUENCE_GAP"]
  <2>1. CASE PushUnexpectedPayloadType(packet)
    BY <1>3, <2>1 DEF PushUnexpectedPayloadType, DiagnosticCode
  <2>2. CASE PushUnexpectedSsrc(packet)
    BY <1>3, <2>2 DEF PushUnexpectedSsrc, DiagnosticCode
  <2>3. CASE PushDuplicate(packet)
    <3>1. /\ statistics'.ssrc = packet.ssrc
          /\ statistics.ssrc \in {None, packet.ssrc}
      BY <2>3, PacketSetsSsrc
    <3>2. QED
      BY <1>2, <2>3, <3>1 DEF PushDuplicate, DiagnosticCode
  <2>4. CASE PushLate(packet)
    <3>1. /\ statistics'.ssrc = packet.ssrc
          /\ statistics.ssrc \in {None, packet.ssrc}
      BY <2>4, PacketSetsSsrc
    <3>2. QED
      BY <1>2, <2>4, <3>1 DEF PushLate, DiagnosticCode
  <2>5. CASE PushFirst(packet, t) \/ PushAhead(packet, t)
    BY <2>5 DEF PushFirst, PushAhead
  <2>6. QED
    BY <1>5, <2>1, <2>2, <2>3, <2>4, <2>5 DEF PushPacket
<1>6. QED
  BY <1>4, <1>5

-----------------------------------------------------------------------------
(* The inductive invariant.                                                *)

(* Before the first datagram there is nothing to account for.              *)
LEMMA H264InitInv == H264Init => H264Inv
<1> SUFFICES ASSUME H264Init PROVE H264Inv
  OBVIOUS
<1>1. IInv
  BY InitInv DEF H264Init
<1>2. SsrcIsKnown
  BY DEF H264Init, Init, SsrcIsKnown, Started
<1>3. H264TypeOK
  BY <1>1 DEF H264Init, H264TypeOK, IInv, H264RtpStreamStatistics
<1>4. FuAccounting
  BY DEF H264Init, FuAccounting, One, IsIdr
<1>5. FailuresAreDiagnosed
  BY DEF H264Init, FailuresAreDiagnosed, H264DiagnosticCode
<1>6. QED
  BY <1>1, <1>2, <1>3, <1>4, <1>5
     DEF H264Init, H264Inv, ActiveShape, ActiveFollowsHighest

(* A datagram that goes no further leaves this layer as it was, and the    *)
(* highest packet is still the one before the next fragment.               *)
LEMMA SkipInv ==
  ASSUME H264Inv, IInv', Skip, disposition' # "accepted", NEW t,
         PushInvalid \/ \E packet \in RtpPacket : PushPacket(packet, t)
  PROVE  /\ H264TypeOK' /\ ActiveShape' /\ ActiveFollowsHighest'
         /\ FuAccounting' /\ FailuresAreDiagnosed'
<1>1. /\ highest_extended_sequence' = highest_extended_sequence
      /\ statistics.ssrc # None => statistics'.ssrc = statistics.ssrc
  BY OtherPush DEF H264Inv
<1>2. TypeOK'
  BY DEF IInv
<1>3. H264TypeOK'
  BY <1>2 DEF H264Inv, H264TypeOK, Skip
<1>4. ActiveShape'
  BY DEF H264Inv, ActiveShape, Skip
<1>5. ActiveFollowsHighest'
  BY <1>1 DEF H264Inv, ActiveFollowsHighest, SsrcIsKnown, Skip, Started, HighestRaw
<1>6. FuAccounting' /\ FailuresAreDiagnosed'
  BY DEF H264Inv, FuAccounting, FailuresAreDiagnosed, IsIdr, Skip
<1>7. QED
  BY <1>3, <1>4, <1>5, <1>6

(* So does an accepted packet, whatever its payload.                       *)
LEMMA AnalyzeInv ==
  ASSUME H264Inv, IInv', NEW packet, IsH264Packet(packet), NEW t,
         PushPacket(RtpHeader(packet), t), disposition' = "accepted",
         Analyze(packet)
  PROVE  /\ H264TypeOK' /\ ActiveShape' /\ ActiveFollowsHighest'
         /\ FuAccounting' /\ FailuresAreDiagnosed'
<1>1. /\ Started'
      /\ HighestRaw' = packet.sequence_number
      /\ statistics'.ssrc = packet.ssrc
      /\ packet.payload_type = ConfiguredPayloadType
  BY AcceptedPush, HeaderIsPacket DEF H264Inv
<1>2. /\ ActiveShape'
      /\ active' # Nothing =>
           /\ active'.expected_sequence_number
                = NextSequenceNumber(packet.sequence_number)
           /\ active'.ssrc = packet.ssrc
           /\ active'.payload_type = packet.payload_type
  BY AnalyzeActive DEF H264Inv
<1>3. NextSequenceNumber(packet.sequence_number) \in SequenceNumber
  BY HeaderIsPacket, NextIsNumber
<1>4. TypeOK' /\ H264TypeOK
  BY DEF IInv, H264Inv
<1>5. H264TypeOK'
  BY <1>2, <1>3, <1>4, AnalyzeCounts DEF H264TypeOK
<1>6. ActiveFollowsHighest'
  BY <1>1, <1>2 DEF ActiveFollowsHighest
<1>7. FuAccounting' /\ FailuresAreDiagnosed'
  BY AnalyzeAccounts, AnalyzeDiagnoses DEF H264Inv
<1>8. QED
  BY <1>2, <1>5, <1>6, <1>7

(* finish counts the NAL unit it discards.                                 *)
LEMMA FinishInv ==
  ASSUME H264Inv, IInv', Finish
  PROVE  /\ H264TypeOK' /\ ActiveShape' /\ ActiveFollowsHighest'
         /\ FuAccounting' /\ FailuresAreDiagnosed'
<1> DEFINE idr == One(IsIdr(active))
<1>1. active # Nothing /\ active' = Nothing /\ idr \in Nat
  BY OneType DEF Finish
<1>2. /\ h264_statistics \in H264RtpStreamStatistics
      /\ h264_diagnostics \in [H264DiagnosticCode -> Nat]
      /\ fu \in [opened : Nat, opened_idr : Nat,
                 completed : Nat, completed_idr : Nat]
      /\ FuAccounting /\ FailuresAreDiagnosed /\ fu' = fu
  BY DEF H264Inv, H264TypeOK, Finish
<1>3. /\ h264_statistics' =
           [h264_statistics EXCEPT !.incomplete_fu_a_nal_units = @ + 1,
                                   !.incomplete_idr_nal_units = @ + idr]
      /\ h264_diagnostics' =
           [h264_diagnostics EXCEPT !["H264_FU_A_INCOMPLETE"] = @ + 1,
                                    !["H264_IDR_INCOMPLETE"] = @ + idr]
  BY DEF Finish
<1>4. One(active # Nothing) = 1 /\ One(active' # Nothing) = 0
      /\ One(IsIdr(active')) = 0
  BY <1>1 DEF One, IsIdr
<1>5. IsIdr(active)' <=> IsIdr(active')
  BY DEF IsIdr
<1> HIDE DEF idr
<1>6. /\ h264_statistics' \in H264RtpStreamStatistics
      /\ h264_statistics'.incomplete_fu_a_nal_units
           = h264_statistics.incomplete_fu_a_nal_units + 1
      /\ h264_statistics'.incomplete_idr_nal_units
           = h264_statistics.incomplete_idr_nal_units + idr
      /\ h264_statistics.incomplete_fu_a_nal_units \in Nat
      /\ h264_statistics.incomplete_idr_nal_units \in Nat
  <2>1. /\ h264_statistics.incomplete_fu_a_nal_units \in Nat
        /\ h264_statistics.incomplete_idr_nal_units \in Nat
    BY <1>2 DEF H264RtpStreamStatistics
  <2>2. /\ h264_statistics.incomplete_fu_a_nal_units + 1 \in Nat
        /\ h264_statistics.incomplete_idr_nal_units + idr \in Nat
    BY <1>1, <2>1
  <2>3. h264_statistics' \in H264RtpStreamStatistics
    BY <1>2, <1>3, <2>2 DEF H264RtpStreamStatistics
  <2>4. QED
    BY <1>2, <1>3, <2>1, <2>3 DEF H264RtpStreamStatistics
<1>7. /\ h264_diagnostics' \in [H264DiagnosticCode -> Nat]
      /\ h264_diagnostics'["H264_FU_A_INCOMPLETE"]
           = h264_diagnostics["H264_FU_A_INCOMPLETE"] + 1
      /\ h264_diagnostics'["H264_IDR_INCOMPLETE"]
           = h264_diagnostics["H264_IDR_INCOMPLETE"] + idr
      /\ \A code \in H264DiagnosticCode
                       \ {"H264_FU_A_INCOMPLETE", "H264_IDR_INCOMPLETE"} :
           h264_diagnostics'[code] = h264_diagnostics[code]
  BY <1>1, <1>2, <1>3 DEF H264DiagnosticCode
<1>8. H264TypeOK'
  BY <1>1, <1>2, <1>6, <1>7 DEF H264TypeOK, IInv
<1>9. FuAccounting'
  BY <1>1, <1>2, <1>4, <1>5, <1>6 DEF FuAccounting, idr
<1>10. FailuresAreDiagnosed'
  BY <1>1, <1>2, <1>6, <1>7 DEF FailuresAreDiagnosed, H264DiagnosticCode
<1>11. QED
  BY <1>1, <1>8, <1>9, <1>10 DEF ActiveShape, ActiveFollowsHighest

(* Nor does a step that changes nothing break anything.                    *)
LEMMA H264StutterInv ==
  ASSUME H264Inv, UNCHANGED <<rtpVars, h264Vars>>
  PROVE  H264Inv'
<1>1. IInv'
  BY StutterInv DEF H264Inv, rtpVars
<1>2. QED
  BY <1>1 DEF H264Inv, IInv, H264TypeOK, SsrcIsKnown, ActiveShape,
              ActiveFollowsHighest, FuAccounting, FailuresAreDiagnosed, IsIdr,
              Started, HighestRaw, rtpVars, vars, h264Vars

(* A packet keeps the invariant, whenever it is pushed.                    *)
LEMMA H264PushInv ==
  ASSUME H264Inv, NEW packet, IsH264Packet(packet), NEW t \in Nat,
         clock' \in Nat, Push(packet, t)
  PROVE  H264Inv'
<1>1. RtpHeader(packet) \in RtpPacket /\ PushPacket(RtpHeader(packet), t)
  BY HeaderIsPacket DEF Push
<1>2. IInv' /\ SsrcIsKnown'
  BY <1>1, PushPacketInv, SsrcPush DEF H264Inv
<1>3. SUFFICES /\ H264TypeOK' /\ ActiveShape' /\ ActiveFollowsHighest'
               /\ FuAccounting' /\ FailuresAreDiagnosed'
  BY <1>2 DEF H264Inv
<1>4. CASE disposition' = "accepted"
  BY <1>1, <1>2, <1>4, AnalyzeInv DEF Push
<1>5. CASE disposition' # "accepted"
  BY <1>1, <1>2, <1>5, SkipInv DEF Push
<1>6. QED
  BY <1>4, <1>5

(* So does a datagram that is none.                                        *)
LEMMA H264InvalidInv ==
  ASSUME H264Inv, clock' \in Nat, PushInvalid, Skip
  PROVE  H264Inv'
<1>1. IInv'
  BY IgnoreInv DEF H264Inv, PushInvalid, Disposition
<1>2. SsrcIsKnown'
  BY SsrcPush DEF H264Inv
<1>3. QED
  BY <1>1, <1>2, SkipInv DEF H264Inv, PushInvalid, Ignore

(* And so does the end of the session.                                     *)
LEMMA H264FinishInv ==
  ASSUME H264Inv, Finish
  PROVE  H264Inv'
<1>1. UNCHANGED vars
  BY DEF Finish, rtpVars
<1>2. IInv' /\ SsrcIsKnown'
  BY <1>1, StutterInv DEF H264Inv, SsrcIsKnown, Started, vars
<1>3. QED
  BY <1>2, FinishInv DEF H264Inv

(* Every step keeps the invariant.                                         *)
LEMMA H264NextInv ==
  ASSUME H264Inv, H264Next
  PROVE  H264Inv'
<1>1. ASSUME NEW delta \in ArrivalDeltas, ArrivesAt(clock + delta)
      PROVE  clock + delta \in Nat /\ clock' \in Nat
  BY <1>1, ConstantsAssumption DEF ConstantsAssumption, ArrivesAt, H264Inv, IInv, TypeOK
<1>2. ASSUME NEW delta \in ArrivalDeltas, ArrivesAt(clock + delta),
             NEW packet \in H264Packets, Push(packet, clock + delta)
      PROVE  H264Inv'
  <2> DEFINE t == clock + delta
  <2>1. t \in Nat /\ clock' \in Nat /\ Push(packet, t) /\ IsH264Packet(packet)
    BY <1>1, <1>2, PacketsAreRead
  <2> HIDE DEF t
  <2>2. QED
    BY <2>1, H264PushInv
<1>3. QED
  BY <1>1, <1>2, H264InvalidInv, H264FinishInv DEF H264Next

(* The invariant of the two layers.                                        *)
THEOREM H264Invariance == H264Spec => []H264Inv
<1>1. H264Init => H264Inv
  BY H264InitInv
<1>2. H264Inv /\ [H264Next]_<<rtpVars, h264Vars>> => H264Inv'
  BY H264NextInv, H264StutterInv
<1>3. QED
  BY <1>1, <1>2, PTL DEF H264Spec

(* The counters, the diagnostics and the fragment under reassembly always  *)
(* have their types; the number waited for is a 16-bit number.             *)
THEOREM H264TypeCorrectness == H264Spec => []H264TypeOK
BY H264Invariance, PTL DEF H264Inv

(* The two sequence numbers of the two layers never disagree.              *)
THEOREM LayersAgree == H264Spec => []ActiveFollowsHighest
BY H264Invariance, PTL DEF H264Inv

(* No NAL unit that a fragment opened is lost without being counted.       *)
THEOREM FuAccountingCorrect == H264Spec => []FuAccounting
BY H264Invariance, PTL DEF H264Inv

(* The incomplete NAL units have their diagnostics, IDR NAL units two.     *)
THEOREM FailuresDiagnosed == H264Spec => []FailuresAreDiagnosed
BY H264Invariance, PTL DEF H264Inv

-----------------------------------------------------------------------------
(* The action properties.                                                  *)

(* A packet is out of the reassembler's sequence exactly when there is a   *)
(* gap in the RTP layer's.                                                 *)
LEMMA FuGapStep ==
  ASSUME H264Inv, [H264Next]_<<rtpVars, h264Vars>>
  PROVE  (h264_diagnostics'["H264_FU_A_SEQUENCE_GAP"]
            # h264_diagnostics["H264_FU_A_SEQUENCE_GAP"])
           <=> /\ diagnostics'["RTP_SEQUENCE_GAP"] # diagnostics["RTP_SEQUENCE_GAP"]
               /\ active # Nothing
<1> DEFINE fu_gap == h264_diagnostics'["H264_FU_A_SEQUENCE_GAP"]
                       # h264_diagnostics["H264_FU_A_SEQUENCE_GAP"]
           rtp_gap == diagnostics'["RTP_SEQUENCE_GAP"]
                        # diagnostics["RTP_SEQUENCE_GAP"]
<1>1. /\ IInv /\ H264TypeOK
      /\ h264_diagnostics \in [H264DiagnosticCode -> Nat]
  BY DEF H264Inv, H264TypeOK
<1>2. CASE UNCHANGED <<rtpVars, h264Vars>>
  BY <1>2 DEF rtpVars, vars, h264Vars
<1>3. CASE Finish
  BY <1>1, <1>3 DEF Finish, rtpVars, vars, H264DiagnosticCode
<1>4. ASSUME Skip, disposition' # "accepted", NEW t,
             PushInvalid \/ \E packet \in RtpPacket : PushPacket(packet, t)
      PROVE  ~ fu_gap /\ ~ rtp_gap
  BY <1>1, <1>4, OtherPush DEF Skip
<1>5. ASSUME NEW packet, IsH264Packet(packet), NEW t, Push(packet, t),
             disposition' = "accepted"
      PROVE  fu_gap <=> rtp_gap /\ active # Nothing
  <2> DEFINE s == packet.sequence_number
  <2>1. rtp_gap <=> Started /\ s # NextSequenceNumber(HighestRaw)
    BY <1>1, <1>5, AcceptedPush, HeaderIsPacket DEF Push
  <2>2. fu_gap <=> "H264_FU_A_SEQUENCE_GAP" \in Emitted(packet)
    <3>1. "H264_FU_A_SEQUENCE_GAP" \in H264DiagnosticCode
      BY DEF H264DiagnosticCode
    <3>2. h264_diagnostics'["H264_FU_A_SEQUENCE_GAP"]
            = h264_diagnostics["H264_FU_A_SEQUENCE_GAP"]
                + One("H264_FU_A_SEQUENCE_GAP" \in Emitted(packet))
      BY <1>1, <1>5, <3>1, AnalyzeCounts DEF Push
    <3>3. h264_diagnostics["H264_FU_A_SEQUENCE_GAP"] \in Nat
      BY <1>1, <3>1
    <3>4. QED
      BY <3>2, <3>3 DEF One
  <2>3. FuFailure(packet) = "H264_FU_A_SEQUENCE_GAP"
          <=> active # Nothing /\ s # active.expected_sequence_number
    BY DEF FuFailure, BreaksSequence, NoCode
  <2>4. active # Nothing =>
          /\ Started
          /\ active.expected_sequence_number = NextSequenceNumber(HighestRaw)
    BY DEF H264Inv, ActiveFollowsHighest
  <2> HIDE DEF fu_gap, rtp_gap
  <2>5. QED
    BY <1>5, <2>1, <2>2, <2>3, <2>4, EmittedCodes
<1>6. CASE H264Next
  <2>1. PushInvalid => disposition' # "accepted"
    BY DEF PushInvalid, Ignore
  <2>2. ASSUME NEW packet, IsH264Packet(packet), NEW t, Push(packet, t)
        PROVE  fu_gap <=> rtp_gap /\ active # Nothing
    <3>1. CASE disposition' = "accepted"
      BY <1>5, <2>2, <3>1
    <3>2. CASE disposition' # "accepted"
      <4>1. RtpHeader(packet) \in RtpPacket
        BY <2>2, HeaderIsPacket
      <4>2. QED
        BY <1>4, <2>2, <3>2, <4>1 DEF Push
    <3>3. QED
      BY <3>1, <3>2
  <2>3. QED
    BY <1>3, <1>4, <1>6, <2>1, <2>2, PacketsAreRead DEF H264Next
<1>7. QED
  BY <1>2, <1>6

(* The evidence of the two layers agrees: a fragment is reported as out of *)
(* sequence exactly when the RTP layer reports a gap in the same push and  *)
(* a NAL unit was being collected.                                         *)
THEOREM FuGapsAreRtpGaps == H264Spec => FuGapIsRtpGap
<1>1. H264Inv /\ [H264Next]_<<rtpVars, h264Vars>>
        => [LET rtp_gap == diagnostics'["RTP_SEQUENCE_GAP"]
                             # diagnostics["RTP_SEQUENCE_GAP"]
                fu_gap == h264_diagnostics'["H264_FU_A_SEQUENCE_GAP"]
                            # h264_diagnostics["H264_FU_A_SEQUENCE_GAP"]
            IN  fu_gap <=> (rtp_gap /\ active # Nothing)]_<<rtpVars, h264Vars>>
  BY FuGapStep
<1>2. QED
  BY <1>1, H264Invariance, PTL DEF H264Spec, FuGapIsRtpGap

(* An accepted packet completes NAL units, becomes part of one, or gets a  *)
(* diagnostic.                                                             *)
LEMMA AnalyzeLeavesTrace ==
  ASSUME H264Inv, NEW packet, IsH264Packet(packet), Analyze(packet)
  PROVE  \/ output' # <<>>
         \/ active' # Nothing
         \/ h264_diagnostics' # h264_diagnostics
<1>1. CASE FuFailure(packet) # NoCode \/ Rejection(packet) # NoCode
  <2>1. PICK code \in H264DiagnosticCode : code \in Emitted(packet)
    BY <1>1, EmittedCodes
  <2>2. h264_diagnostics'[code] = h264_diagnostics[code] + 1
    BY <2>1, AnalyzeCounts DEF H264Inv, One
  <2>3. h264_diagnostics[code] \in Nat
    BY <2>1 DEF H264Inv, H264TypeOK
  <2>4. QED
    BY <2>2, <2>3
<1>2. CASE FuFailure(packet) = NoCode /\ Rejection(packet) = NoCode
  <2>1. /\ packet.payload.kind \in PayloadKind
        /\ output' = Completed(packet) /\ active' = Reassembly(packet).active
    BY HeaderIsPacket DEF Analyze
  <2>2. packet.payload.kind \notin {"invalid", "unsupported"}
    BY <1>2 DEF Rejection, NoCode
  <2>3. CASE packet.payload.kind = "single_nal_unit"
    <3>1. Completed(packet) = <<packet.payload.nal>>
      BY <1>2, <2>3 DEF Completed
    <3>2. QED
      BY <2>1, <3>1
  <2>4. CASE packet.payload.kind = "stap_a"
    <3>1. Completed(packet) = packet.payload.units
      BY <1>2, <2>4 DEF Completed
    <3>2. StapAIsValid(packet.payload)
      BY <1>2, <2>4 DEF Rejection, NoCode
    <3>3. QED
      BY <2>1, <3>1, <3>2 DEF StapAIsValid
  <2>5. CASE packet.payload.kind = "fu_a"
    <3>1. CASE Reassembly(packet).active # Nothing
      BY <2>1, <3>1
    <3>2. CASE Reassembly(packet).nal # Nothing
      <4>1. Completed(packet) = <<Reassembly(packet).nal>>
        BY <1>2, <2>5, <3>2 DEF Completed
      <4>2. QED
        BY <2>1, <4>1
    <3>3. Reassembly(packet).active # Nothing \/ Reassembly(packet).nal # Nothing
      <4>1. active # Nothing => Extended(active, packet) # Nothing
        BY ExtendedShape DEF H264Inv
      <4>2. \A type, priority, bytes : NalUnit(type, priority, bytes) # Nothing
        BY DEF NalUnit, Nothing
      <4>3. IsFuA(packet)
        BY <2>5 DEF IsFuA
      <4>4. QED
        BY <1>2, <4>1, <4>2, <4>3, ReassemblyOutcomes, OpenedShape DEF Step
    <3>4. QED
      BY <3>1, <3>2, <3>3
  <2>6. QED
    BY <2>1, <2>2, <2>3, <2>4, <2>5 DEF PayloadKind
<1>3. QED
  BY <1>1, <1>2

(* No packet that the RTP layer accepts disappears: it completes NAL       *)
(* units, is the newest part of the one being collected, or some           *)
(* diagnostic tells what became of it.                                     *)
THEOREM NothingDropsSilently == H264Spec => NoSilentDrop
<1> DEFINE Trace == \/ disposition' # "accepted"
                    \/ output' # <<>>
                    \/ /\ active' # Nothing
                       /\ active'.expected_sequence_number
                            = NextSequenceNumber(statistics'.last_sequence_number)
                    \/ h264_diagnostics' # h264_diagnostics
<1>1. ASSUME H264Inv, NEW packet, IsH264Packet(packet), NEW t, Push(packet, t)
      PROVE  Trace
  <2>1. SUFFICES ASSUME disposition' = "accepted" PROVE Trace
    OBVIOUS
  <2>2. Analyze(packet)
    BY <1>1, <2>1 DEF Push
  <2>3. statistics'.last_sequence_number = packet.sequence_number
    BY <1>1, <2>1, AcceptedPush, HeaderIsPacket DEF Push, H264Inv
  <2>4. active' # Nothing =>
          active'.expected_sequence_number
            = NextSequenceNumber(packet.sequence_number)
    BY <1>1, <2>2, AnalyzeActive DEF H264Inv
  <2>5. QED
    BY <1>1, <2>2, <2>3, <2>4, AnalyzeLeavesTrace
<1>2. PushInvalid => Trace
  BY DEF PushInvalid, Ignore
<1>3. Finish => clock' = clock /\ statistics' = statistics
  BY DEF Finish, rtpVars, vars
<1>4. H264Inv /\ [H264Next]_<<rtpVars, h264Vars>>
        => [clock' # clock \/ statistics' # statistics
              => Trace]_<<rtpVars, h264Vars>>
  BY <1>1, <1>2, <1>3, PacketsAreRead DEF H264Next
<1>5. QED
  BY <1>4, H264Invariance, PTL DEF H264Spec, NoSilentDrop

-----------------------------------------------------------------------------
(* The inductive invariant.                                                *)

DeliveryTypes ==
  /\ first_number \in SequenceNumber
  /\ newest \in DOMAIN Script \cup {None}
  /\ accepted \subseteq DOMAIN Script
  /\ received_nals \in Seq({Nals[k] : k \in DOMAIN Nals})
  /\ ended \in BOOLEAN

(* The RTP layer counts the sender's packets, and accepts the newest ones. *)
NothingBeforeFirstPacket ==
  newest = None => ~ Started /\ accepted = {} /\ received_nals = <<>>

HighestIsNewest ==
  newest # None =>
    /\ Started
    /\ statistics.ssrc = SenderSsrc
    /\ HighestRaw = (first_number + newest) % SequenceModulus
    /\ newest \in accepted
    /\ \A index \in accepted : index <= newest

(* active is what the packets first..newest carry of Nals[k].              *)
IsCollecting(k, first, last, offsets) ==
  /\ Len(Nals[k].bytes) < MaxNalUnitSize
  /\ PacketsOf[k] = first..last
  /\ AreFragments(k, first, last, offsets)
  /\ newest \in first..(last - 1)
  /\ first..newest \subseteq accepted
  /\ active.nal_unit_type = Nals[k].nal_unit_type
  /\ active.nal_ref_idc = Nals[k].nal_ref_idc
  /\ active.bytes = SubSeq(Nals[k].bytes, 1, offsets[newest])
  /\ active.start_sequence_number = (first_number + first) % SequenceModulus
  /\ active.timestamp = Script[first].timestamp

ActiveIsPrefix ==
  active # Nothing =>
    /\ ~ ended
    /\ \E k \in DOMAIN Nals, first, last \in DOMAIN Script :
         \E offsets \in [(first - 1)..last -> 0..Len(Nals[k].bytes)] :
           IsCollecting(k, first, last, offsets)

(* Nothing that could still be completed has been given up.                *)
PrefixIsActive ==
  ~ ended /\ newest # None =>
    \A k \in DOMAIN Nals, last \in DOMAIN Script :
      (/\ newest \in PacketsOf[k] /\ last \in PacketsOf[k] /\ newest < last
       /\ \A index \in PacketsOf[k] : index <= newest => index \in accepted)
      => active # Nothing

SessionInv ==
  /\ H264Inv
  /\ DeliveryTypes
  /\ NothingBeforeFirstPacket
  /\ HighestIsNewest
  /\ ActiveIsPrefix
  /\ PrefixIsActive
  /\ ReceivedIffAccepted
  /\ WholeNalsInOrder
  /\ IncompleteIsTruth

-----------------------------------------------------------------------------
(* The sender's packets.                                                   *)

(* Sequences are functions on 1..n.                                        *)
LEMMA SequenceShape ==
  ASSUME NEW s, IsSequence(s)
  PROVE  Len(s) \in Nat /\ DOMAIN s = 1..Len(s)
BY DEF IsSequence

LEMMA ScriptShape ==
  /\ Len(Nals) \in Nat /\ DOMAIN Nals = 1..Len(Nals)
  /\ Len(Script) \in Nat /\ DOMAIN Script = 1..Len(Script)
  /\ \A index \in DOMAIN Script : index \in Nat \ {0} /\ index # None
BY ScriptAssumption, SequenceShape DEF ScriptAssumption, None

(* A NAL unit is no other value.                                           *)
LEMMA NalShape ==
  ASSUME NEW k \in DOMAIN Nals
  PROVE  /\ Nals[k] # Nothing /\ Nals[k] # Malformed
         /\ IsIdr(Nals[k]) <=> Nals[k].nal_unit_type = 5
         /\ Len(Nals[k].bytes) \in Nat
         /\ Nals[k].bytes \in Seq({Nals[k].bytes[i] : i \in DOMAIN Nals[k].bytes})
         /\ \A l \in DOMAIN Nals : Nals[k] = Nals[l] => k = l
<1>1. /\ Nals[k] = NalUnit(Nals[k].nal_unit_type, Nals[k].nal_ref_idc,
                            Nals[k].bytes)
      /\ IsSequence(Nals[k].bytes)
      /\ \A l \in DOMAIN Nals : Nals[k] = Nals[l] => k = l
  BY ScriptAssumption DEF ScriptAssumption
<1>2. Nals[k].kind = "nal"
  BY <1>1 DEF NalUnit
<1>3. Nals[k] # Nothing /\ Nals[k] # Malformed
  BY <1>2 DEF Nothing, Malformed
<1>4. QED
  BY <1>1, <1>3, SequenceShape DEF IsIdr, IsSequence

(* No two of the sender's NAL units are equal.                             *)
LEMMA NalsDiffer == \A k, l \in DOMAIN Nals : Nals[k] = Nals[l] => k = l
BY ScriptAssumption DEF ScriptAssumption

(* The packets of a NAL unit are those that carry it.                      *)
LEMMA PacketsShape ==
  ASSUME NEW k \in DOMAIN Nals
  PROVE  /\ PacketsOf[k] \subseteq DOMAIN Script
         /\ PacketsOf[k] # {}
         /\ \A index \in DOMAIN Script :
              index \in PacketsOf[k] <=> k \in Script[index].carries
BY ScriptAssumption DEF ScriptAssumption, PacketsOf

(* Packets carry NAL units in the sender's order.                          *)
LEMMA CarriesInOrder ==
  ASSUME NEW i \in DOMAIN Script, NEW j \in DOMAIN Script, i < j,
         NEW k \in DOMAIN Nals, NEW l \in DOMAIN Nals,
         i \in PacketsOf[k], j \in PacketsOf[l]
  PROVE  k < l \/ (k = l /\ IsFragmented(k))
BY ScriptAssumption, PacketsShape DEF ScriptAssumption

(* A packet carries NAL units, and what it carries is one of the sender's. *)
LEMMA CarriesNals ==
  ASSUME NEW index \in DOMAIN Script
  PROVE  /\ Script[index].carries \subseteq DOMAIN Nals
         /\ Script[index].timestamp \in Timestamps
         /\ \/ IsSingle(Script[index])
            \/ IsAggregation(Script[index])
            \/ \E k \in Script[index].carries : IsFragmented(k)
BY ScriptAssumption DEF ScriptAssumption

(* What the packets of a fragmented NAL unit have in common.               *)
LEMMA FragmentPayload ==
  ASSUME NEW k, NEW first, NEW last, NEW offsets,
         AreFragments(k, first, last, offsets), NEW i \in first..last
  PROVE  /\ Script[i].carries = {k}
         /\ Script[i].timestamp = Script[first].timestamp
         /\ Script[i].marker => i = last
         /\ Script[i].payload.kind = "fu_a"
         /\ Script[i].payload.well_formed
         /\ Script[i].payload.start <=> i = first
         /\ Script[i].payload.end <=> i = last
         /\ Script[i].payload.nal_ref_idc = Nals[k].nal_ref_idc
         /\ Script[i].payload.nal_unit_type = Nals[k].nal_unit_type
         /\ Script[i].payload.bytes
              = SubSeq(Nals[k].bytes, offsets[i - 1] + 1, offsets[i])
         /\ offsets[i - 1] <= offsets[i]
BY DEF AreFragments

(* A packet of the sender is one the analyzer can read.                    *)
LEMMA SentIsPacket ==
  ASSUME first_number \in SequenceNumber, NEW index \in DOMAIN Script
  PROVE  /\ IsH264Packet(Sent(index))
         /\ Sent(index).sequence_number = (first_number + index) % SequenceModulus
         /\ Sent(index).ssrc = SenderSsrc /\ SenderSsrc \in Ssrcs
         /\ Sent(index).payload_type = ConfiguredPayloadType
         /\ Sent(index).timestamp = Script[index].timestamp
         /\ Sent(index).marker = Script[index].marker
         /\ Sent(index).payload = Script[index].payload
<1>1. SenderSsrc \in Ssrcs
  BY NetworkAssumption DEF NetworkAssumption, SenderSsrc
<1>2. ConfiguredPayloadType \in PayloadTypes
  BY ConstantsAssumption DEF ConstantsAssumption
<1>3. (first_number + index) % SequenceModulus \in SequenceNumber
  <2>1. first_number + index \in Int
    BY ScriptShape, Modulus
  <2>2. QED
    BY <2>1, Residue
<1>4. Script[index].timestamp \in Timestamps
  BY CarriesNals
<1>5. /\ Script[index].payload.kind \in {"single_nal_unit", "stap_a", "fu_a"}
      /\ Script[index].payload.kind = "stap_a" => IsAggregation(Script[index])
  <2>1. ASSUME NEW k \in Script[index].carries, IsFragmented(k)
        PROVE  Script[index].payload.kind = "fu_a"
    <3>1. index \in PacketsOf[k]
      BY <2>1, CarriesNals, PacketsShape
    <3>2. PICK first, last, offsets :
                 PacketsOf[k] = first..last /\ AreFragments(k, first, last, offsets)
      BY <2>1 DEF IsFragmented
    <3>3. QED
      BY <3>1, <3>2, FragmentPayload
  <2>2. QED
    BY <2>1, CarriesNals DEF IsSingle, IsAggregation
<1>6. Script[index].payload.kind = "stap_a" =>
        Script[index].payload.units \in
          Seq({Script[index].payload.units[i] :
                 i \in DOMAIN Script[index].payload.units})
  <2>1. ASSUME NEW first \in DOMAIN Nals, NEW last \in DOMAIN Nals
        PROVE  LET units == SubSeq(Nals, first, last)
               IN  units \in Seq({units[i] : i \in DOMAIN units})
    <3> DEFINE units == SubSeq(Nals, first, last)
    <3>1. units \in Seq({Nals[k] : k \in DOMAIN Nals})
      BY ScriptShape, ScriptAssumption DEF ScriptAssumption, IsSequence
    <3> HIDE DEF units
    <3>2. units \in Seq({units[i] : i \in DOMAIN units})
      BY <3>1
    <3>3. QED
      BY <3>2 DEF units
  <2>2. QED
    BY <1>5, <2>1 DEF IsAggregation
<1>7. QED
  BY <1>1, <1>2, <1>3, <1>4, <1>5, <1>6 DEF IsH264Packet, Sent, PayloadKind

-----------------------------------------------------------------------------
(* Which packets the RTP layer accepts.                                    *)

(* Numbers a turn apart have the same residue.                             *)
LEMMA WholeTurn ==
  ASSUME NEW m \in Nat \ {0}, NEW a \in Int
  PROVE  (a + m) % m = a % m
<1> DEFINE q == a \div m
           r == a % m
<1>1. q \in Int /\ r \in 0..(m - 1) /\ a = m * q + r
  BY DivisionWithRemainder
<1> HIDE DEF q, r
<1>2. a + m = m * (q + 1) + r /\ q + 1 \in Int /\ a + m \in Int
  BY <1>1
<1>3. (a + m) % m = r
  BY <1>1, <1>2, ResidueIsUnique
<1>4. QED
  BY <1>3 DEF r

(* Within half a turn, the forward distance of the numbers is that of the  *)
(* packets, or comes round from behind.                                    *)
LEMMA ForwardIsDistance ==
  ASSUME SessionInv, newest # None, NEW index \in DOMAIN Script,
         index \in (newest - MaxDisplacement)..(newest + MaxJump),
         NEW s, s = (first_number + index) % SequenceModulus
  PROVE  /\ s \in SequenceNumber
         /\ index \in Nat /\ newest \in Nat /\ highest_extended_sequence \in Nat
         /\ index >= newest => ForwardDelta(s) = index - newest
         /\ index < newest => ForwardDelta(s) = SequenceModulus + (index - newest)
         /\ IsAhead(s) <=> index > newest
<1> DEFINE m == SequenceModulus
           a == first_number + newest
           d == index - newest
<1>1. /\ m \in Nat \ {0} /\ m = 2 * HalfSequenceSpace
      /\ HalfSequenceSpace \in Nat \ {0, 1}
      /\ first_number \in Nat
      /\ newest \in Nat /\ index \in Nat
      /\ MaxJump \in 1..(HalfSequenceSpace - 1)
      /\ MaxDisplacement \in 0..(HalfSequenceSpace - 1)
  BY Modulus, ScriptShape, NetworkAssumption
     DEF NetworkAssumption, SessionInv, DeliveryTypes
<1>2. /\ a \in Int /\ d \in (-MaxDisplacement)..MaxJump
      /\ first_number + index = a + d
  BY <1>1
<1>3. HighestRaw = a % m /\ s = (a + d) % m /\ highest_extended_sequence \in Nat
  BY <1>2, Running DEF SessionInv, HighestIsNewest, H264Inv
<1>4. s \in SequenceNumber
  BY <1>2, <1>3, Residue, a + d \in Int
<1>5. /\ d >= 0 => ForwardDelta(s) = d
      /\ d < 0 => ForwardDelta(s) = m + d
  <2>1. CASE d >= 0
    <3>1. d \in 0..(m - 1)
      BY <1>1, <1>2, <2>1
    <3>2. (((a + d) % m) - (a % m)) % m = d
      BY <1>1, <1>2, <3>1, DifferenceOfResidues
    <3>3. ForwardDelta(s) = (s - HighestRaw) % m
      BY DEF ForwardDelta
    <3> HIDE DEF m, a, d
    <3>4. ForwardDelta(s) = d
      BY <1>3, <3>2, <3>3, Zenon
    <3>5. QED
      BY <1>1, <1>2, <2>1, <3>4
  <2>2. CASE d < 0
    <3> DEFINE e == m + d
    <3>1. e \in 0..(m - 1) /\ a + e = (a + d) + m /\ a + d \in Int
      BY <1>1, <1>2, <2>2
    <3>2. (a + e) % m = (a + d) % m
      BY <1>1, <3>1, WholeTurn
    <3>3. (((a + e) % m) - (a % m)) % m = e
      BY <1>1, <1>2, <3>1, DifferenceOfResidues
    <3>4. ForwardDelta(s) = (s - HighestRaw) % m
      BY DEF ForwardDelta
    <3> HIDE DEF m, a, d, e
    <3>5. ForwardDelta(s) = e
      BY <1>3, <3>2, <3>3, <3>4, Zenon
    <3>6. QED
      BY <1>1, <1>2, <2>2, <3>5 DEF e
  <2>3. QED
    BY <1>1, <1>2, <2>1, <2>2
<1> HIDE DEF m, a
<1>6. /\ index >= newest <=> d >= 0
      /\ index < newest <=> d < 0
      /\ index > newest <=> d > 0
  BY <1>1
<1>7. IsAhead(s) <=> d > 0
  BY <1>1, <1>2, <1>5 DEF IsAhead, m
<1>8. QED
  BY <1>1, <1>3, <1>4, <1>5, <1>6, <1>7 DEF m

(* So the order of the numbers is that of the packets.                     *)
LEMMA AheadIsNewer ==
  ASSUME SessionInv, newest # None, NEW index \in DOMAIN Script,
         index \in (newest - MaxDisplacement)..(newest + MaxJump),
         NEW s, s = (first_number + index) % SequenceModulus
  PROVE  /\ s \in SequenceNumber
         /\ IsAhead(s) <=> index > newest
         /\ s = NextSequenceNumber(HighestRaw) <=> index = newest + 1
<1>1. /\ s \in SequenceNumber
      /\ index \in Nat /\ newest \in Nat /\ highest_extended_sequence \in Nat
      /\ index >= newest => ForwardDelta(s) = index - newest
      /\ index < newest => ForwardDelta(s) = SequenceModulus + (index - newest)
      /\ IsAhead(s) <=> index > newest
  BY ForwardIsDistance
<1>2. s = NextSequenceNumber(HighestRaw) <=> ForwardDelta(s) = 1
  BY <1>1, SuccessorIsNext
<1>3. newest - index < SequenceModulus - 1
  BY <1>1, Modulus, NetworkAssumption DEF NetworkAssumption
<1>4. QED
  BY <1>1, <1>2, <1>3, Modulus

(* The RTP layer accepts the first packet and the ones that are newer than *)
(* any before; late and repeated packets it does not.                      *)
LEMMA AcceptedIsNewer ==
  ASSUME SessionInv, NEW index \in DOMAIN Script, NEW t,
         newest # None =>
           index \in (newest - MaxDisplacement)..(newest + MaxJump),
         PushPacket(RtpHeader(Sent(index)), t)
  PROVE  disposition' = "accepted" <=> newest = None \/ index > newest
<1> DEFINE packet == RtpHeader(Sent(index))
           s == packet.sequence_number
<1>1. /\ s = (first_number + index) % SequenceModulus
      /\ packet.ssrc = SenderSsrc
      /\ packet.payload_type = ConfiguredPayloadType
      /\ packet \in RtpPacket
  BY SentIsPacket, HeaderIsPacket DEF SessionInv, DeliveryTypes
<1>2. statistics.ssrc \in {None, SenderSsrc}
  BY NetworkAssumption
     DEF NetworkAssumption, SessionInv, H264Inv, SsrcIsKnown, HighestIsNewest,
         NothingBeforeFirstPacket
<1>3. ~ PushUnexpectedPayloadType(packet) /\ ~ PushUnexpectedSsrc(packet)
  BY <1>1, <1>2 DEF PushUnexpectedPayloadType, PushUnexpectedSsrc
<1>4. /\ PushFirst(packet, t) \/ PushAhead(packet, t) => disposition' = "accepted"
      /\ PushDuplicate(packet) \/ PushLate(packet) => disposition' # "accepted"
  BY DEF PushFirst, PushAhead, PushDuplicate, PushLate
<1>5. CASE newest = None
  <2>1. highest_extended_sequence = None
    BY <1>5 DEF SessionInv, NothingBeforeFirstPacket, Started
  <2>2. QED
    BY <1>3, <1>4, <1>5, <2>1 DEF PushPacket, PushAhead, PushDuplicate, PushLate
<1>6. CASE newest # None
  <2>1. highest_extended_sequence # None
    BY <1>6 DEF SessionInv, HighestIsNewest, Started
  <2>2. IsAhead(s) <=> index > newest
    BY <1>1, <1>6, AheadIsNewer
  <2>3. PushDuplicate(packet) \/ PushLate(packet) => ~ IsAhead(s)
    BY Modulus DEF PushDuplicate, PushLate, IsDuplicate, IsLate, IsAhead
  <2>4. PushAhead(packet, t) => IsAhead(s)
    BY DEF PushAhead
  <2>5. ~ PushFirst(packet, t)
    BY <2>1 DEF PushFirst
  <2>6. QED
    BY <1>3, <1>4, <1>6, <2>2, <2>3, <2>4, <2>5 DEF PushPacket
<1>7. QED
  BY <1>5, <1>6

-----------------------------------------------------------------------------
(* What a packet that the RTP layer accepts does to the layer above.       *)

(* The push returns the NAL units of a set, in their order.                *)
Delivers(set) ==
  /\ output' \in Seq({Nals[k] : k \in DOMAIN Nals})
  /\ \A i \in DOMAIN output' : \E k \in set : output'[i] = Nals[k]
  /\ \A k \in set : \E i \in DOMAIN output' : output'[i] = Nals[k]
  /\ \A i, j \in DOMAIN output', k, l \in DOMAIN Nals :
       i < j /\ output'[i] = Nals[k] /\ output'[j] = Nals[l] => k < l

(* A part of the sender's NAL units is in order.                           *)
LEMMA DeliversInterval ==
  ASSUME NEW a \in DOMAIN Nals, NEW b \in DOMAIN Nals, a <= b,
         output' = SubSeq(Nals, a, b)
  PROVE  Delivers(a..b)
<1> DEFINE all == {Nals[k] : k \in DOMAIN Nals}
<1>1. /\ Len(Nals) \in Nat /\ DOMAIN Nals = 1..Len(Nals)
      /\ Nals \in Seq(all)
  BY ScriptShape, ScriptAssumption DEF ScriptAssumption, IsSequence
<1> HIDE DEF all
<1>2. /\ output' \in Seq(all)
      /\ Len(output') = b - a + 1
      /\ \A i \in 1..(b - a + 1) : output'[i] = Nals[a + i - 1]
  BY <1>1
<1>3. DOMAIN output' = 1..(b - a + 1)
  BY <1>1, <1>2
<1>4. \A k, l \in DOMAIN Nals : Nals[k] = Nals[l] => k = l
  BY NalShape
<1>5. \A i \in DOMAIN output' :
        /\ a + i - 1 \in a..b /\ a + i - 1 \in DOMAIN Nals
        /\ output'[i] = Nals[a + i - 1]
  BY <1>1, <1>2, <1>3
<1>6. \A k \in a..b : \E i \in DOMAIN output' : output'[i] = Nals[k]
  <2>1. SUFFICES ASSUME NEW k \in a..b PROVE output'[k - a + 1] = Nals[k]
    BY <1>1, <1>3
  <2>2. k - a + 1 \in 1..(b - a + 1) /\ a + (k - a + 1) - 1 = k
    BY <1>1
  <2>3. QED
    BY <1>2, <2>2
<1>7. ASSUME NEW i \in DOMAIN output', NEW j \in DOMAIN output',
             NEW k \in DOMAIN Nals, NEW l \in DOMAIN Nals,
             i < j, output'[i] = Nals[k], output'[j] = Nals[l]
      PROVE  k < l
  <2>1. k = a + i - 1 /\ l = a + j - 1
    BY <1>4, <1>5, <1>7
  <2>2. QED
    BY <1>1, <1>3, <1>7, <2>1
<1>8. QED
  BY <1>2, <1>5, <1>6, <1>7 DEF Delivers, all

(* So are none of them.                                                    *)
LEMMA DeliversNothing ==
  ASSUME output' = <<>>
  PROVE  Delivers({})
BY DEF Delivers

(* The fields of the packet that is pushed, by its index.                  *)
LEMMA SentFields ==
  ASSUME SessionInv, NEW index \in DOMAIN Script,
         NEW packet, packet = Sent(index)
  PROVE  /\ IsH264Packet(packet)
         /\ packet.sequence_number = (first_number + index) % SequenceModulus
         /\ packet.ssrc = SenderSsrc
         /\ packet.payload_type = ConfiguredPayloadType
         /\ packet.timestamp = Script[index].timestamp
         /\ packet.marker = Script[index].marker
         /\ packet.payload = Script[index].payload
BY SentIsPacket DEF SessionInv, DeliveryTypes

(* A packet of whole NAL units delivers them all, and ends the NAL unit    *)
(* that was being collected.                                               *)
LEMMA WholePacketOutcome ==
  ASSUME SessionInv, NEW index \in DOMAIN Script,
         NEW packet, packet = Sent(index), Analyze(packet),
         IsSingle(Script[index]) \/ IsAggregation(Script[index])
  PROVE  /\ active' = Nothing
         /\ FuFailure(packet) # NoCode <=> active # Nothing
         /\ Rejection(packet) = NoCode
         /\ Delivers(Script[index].carries)
<1>1. packet.payload = Script[index].payload
  BY SentFields
<1>2. ~ IsFuA(packet)
  BY <1>1 DEF IsFuA, IsSingle, IsAggregation
<1>3. FuFailure(packet) # NoCode <=> active # Nothing
  BY <1>2 DEF FuFailure, Interrupts, NoCode
<1>4. active' = Nothing /\ output' = Completed(packet)
  BY <1>2, <1>3 DEF Analyze, Reassembly, Remaining, Step
<1>5. CASE IsSingle(Script[index])
  <2>1. PICK k \in DOMAIN Nals : /\ Script[index].carries = {k}
                                 /\ packet.payload.nal = Nals[k]
    BY <1>1, <1>5 DEF IsSingle
  <2>2. packet.payload.kind = "single_nal_unit"
    BY <1>1, <1>5 DEF IsSingle
  <2>3. output' = <<Nals[k]>>
    BY <1>4, <2>1, <2>2 DEF Completed, Rejection, NoCode
  <2>4. DOMAIN output' = {1} /\ output'[1] = Nals[k]
    BY <2>3
  <2>5. output' \in Seq({Nals[l] : l \in DOMAIN Nals})
    BY <2>3
  <2>6. Delivers({k})
    BY <2>4, <2>5 DEF Delivers
  <2>7. Rejection(packet) = NoCode
    BY <2>2 DEF Rejection
  <2>8. QED
    BY <1>3, <1>4, <2>1, <2>6, <2>7
<1>6. CASE IsAggregation(Script[index])
  <2>1. PICK first \in DOMAIN Nals, last \in DOMAIN Nals :
          /\ first <= last
          /\ Script[index].carries = first..last
          /\ packet.payload.units = SubSeq(Nals, first, last)
    BY <1>1, <1>6 DEF IsAggregation
  <2>2. packet.payload.kind = "stap_a"
    BY <1>1, <1>6 DEF IsAggregation
  <2>3. StapAIsValid(packet.payload)
    <3> DEFINE all == {Nals[k] : k \in DOMAIN Nals}
               units == packet.payload.units
    <3>1. /\ Len(Nals) \in Nat /\ DOMAIN Nals = 1..Len(Nals)
          /\ Nals \in Seq(all)
      BY ScriptShape, ScriptAssumption DEF ScriptAssumption, IsSequence
    <3> HIDE DEF all
    <3>2. units \in Seq(all) /\ Len(units) = last - first + 1
      BY <2>1, <3>1
    <3>3. Len(units) >= 1
      BY <2>1, <3>1, <3>2
    <3> HIDE DEF units
    <3>4. units # <<>>
      BY <3>3
    <3>5. \A i \in DOMAIN units : units[i] \in all
      BY <3>2
    <3>6. \A i \in DOMAIN units : units[i] # Malformed
      <4>1. \A k \in DOMAIN Nals : Nals[k] # Malformed
        BY NalShape, Zenon
      <4>2. QED
        BY <3>5, <4>1 DEF all
    <3>7. QED
      BY <3>4, <3>6 DEF StapAIsValid, units
  <2>4. output' = SubSeq(Nals, first, last)
    BY <1>4, <2>1, <2>2, <2>3 DEF Completed, Rejection, NoCode
  <2>5. Delivers(first..last)
    BY <2>1, <2>4, DeliversInterval
  <2>6. Rejection(packet) = NoCode
    BY <2>2, <2>3 DEF Rejection
  <2>7. QED
    BY <1>3, <1>4, <2>1, <2>5, <2>6
<1>7. QED
  BY <1>5, <1>6

(* The sizes of the fragments of a NAL unit, and of what they add up to.   *)
LEMMA FragmentSizes ==
  ASSUME NEW k \in DOMAIN Nals,
         NEW first \in DOMAIN Script, NEW last \in DOMAIN Script,
         NEW offsets \in [(first - 1)..last -> 0..Len(Nals[k].bytes)],
         AreFragments(k, first, last, offsets),
         NEW i \in first..last
  PROVE  LET bytes == Nals[k].bytes
             fragment == Script[i].payload.bytes
         IN  /\ Len(fragment) = offsets[i] - offsets[i - 1]
             /\ offsets[i - 1] \in 0..Len(bytes) /\ offsets[i] \in 0..Len(bytes)
             /\ offsets[i - 1] <= offsets[i]
             /\ Len(SubSeq(bytes, 1, offsets[i - 1])) = offsets[i - 1]
             /\ SubSeq(bytes, 1, offsets[i - 1]) \o fragment
                  = SubSeq(bytes, 1, offsets[i])
<1> DEFINE bytes == Nals[k].bytes
           tokens == {bytes[j] : j \in DOMAIN bytes}
           o == offsets[i - 1]
           q == offsets[i]
<1>1. bytes \in Seq(tokens) /\ Len(bytes) \in Nat
  BY NalShape
<1>2. i \in (first - 1)..last /\ i - 1 \in (first - 1)..last
  BY ScriptShape
<1>3. o \in 0..Len(bytes) /\ q \in 0..Len(bytes)
  BY <1>2
<1>4. Script[i].payload.bytes = SubSeq(bytes, o + 1, q) /\ o <= q
  <2>1. /\ Script[i].payload.bytes
             = SubSeq(Nals[k].bytes, offsets[i - 1] + 1, offsets[i])
        /\ offsets[i - 1] <= offsets[i]
    BY DEF AreFragments
  <2>2. QED
    BY <2>1
<1> HIDE DEF bytes, tokens, o, q
<1>5. /\ SubSeq(bytes, o + 1, q) \in Seq(tokens)
      /\ Len(SubSeq(bytes, o + 1, q)) = q - o
      /\ SubSeq(bytes, 1, o) \in Seq(tokens) /\ Len(SubSeq(bytes, 1, o)) = o
      /\ SubSeq(bytes, 1, q) \in Seq(tokens) /\ Len(SubSeq(bytes, 1, q)) = q
  BY <1>1, <1>3, <1>4
<1>6. SubSeq(bytes, 1, o) \o SubSeq(bytes, o + 1, q) = SubSeq(bytes, 1, q)
  BY <1>1, <1>3, <1>4
<1>7. QED
  BY <1>3, <1>4, <1>5, <1>6 DEF bytes, o, q

(* The analyzer reads a fragment of the sender as what it is.              *)
LEMMA FragmentIsRead ==
  ASSUME SessionInv, NEW k \in DOMAIN Nals,
         NEW first \in DOMAIN Script, NEW last \in DOMAIN Script,
         NEW offsets \in [(first - 1)..last -> 0..Len(Nals[k].bytes)],
         AreFragments(k, first, last, offsets),
         Len(Nals[k].bytes) < MaxNalUnitSize,
         NEW index \in first..last,
         NEW packet, packet = Sent(index)
  PROVE  /\ IsFuA(packet)
         /\ FragmentIsValid(packet)
         /\ packet.payload.start <=> index = first
         /\ packet.payload.end <=> index = last
         /\ StartFits(packet)
         /\ packet.payload.nal_ref_idc = Nals[k].nal_ref_idc
         /\ packet.payload.nal_unit_type = Nals[k].nal_unit_type
         /\ packet.payload.bytes = Script[index].payload.bytes
         /\ packet.timestamp = Script[first].timestamp
         /\ Rejection(packet)
              = IF index # first /\ active = Nothing
                THEN "H264_FU_A_MISSING_START" ELSE NoCode
<1>0. /\ Len(Script[index].payload.bytes) = offsets[index] - offsets[index - 1]
      /\ offsets[index - 1] \in 0..Len(Nals[k].bytes)
      /\ offsets[index] \in 0..Len(Nals[k].bytes)
  BY FragmentSizes
<1>1. /\ packet.payload = Script[index].payload
      /\ packet.marker = Script[index].marker
      /\ packet.timestamp = Script[index].timestamp
  <2>1. index \in DOMAIN Script
    BY ScriptShape
  <2>2. QED
    BY <2>1, SentFields
<1>2. /\ packet.payload.kind = "fu_a"
      /\ packet.payload.well_formed
      /\ packet.payload.start <=> index = first
      /\ packet.payload.end <=> index = last
      /\ packet.payload.nal_ref_idc = Nals[k].nal_ref_idc
      /\ packet.payload.nal_unit_type = Nals[k].nal_unit_type
      /\ packet.timestamp = Script[first].timestamp
      /\ packet.marker => index = last
      /\ first < last
  BY <1>1 DEF AreFragments
<1>3. FragmentIsValid(packet)
  <2>1. ~ (packet.payload.start /\ packet.payload.end)
    BY <1>2, ScriptShape
  <2>2. packet.marker => packet.payload.end
    BY <1>2
  <2>3. QED
    BY <1>2, <2>1, <2>2, Zenon DEF FragmentIsValid
<1>4. StartFits(packet)
  <2> DEFINE size == Len(Nals[k].bytes)
             o == offsets[index - 1]
             q == offsets[index]
  <2>1. Len(packet.payload.bytes) = q - o /\ o \in 0..size /\ q \in 0..size
    BY <1>0, <1>1
  <2>2. size \in Nat /\ MaxNalUnitSize \in Int /\ size < MaxNalUnitSize
    BY NalShape, H264Assumption DEF H264Assumption
  <2> HIDE DEF size, o, q
  <2>3. QED
    BY <2>1, <2>2 DEF StartFits
<1>5. IsFuA(packet) /\ Rejection(packet) = FragmentRejection(packet)
  BY <1>2 DEF IsFuA, Rejection
<1>6. FragmentRejection(packet)
        = IF index # first /\ active = Nothing
          THEN "H264_FU_A_MISSING_START" ELSE NoCode
  <2>1. packet.payload.start <=> index = first
    BY <1>2
  <2>2. QED
    BY <1>3, <1>4, <2>1 DEF FragmentRejection
<1>7. QED
  BY <1>1, <1>2, <1>3, <1>4, <1>5, <1>6

(* A start fragment opens its NAL unit, in place of any that was open.     *)
LEMMA StartOutcome ==
  ASSUME SessionInv, NEW k \in DOMAIN Nals,
         NEW first \in DOMAIN Script, NEW last \in DOMAIN Script,
         NEW offsets \in [(first - 1)..last -> 0..Len(Nals[k].bytes)],
         AreFragments(k, first, last, offsets),
         Len(Nals[k].bytes) < MaxNalUnitSize,
         NEW packet, packet = Sent(first), Analyze(packet)
  PROVE  /\ active' = Opened(packet)
         /\ output' = <<>>
         /\ FuFailure(packet) # NoCode <=> active # Nothing
<1>0. first \in first..last
  BY ScriptShape DEF AreFragments
<1>1. /\ IsFuA(packet) /\ FragmentIsValid(packet) /\ StartFits(packet)
      /\ packet.payload.start /\ Rejection(packet) = NoCode
  BY <1>0, FragmentIsRead
<1>2. FuFailure(packet) # NoCode <=> active # Nothing
  BY <1>1 DEF FuFailure, Interrupts, NoCode
<1>3. Remaining(packet) = Nothing
  BY <1>2 DEF Remaining
<1>4. Reassembly(packet) = Step("pending", Opened(packet), Nothing)
  BY <1>1, <1>3 DEF Reassembly, Reassemble
<1>5. Completed(packet) = <<>>
  <2>1. packet.payload.kind = "fu_a"
    BY <1>1 DEF IsFuA
  <2>2. Reassembly(packet).nal = Nothing
    BY <1>4 DEF Step
  <2>3. QED
    BY <1>1, <2>1, <2>2 DEF Completed
<1>6. active' = Opened(packet)
  BY <1>4 DEF Analyze, Step
<1>7. QED
  BY <1>2, <1>5, <1>6 DEF Analyze

(* The next fragment of the open NAL unit extends it or completes it.      *)
LEMMA ContinuationOutcome ==
  ASSUME SessionInv, active # Nothing, newest # None,
         NEW k \in DOMAIN Nals,
         NEW first \in DOMAIN Script, NEW last \in DOMAIN Script,
         NEW offsets \in [(first - 1)..last -> 0..Len(Nals[k].bytes)],
         IsCollecting(k, first, last, offsets),
         NEW index \in DOMAIN Script, index = newest + 1,
         NEW packet, packet = Sent(index), Analyze(packet)
  PROVE  /\ index \in (first + 1)..last
         /\ FuFailure(packet) = NoCode
         /\ index < last =>
              /\ active' = Extended(active, packet)
              /\ active'.bytes = SubSeq(Nals[k].bytes, 1, offsets[index])
              /\ output' = <<>>
         /\ index = last => active' = Nothing /\ Delivers({k})
<1>1. /\ Len(Nals[k].bytes) < MaxNalUnitSize
      /\ AreFragments(k, first, last, offsets)
      /\ newest \in first..(last - 1)
      /\ active.nal_unit_type = Nals[k].nal_unit_type
      /\ active.nal_ref_idc = Nals[k].nal_ref_idc
      /\ active.bytes = SubSeq(Nals[k].bytes, 1, offsets[newest])
      /\ active.timestamp = Script[first].timestamp
  BY DEF IsCollecting
<1>2. /\ index \in first..last /\ index # first /\ index - 1 = newest
      /\ index \in (first + 1)..last
  BY <1>1, ScriptShape
<1>3. /\ IsFuA(packet) /\ FragmentIsValid(packet)
      /\ ~ packet.payload.start
      /\ packet.payload.end <=> index = last
      /\ packet.payload.nal_ref_idc = Nals[k].nal_ref_idc
      /\ packet.payload.nal_unit_type = Nals[k].nal_unit_type
      /\ packet.payload.bytes = Script[index].payload.bytes
      /\ packet.timestamp = Script[first].timestamp
      /\ Rejection(packet) = NoCode
  BY <1>1, <1>2, FragmentIsRead
<1>4. ~ BreaksSequence(packet)
  <2>1. index \in (newest - MaxDisplacement)..(newest + MaxJump)
    BY <1>2, ScriptShape, NetworkAssumption DEF NetworkAssumption
  <2>2. packet.sequence_number = (first_number + index) % SequenceModulus
    BY SentFields
  <2>3. packet.sequence_number = NextSequenceNumber(HighestRaw)
    BY <2>1, <2>2, AheadIsNewer
  <2>4. active.expected_sequence_number = NextSequenceNumber(HighestRaw)
    BY DEF SessionInv, H264Inv, ActiveFollowsHighest
  <2>5. QED
    BY <2>3, <2>4 DEF BreaksSequence
<1>5. SameContext(active, packet)
  <2>1. packet.ssrc = SenderSsrc /\ packet.payload_type = ConfiguredPayloadType
    BY SentFields
  <2>2. active.ssrc = SenderSsrc /\ active.payload_type = ConfiguredPayloadType
    BY DEF SessionInv, H264Inv, ActiveFollowsHighest, HighestIsNewest
  <2>3. QED
    BY <1>1, <1>3, <2>1, <2>2 DEF SameContext
<1>6. /\ ContinuationFits(active, packet)
      /\ active.bytes \o packet.payload.bytes
           = SubSeq(Nals[k].bytes, 1, offsets[index])
  <2> DEFINE size == Len(Nals[k].bytes)
             o == offsets[index - 1]
             q == offsets[index]
  <2>1. /\ Len(packet.payload.bytes) = q - o /\ o \in 0..size /\ q \in 0..size
        /\ Len(active.bytes) = o
        /\ active.bytes \o packet.payload.bytes
             = SubSeq(Nals[k].bytes, 1, offsets[index])
    <3>1. /\ Len(Script[index].payload.bytes) = offsets[index] - offsets[index - 1]
          /\ offsets[index - 1] \in 0..Len(Nals[k].bytes)
          /\ offsets[index] \in 0..Len(Nals[k].bytes)
          /\ Len(SubSeq(Nals[k].bytes, 1, offsets[index - 1])) = offsets[index - 1]
          /\ SubSeq(Nals[k].bytes, 1, offsets[index - 1])
               \o Script[index].payload.bytes
                 = SubSeq(Nals[k].bytes, 1, offsets[index])
      BY <1>1, <1>2, FragmentSizes
    <3>2. active.bytes = SubSeq(Nals[k].bytes, 1, offsets[index - 1])
      BY <1>1, <1>2
    <3>3. QED
      BY <1>3, <3>1, <3>2
  <2>2. /\ size \in Nat /\ size < MaxNalUnitSize
        /\ SizeModulus \in Nat \ {0} /\ MaxNalUnitSize \in 0..(SizeModulus - 1)
    BY <1>1, NalShape, H264Assumption DEF H264Assumption
  <2> HIDE DEF size, o, q
  <2> DEFINE room == MaxNalUnitSize - (o + 1)
  <2>3. room \in 0..(SizeModulus - 1) /\ q - o <= room
    BY <2>1, <2>2
  <2>4. room % SizeModulus = room
    BY <2>2, <2>3, ResidueIsUnique, room = SizeModulus * 0 + room
  <2>5. MaxNalUnitSize - Size(active) = room
    BY <2>1 DEF Size
  <2> HIDE DEF room
  <2>6. ContinuationFits(active, packet)
    BY <2>1, <2>3, <2>4, <2>5 DEF ContinuationFits
  <2>7. QED
    BY <2>1, <2>6
<1>7. FuFailure(packet) = NoCode /\ Remaining(packet) = active
  BY <1>3, <1>4, <1>5, <1>6 DEF FuFailure, Remaining, Interrupts, NoCode
<1>8. Reassembly(packet) = Reassemble(active, packet) /\ Continues(active, packet)
  BY <1>3, <1>4, <1>5, <1>6, <1>7 DEF Reassembly, Continues, BreaksSequence
<1>9. Extended(active, packet).bytes = SubSeq(Nals[k].bytes, 1, offsets[index])
  <2>1. IsActive(active)
    BY DEF SessionInv, H264Inv, ActiveShape
  <2>2. Extended(active, packet).bytes = active.bytes \o packet.payload.bytes
    BY <2>1 DEF Extended, IsActive
  <2>3. QED
    BY <1>6, <2>2
<1>10. packet.payload.kind = "fu_a"
  BY <1>3 DEF IsFuA
<1>11. ASSUME index < last
       PROVE  /\ active' = Extended(active, packet)
              /\ output' = <<>>
  <2>1. ~ packet.payload.end
    BY <1>2, <1>3, <1>11, ScriptShape
  <2>2. Reassembly(packet) = Step("pending", Extended(active, packet), Nothing)
    BY <1>3, <1>8, <2>1 DEF Reassemble
  <2>3. /\ Reassembly(packet).active = Extended(active, packet)
        /\ Reassembly(packet).nal = Nothing
    BY <2>2 DEF Step
  <2>4. Completed(packet) = <<>>
    BY <1>3, <1>10, <2>3 DEF Completed
  <2>5. QED
    BY <2>3, <2>4 DEF Analyze
<1>12. ASSUME index = last
       PROVE  active' = Nothing /\ Delivers({k})
  <2>1. packet.payload.end
    BY <1>3, <1>12
  <2>2. Reassembly(packet)
          = Step("completed", Nothing,
                 NalUnit(active.nal_unit_type, active.nal_ref_idc,
                         Extended(active, packet).bytes))
    BY <1>3, <1>8, <2>1 DEF Reassemble
  <2>3. Extended(active, packet).bytes = Nals[k].bytes
    <3> DEFINE bytes == Nals[k].bytes
               tokens == {bytes[j] : j \in DOMAIN bytes}
    <3>1. offsets[index] = Len(bytes)
      BY <1>1, <1>12 DEF AreFragments
    <3>2. bytes \in Seq(tokens)
      BY NalShape
    <3> HIDE DEF bytes, tokens
    <3>3. SubSeq(bytes, 1, Len(bytes)) = bytes
      BY <3>2
    <3>4. QED
      BY <1>9, <3>1, <3>3 DEF bytes
  <2>4. Nals[k] = NalUnit(Nals[k].nal_unit_type, Nals[k].nal_ref_idc, Nals[k].bytes)
    BY ScriptAssumption DEF ScriptAssumption
  <2>5. Reassembly(packet) = Step("completed", Nothing, Nals[k])
    BY <1>1, <2>2, <2>3, <2>4
  <2>6. Reassembly(packet).active = Nothing /\ Reassembly(packet).nal = Nals[k]
    BY <2>5 DEF Step
  <2>7. Completed(packet) = <<Nals[k]>>
    BY <1>3, <1>10, <2>6, NalShape DEF Completed
  <2>8. active' = Nothing /\ output' = <<Nals[k]>>
    BY <2>6, <2>7 DEF Analyze
  <2>9. DOMAIN output' = {1} /\ output'[1] = Nals[k]
    BY <2>8
  <2>10. output' \in Seq({Nals[l] : l \in DOMAIN Nals})
    BY <2>8
  <2>11. QED
    BY <2>8, <2>9, <2>10 DEF Delivers
<1>13. QED
  BY <1>2, <1>7, <1>9, <1>11, <1>12

(* A fragment whose predecessors are not all there is ignored, and ends    *)
(* the NAL unit that was being collected.                                  *)
LEMMA OrphanOutcome ==
  ASSUME SessionInv, NEW k \in DOMAIN Nals,
         NEW first \in DOMAIN Script, NEW last \in DOMAIN Script,
         NEW offsets \in [(first - 1)..last -> 0..Len(Nals[k].bytes)],
         AreFragments(k, first, last, offsets),
         Len(Nals[k].bytes) < MaxNalUnitSize,
         NEW index \in DOMAIN Script, index \in (first + 1)..last,
         newest # None =>
           index \in (newest - MaxDisplacement)..(newest + MaxJump),
         active # Nothing => newest # None /\ index # newest + 1,
         NEW packet, packet = Sent(index), Analyze(packet)
  PROVE  /\ active' = Nothing
         /\ output' = <<>>
         /\ FuFailure(packet) # NoCode <=> active # Nothing
<1>1. index \in first..last /\ index # first
  BY ScriptShape
<1>2. /\ IsFuA(packet) /\ FragmentIsValid(packet)
      /\ ~ packet.payload.start
      /\ Rejection(packet) = IF active = Nothing
                             THEN "H264_FU_A_MISSING_START" ELSE NoCode
  BY <1>1, FragmentIsRead
<1>3. active # Nothing => BreaksSequence(packet)
  <2>1. SUFFICES ASSUME active # Nothing PROVE BreaksSequence(packet)
    OBVIOUS
  <2>2. packet.sequence_number = (first_number + index) % SequenceModulus
    BY SentFields
  <2>3. packet.sequence_number # NextSequenceNumber(HighestRaw)
    BY <2>1, <2>2, AheadIsNewer
  <2>4. active.expected_sequence_number = NextSequenceNumber(HighestRaw)
    BY <2>1 DEF SessionInv, H264Inv, ActiveFollowsHighest
  <2>5. QED
    BY <2>3, <2>4 DEF BreaksSequence
<1>4. FuFailure(packet) # NoCode <=> active # Nothing
  BY <1>3 DEF FuFailure, NoCode
<1>5. Remaining(packet) = Nothing
  BY <1>4 DEF Remaining
<1>6. Reassembly(packet) = Step("none", Nothing, Nothing)
  BY <1>2, <1>5 DEF Reassembly
<1>7. Reassembly(packet).active = Nothing /\ Reassembly(packet).nal = Nothing
  BY <1>6 DEF Step
<1>8. Completed(packet) = <<>>
  <2>1. packet.payload.kind = "fu_a"
    BY <1>2 DEF IsFuA
  <2>2. QED
    BY <1>2, <1>7, <2>1 DEF Completed
<1>9. QED
  BY <1>4, <1>7, <1>8 DEF Analyze

-----------------------------------------------------------------------------
(* The NAL units that were begun, and the one that is open.                *)

(* A fragmented NAL unit begins with the packet that starts it.            *)
LEMMA FragmentedShape ==
  ASSUME NEW k \in DOMAIN Nals,
         NEW first \in DOMAIN Script, NEW last \in DOMAIN Script,
         PacketsOf[k] = first..last,
         NEW offsets, AreFragments(k, first, last, offsets)
  PROVE  /\ k \in FragmentedNals
         /\ FirstPacketOf[k] = first
         /\ first \in PacketsOf[k] /\ last \in PacketsOf[k] /\ first < last
         /\ \A index \in PacketsOf[k], l \in DOMAIN Nals :
              index \in PacketsOf[l] => l = k
<1>1. first < last /\ first \in PacketsOf[k] /\ last \in PacketsOf[k]
  BY ScriptShape DEF AreFragments
<1>2. \A i \in first..last : /\ Script[i].carries = {k}
                             /\ Script[i].payload.kind = "fu_a"
  BY DEF AreFragments
<1>3. k \in FragmentedNals
  BY <1>1, <1>2 DEF FragmentedNals
<1>4. FirstPacketOf[k] = first
  <2> DEFINE IsFirst(x) == x \in PacketsOf[k]
                             /\ \A index \in PacketsOf[k] : x <= index
  <2>1. \A index \in PacketsOf[k] : first <= index
    BY ScriptShape
  <2>2. FirstPacketOf[k] = CHOOSE x \in PacketsOf[k] :
                             \A index \in PacketsOf[k] : x <= index
    BY DEF FirstPacketOf
  <2>3. /\ FirstPacketOf[k] \in PacketsOf[k]
        /\ \A index \in PacketsOf[k] : FirstPacketOf[k] <= index
    BY <1>1, <2>1, <2>2
  <2>4. QED
    BY <1>1, <2>1, <2>3, ScriptShape
<1>5. ASSUME NEW index \in PacketsOf[k], NEW l \in DOMAIN Nals,
             index \in PacketsOf[l]
      PROVE  l = k
  <2>1. index \in DOMAIN Script /\ Script[index].carries = {k}
    BY <1>2, <1>5, PacketsShape
  <2>2. l \in Script[index].carries
    BY <1>5, <2>1, PacketsShape
  <2>3. QED
    BY <2>1, <2>2
<1>6. QED
  BY <1>1, <1>3, <1>4, <1>5

(* A packet carries whole NAL units, which no other packet carries, or     *)
(* a fragment.                                                             *)
LEMMA PacketKinds ==
  ASSUME NEW index \in DOMAIN Script
  PROVE  \/ /\ IsSingle(Script[index]) \/ IsAggregation(Script[index])
            /\ \A k \in DOMAIN Nals :
                 index \in PacketsOf[k] =>
                   PacketsOf[k] = {index} /\ k \notin FragmentedNals
         \/ \E k, first, last, offsets :
              /\ k \in DOMAIN Nals
              /\ first \in DOMAIN Script /\ last \in DOMAIN Script
              /\ offsets \in [(first - 1)..last -> 0..Len(Nals[k].bytes)]
              /\ PacketsOf[k] = first..last
              /\ AreFragments(k, first, last, offsets)
              /\ Len(Nals[k].bytes) < MaxNalUnitSize
              /\ index \in first..last
<1>1. ASSUME NEW k \in DOMAIN Nals, index \in PacketsOf[k], IsFragmented(k)
      PROVE  \E first, last, offsets :
              /\ first \in DOMAIN Script /\ last \in DOMAIN Script
              /\ offsets \in [(first - 1)..last -> 0..Len(Nals[k].bytes)]
              /\ PacketsOf[k] = first..last
              /\ AreFragments(k, first, last, offsets)
              /\ Len(Nals[k].bytes) < MaxNalUnitSize
              /\ index \in first..last
  BY <1>1 DEF IsFragmented
<1>2. CASE IsSingle(Script[index]) \/ IsAggregation(Script[index])
  <2>1. SUFFICES ASSUME NEW k \in DOMAIN Nals, index \in PacketsOf[k]
                 PROVE  PacketsOf[k] = {index} /\ k \notin FragmentedNals
    BY <1>2
  <2>2. Script[index].payload.kind # "fu_a"
    BY <1>2 DEF IsSingle, IsAggregation
  <2>3. ~ IsFragmented(k)
    <3>1. SUFFICES ASSUME IsFragmented(k) PROVE FALSE
      OBVIOUS
    <3>2. PICK first, last, offsets :
                 index \in first..last /\ AreFragments(k, first, last, offsets)
      BY <1>1, <2>1, <3>1
    <3>3. QED
      BY <2>2, <3>2 DEF AreFragments
  <2>4. ASSUME NEW other \in PacketsOf[k], other # index
        PROVE  FALSE
    <3>1. other \in DOMAIN Script /\ (other < index \/ index < other)
      BY <2>4, PacketsShape, ScriptShape
    <3>2. CASE other < index
      BY <2>1, <2>3, <2>4, <3>1, <3>2, ScriptShape, CarriesInOrder
    <3>3. CASE index < other
      BY <2>1, <2>3, <2>4, <3>1, <3>3, ScriptShape, CarriesInOrder
    <3>4. QED
      BY <3>1, <3>2, <3>3
  <2>5. PacketsOf[k] = {index}
    BY <2>1, <2>4
  <2>6. QED
    BY <2>2, <2>5 DEF FragmentedNals
<1>3. CASE \E k \in Script[index].carries : IsFragmented(k)
  <2>1. PICK k \in DOMAIN Nals : index \in PacketsOf[k] /\ IsFragmented(k)
    BY <1>3, CarriesNals, PacketsShape
  <2>2. PICK first, last, offsets :
              /\ first \in DOMAIN Script /\ last \in DOMAIN Script
              /\ offsets \in [(first - 1)..last -> 0..Len(Nals[k].bytes)]
              /\ PacketsOf[k] = first..last
              /\ AreFragments(k, first, last, offsets)
              /\ Len(Nals[k].bytes) < MaxNalUnitSize
              /\ index \in first..last
    BY <1>1, <2>1
  <2>3. QED
    BY <2>2
<1>4. QED
  BY <1>2, <1>3, CarriesNals

(* The NAL unit that is being collected is the one that is open.           *)
LEMMA OpenNal ==
  ASSUME SessionInv
  PROVE  /\ active = Nothing => \A l \in DOMAIN Nals : ~ IsOpen(l)
         /\ active # Nothing =>
              /\ newest # None
              /\ \E k, first, last, offsets :
                   /\ k \in DOMAIN Nals
                   /\ first \in DOMAIN Script /\ last \in DOMAIN Script
                   /\ offsets \in [(first - 1)..last -> 0..Len(Nals[k].bytes)]
                   /\ IsCollecting(k, first, last, offsets)
                   /\ \A l \in DOMAIN Nals : IsOpen(l) <=> l = k
                   /\ k \in FragmentedNals
                   /\ FirstPacketOf[k] = first
                   /\ first \in accepted
                   /\ ~ IsReceived(k)
                   /\ IsIdr(Nals[k]) <=> IsIdr(active)
<1>1. active = Nothing => \A l \in DOMAIN Nals : ~ IsOpen(l)
  BY DEF IsOpen
<1>2. SUFFICES ASSUME active # Nothing
               PROVE  /\ newest # None
                      /\ \E k, first, last, offsets :
                           /\ k \in DOMAIN Nals
                           /\ first \in DOMAIN Script /\ last \in DOMAIN Script
                           /\ offsets \in [(first - 1)..last
                                             -> 0..Len(Nals[k].bytes)]
                           /\ IsCollecting(k, first, last, offsets)
                           /\ \A l \in DOMAIN Nals : IsOpen(l) <=> l = k
                           /\ k \in FragmentedNals
                           /\ FirstPacketOf[k] = first
                           /\ first \in accepted
                           /\ ~ IsReceived(k)
                           /\ IsIdr(Nals[k]) <=> IsIdr(active)
  BY <1>1
<1>3. newest # None
  BY <1>2 DEF SessionInv, H264Inv, ActiveFollowsHighest, NothingBeforeFirstPacket
<1>4. PICK k, first, last, offsets :
        /\ k \in DOMAIN Nals
        /\ first \in DOMAIN Script /\ last \in DOMAIN Script
        /\ offsets \in [(first - 1)..last -> 0..Len(Nals[k].bytes)]
        /\ IsCollecting(k, first, last, offsets)
  BY <1>2 DEF SessionInv, ActiveIsPrefix
<1>5. /\ PacketsOf[k] = first..last
      /\ AreFragments(k, first, last, offsets)
      /\ newest \in first..(last - 1)
      /\ first..newest \subseteq accepted
      /\ active.nal_unit_type = Nals[k].nal_unit_type
      /\ active.start_sequence_number
           = (first_number + first) % SequenceModulus
  BY <1>4 DEF IsCollecting
<1>6. /\ k \in FragmentedNals
      /\ FirstPacketOf[k] = first
      /\ last \in PacketsOf[k]
      /\ \A index \in PacketsOf[k], l \in DOMAIN Nals :
           index \in PacketsOf[l] => l = k
  BY <1>4, <1>5, FragmentedShape
<1>7. newest \in PacketsOf[k] /\ newest < last /\ first \in first..newest
  BY <1>4, <1>5, ScriptShape
<1>8. ~ IsReceived(k)
  <2>1. newest \in Int /\ last \in Int /\ newest < last
    BY <1>4, <1>5, <1>7, ScriptShape
  <2>2. \A index \in accepted : index <= newest
    BY <1>3 DEF SessionInv, HighestIsNewest
  <2>3. last \notin accepted
    BY <2>1, <2>2
  <2>4. QED
    BY <1>4, <1>6, <2>3 DEF SessionInv, ReceivedIffAccepted
<1>9. \A l \in DOMAIN Nals : IsOpen(l) <=> l = k
  BY <1>2, <1>5, <1>6, <1>7 DEF IsOpen
<1>10. IsIdr(Nals[k]) <=> IsIdr(active)
  BY <1>2, <1>4, <1>5, NalShape DEF IsIdr
<1>11. QED
  BY <1>3, <1>4, <1>5, <1>6, <1>7, <1>8, <1>9, <1>10

(* An accepted packet's NAL units that are complete with it.               *)
CompletedBy(index) ==
  {k \in DOMAIN Nals : /\ index \in PacketsOf[k]
                       /\ PacketsOf[k] \subseteq accepted \cup {index}}

(* What a step that accepts packet index does, besides the RTP layer.      *)
Accepts(index, packet) ==
  /\ ~ ended
  /\ index \in DOMAIN Script
  /\ newest # None =>
       /\ index > newest
       /\ index \in (newest - MaxDisplacement)..(newest + MaxJump)
  /\ packet = Sent(index) /\ Analyze(packet)
  /\ newest' = index
  /\ accepted' = accepted \cup {index}
  /\ received_nals' = received_nals \o output'
  /\ UNCHANGED <<first_number, ended>>

(* The accepted packets are older than the one that is accepted.           *)
LEMMA AcceptedBefore ==
  ASSUME SessionInv, NEW index, NEW packet, Accepts(index, packet)
  PROVE  /\ index \in Nat \ {0} /\ index # None
         /\ \A other \in accepted : other \in Nat /\ other < index
<1>1. accepted \subseteq DOMAIN Script
  BY DEF SessionInv, DeliveryTypes
<1>2. newest # None =>
        newest \in DOMAIN Script /\ \A other \in accepted : other <= newest
  BY DEF SessionInv, DeliveryTypes, HighestIsNewest
<1>3. newest = None => accepted = {}
  BY DEF SessionInv, NothingBeforeFirstPacket
<1>4. QED
  BY <1>1, <1>2, <1>3, ScriptShape DEF Accepts

(* What comes out is what is now complete, and stays in order.             *)
LEMMA ReceivedGrows ==
  ASSUME SessionInv, NEW index, NEW packet, Accepts(index, packet),
         Delivers(CompletedBy(index))
  PROVE  /\ received_nals' \in Seq({Nals[k] : k \in DOMAIN Nals})
         /\ \A k \in DOMAIN Nals :
              IsReceived(k)' <=> IsReceived(k) \/ k \in CompletedBy(index)
         /\ ReceivedIffAccepted'
         /\ WholeNalsInOrder'
<1> DEFINE all == {Nals[k] : k \in DOMAIN Nals}
           old == received_nals
           new == received_nals'
<1>1. old \in Seq(all) /\ output' \in Seq(all) /\ new = old \o output'
  BY DEF SessionInv, DeliveryTypes, Delivers, Accepts
<1> HIDE DEF all
<1>2. /\ new \in Seq(all)
      /\ \A i \in DOMAIN old : i \in DOMAIN new /\ new[i] = old[i]
      /\ \A i \in DOMAIN output' : /\ i + Len(old) \in DOMAIN new
                                   /\ new[i + Len(old)] = output'[i]
      /\ \A i \in DOMAIN new : \/ i \in DOMAIN old
                               \/ /\ i - Len(old) \in DOMAIN output'
                                  /\ ~ i \in DOMAIN old
                                  /\ new[i] = output'[i - Len(old)]
      /\ \A i \in DOMAIN new : i \in Int
      /\ \A i, j \in DOMAIN new :
           i < j => \/ i \in DOMAIN old /\ j \in DOMAIN old
                    \/ i \in DOMAIN old /\ ~ j \in DOMAIN old
                    \/ ~ i \in DOMAIN old /\ ~ j \in DOMAIN old
      /\ Len(old) \in Nat
  BY <1>1
<1> HIDE DEF old, new
<1>3. ASSUME NEW k \in DOMAIN Nals
      PROVE  IsReceived(k)' <=> IsReceived(k) \/ k \in CompletedBy(index)
  <2>1. IsReceived(k)' <=> \E i \in DOMAIN new : new[i] = Nals[k]
    BY DEF IsReceived, new
  <2>2. IsReceived(k) <=> \E i \in DOMAIN old : old[i] = Nals[k]
    BY DEF IsReceived, old
  <2>3. k \in CompletedBy(index) <=> \E i \in DOMAIN output' : output'[i] = Nals[k]
    BY NalsDiffer DEF Delivers, CompletedBy
  <2>4. QED
    BY <1>2, <2>1, <2>2, <2>3
<1>4. \A k \in DOMAIN Nals :
        /\ PacketsOf[k] \subseteq accepted' <=>
             PacketsOf[k] \subseteq accepted \/ k \in CompletedBy(index)
        /\ ~ (PacketsOf[k] \subseteq accepted /\ index \in PacketsOf[k])
  <2>1. accepted' = accepted \cup {index} /\ index \notin accepted
    BY AcceptedBefore DEF Accepts
  <2>2. QED
    BY <2>1 DEF CompletedBy
<1>5. ReceivedIffAccepted'
  <2>1. \A k \in DOMAIN Nals : IsReceived(k)' <=> PacketsOf[k] \subseteq accepted'
    BY <1>3, <1>4 DEF SessionInv, ReceivedIffAccepted
  <2>2. QED
    BY <2>1 DEF ReceivedIffAccepted
<1>6. ASSUME NEW k \in DOMAIN Nals, NEW l \in DOMAIN Nals,
             PacketsOf[k] \subseteq accepted, index \in PacketsOf[l]
      PROVE  k < l
  <2>1. PICK other \in PacketsOf[k] : other \in DOMAIN Script
    BY PacketsShape
  <2>2. other < index /\ index \in DOMAIN Script
    BY <1>6, <2>1, AcceptedBefore DEF Accepts
  <2>3. k # l
    BY <1>4, <1>6
  <2>4. QED
    BY <1>6, <2>1, <2>2, <2>3, CarriesInOrder
<1>7. ASSUME NEW i \in DOMAIN new, NEW j \in DOMAIN new,
             NEW k \in DOMAIN Nals, NEW l \in DOMAIN Nals,
             i < j, new[i] = Nals[k], new[j] = Nals[l]
      PROVE  k < l
  <2>1. CASE i \in DOMAIN old /\ j \in DOMAIN old
    <3>1. old[i] = Nals[k] /\ old[j] = Nals[l]
      BY <1>2, <1>7, <2>1
    <3>2. QED
      BY <1>7, <2>1, <3>1 DEF SessionInv, WholeNalsInOrder, old
  <2>2. CASE i \in DOMAIN old /\ ~ j \in DOMAIN old
    <3>1. old[i] = Nals[k]
      BY <1>2, <1>7, <2>2
    <3>2. PacketsOf[k] \subseteq accepted
      BY <2>2, <3>1 DEF SessionInv, ReceivedIffAccepted, IsReceived, old
    <3>3. j - Len(old) \in DOMAIN output' /\ output'[j - Len(old)] = Nals[l]
      BY <1>2, <1>7, <2>2
    <3>4. index \in PacketsOf[l]
      BY <3>3, NalsDiffer DEF Delivers, CompletedBy
    <3>5. QED
      BY <1>6, <3>2, <3>4
  <2>3. CASE ~ i \in DOMAIN old /\ ~ j \in DOMAIN old
    <3>1. /\ i - Len(old) \in DOMAIN output' /\ output'[i - Len(old)] = Nals[k]
          /\ j - Len(old) \in DOMAIN output' /\ output'[j - Len(old)] = Nals[l]
      BY <1>2, <1>7, <2>3
    <3>2. i - Len(old) < j - Len(old)
      BY <1>2, <1>7
    <3>3. QED
      BY <3>1, <3>2 DEF Delivers
  <2>4. QED
    BY <1>2, <1>7, <2>1, <2>2, <2>3
<1>8. \A i \in DOMAIN new : \E k \in DOMAIN Nals : new[i] = Nals[k]
  BY <1>2 DEF all
<1>9. WholeNalsInOrder'
  BY <1>7, <1>8 DEF WholeNalsInOrder, new
<1>10. QED
  BY <1>2, <1>3, <1>5, <1>9 DEF all, new

-----------------------------------------------------------------------------
(* What an accepted packet does to the history.                            *)

(* The start fragment was accepted, but the NAL unit has not come out.     *)
Begun(k) == k \in FragmentedNals /\ FirstPacketOf[k] \in accepted /\ ~ IsReceived(k)

(* It has been given up: it is what the report counts as incomplete.       *)
Broken(k) == Begun(k) /\ ~ IsOpen(k)

(* A packet's outcome: it delivers what it completes, collects what can    *)
(* still be completed, and gives up no NAL unit but the open one.          *)
Outcome(index, failed) ==
  /\ Delivers(CompletedBy(index))
  /\ ActiveIsPrefix'
  /\ PrefixIsActive'
  /\ \A k \in DOMAIN Nals : Broken(k)' <=> Begun(k) /\ (IsOpen(k) => failed)

(* A fragmented NAL unit has a first packet.                               *)
LEMMA FragmentedHasFirst ==
  ASSUME NEW k \in FragmentedNals
  PROVE  k \in DOMAIN Nals /\ FirstPacketOf[k] \in PacketsOf[k]
<1>1. PICK index \in PacketsOf[k] :
        k \in DOMAIN Nals /\ index \in DOMAIN Script
  BY PacketsShape DEF FragmentedNals
<1>2. PICK l, first, last, offsets :
        /\ l \in DOMAIN Nals
        /\ first \in DOMAIN Script /\ last \in DOMAIN Script
        /\ PacketsOf[l] = first..last
        /\ AreFragments(l, first, last, offsets)
        /\ index \in first..last
  BY <1>1, PacketKinds
<1>3. l = k /\ FirstPacketOf[l] \in PacketsOf[l]
  BY <1>1, <1>2, FragmentedShape
<1>4. QED
  BY <1>1, <1>3

(* When no other NAL unit begins with the packet or is left open, those    *)
(* that have begun are broken.                                             *)
LEMMA BrokenStep ==
  ASSUME SessionInv, NEW index, NEW packet, Accepts(index, packet),
         Delivers(CompletedBy(index)),
         NEW k \in DOMAIN Nals, k \in FragmentedNals => FirstPacketOf[k] # index,
         k \notin CompletedBy(index), ~ IsOpen(k)'
  PROVE  Broken(k)' <=> Begun(k)
<1>1. IsReceived(k)' <=> IsReceived(k)
  BY ReceivedGrows
<1>2. k \in FragmentedNals =>
        (FirstPacketOf[k] \in accepted' <=> FirstPacketOf[k] \in accepted)
  BY DEF Accepts
<1>3. QED
  BY <1>1, <1>2 DEF Broken, Begun

(* Whole NAL units.                                                        *)
LEMMA WholePacketStep ==
  ASSUME SessionInv, NEW index, NEW packet, Accepts(index, packet),
         IsSingle(Script[index]) \/ IsAggregation(Script[index]),
         \A k \in DOMAIN Nals :
           index \in PacketsOf[k] =>
             PacketsOf[k] = {index} /\ k \notin FragmentedNals
  PROVE  Outcome(index, FuFailure(packet) # NoCode)
<1>1. /\ index \in DOMAIN Script /\ packet = Sent(index) /\ Analyze(packet)
      /\ newest' = index
  BY DEF Accepts
<1>2. /\ active' = Nothing
      /\ FuFailure(packet) # NoCode <=> active # Nothing
      /\ Delivers(Script[index].carries)
  BY <1>1, WholePacketOutcome
<1>3. Script[index].carries = CompletedBy(index)
  <2>1. \A k \in DOMAIN Nals :
          k \in Script[index].carries <=> k \in CompletedBy(index)
    BY <1>1, PacketsShape DEF CompletedBy
  <2>2. Script[index].carries \subseteq DOMAIN Nals
    BY <1>1, CarriesNals
  <2>3. CompletedBy(index) \subseteq DOMAIN Nals
    BY DEF CompletedBy
  <2>4. QED
    BY <2>1, <2>2, <2>3
<1>4. Delivers(CompletedBy(index))
  BY <1>2, <1>3
<1>5. ActiveIsPrefix'
  BY <1>2 DEF ActiveIsPrefix
<1>6. PrefixIsActive'
  <2>1. ASSUME NEW k \in DOMAIN Nals, NEW last \in DOMAIN Script,
               index \in PacketsOf[k], last \in PacketsOf[k], index < last
        PROVE  FALSE
    BY <1>1, <2>1, ScriptShape
  <2>2. QED
    BY <1>1, <2>1 DEF PrefixIsActive
<1>7. ASSUME NEW k \in DOMAIN Nals
      PROVE  Broken(k)' <=> Begun(k) /\ (IsOpen(k) => FuFailure(packet) # NoCode)
  <2>1. ~ IsOpen(k)'
    BY <1>2 DEF IsOpen
  <2>2. IsOpen(k) => FuFailure(packet) # NoCode
    BY <1>2 DEF IsOpen
  <2>3. CASE k \in FragmentedNals
    <3>1. FirstPacketOf[k] # index /\ k \notin CompletedBy(index)
      BY <2>3, FragmentedHasFirst DEF CompletedBy
    <3>2. QED
      BY <1>4, <2>1, <2>2, <3>1, BrokenStep
  <2>4. CASE k \notin FragmentedNals
    BY <2>4 DEF Broken, Begun
  <2>5. QED
    BY <2>3, <2>4
<1>8. QED
  BY <1>4, <1>5, <1>6, <1>7 DEF Outcome

(* A fragment belongs to one NAL unit; the last one is not there before.   *)
LEMMA FragmentOf ==
  ASSUME SessionInv, NEW index, NEW packet, Accepts(index, packet),
         NEW k \in DOMAIN Nals,
         NEW first \in DOMAIN Script, NEW last \in DOMAIN Script,
         NEW offsets, PacketsOf[k] = first..last,
         AreFragments(k, first, last, offsets), index \in first..last
  PROVE  /\ \A l \in DOMAIN Nals : index \in PacketsOf[l] => l = k
         /\ CompletedBy(index) \subseteq {k}
         /\ index # last => k \notin CompletedBy(index)
         /\ FirstPacketOf[k] = first
         /\ \A l \in FragmentedNals :
              FirstPacketOf[l] = index => l = k /\ first = index
<1>1. /\ FirstPacketOf[k] = first
      /\ last \in PacketsOf[k]
      /\ \A l \in DOMAIN Nals : index \in PacketsOf[l] => l = k
  BY FragmentedShape
<1>2. last \in accepted => last < index
  BY AcceptedBefore
<1>3. index # last => last \notin accepted \cup {index}
  BY <1>2, ScriptShape
<1>4. index # last => k \notin CompletedBy(index)
  BY <1>1, <1>3 DEF CompletedBy
<1>5. QED
  BY <1>1, <1>4, FragmentedHasFirst DEF CompletedBy

(* A start fragment.                                                       *)
LEMMA StartStep ==
  ASSUME SessionInv, NEW index, NEW packet, Accepts(index, packet),
         NEW k \in DOMAIN Nals,
         NEW first \in DOMAIN Script, NEW last \in DOMAIN Script,
         NEW offsets \in [(first - 1)..last -> 0..Len(Nals[k].bytes)],
         PacketsOf[k] = first..last,
         AreFragments(k, first, last, offsets),
         Len(Nals[k].bytes) < MaxNalUnitSize,
         index = first
  PROVE  Outcome(index, FuFailure(packet) # NoCode)
<1>0. first < last /\ first \in first..last /\ first \in Nat
  BY ScriptShape DEF AreFragments
<1>1. /\ packet = Sent(first) /\ Analyze(packet)
      /\ newest' = first /\ first_number' = first_number /\ ended' = ended
      /\ ~ ended /\ accepted' = accepted \cup {first}
  BY DEF Accepts
<1>2. /\ active' = Opened(packet) /\ output' = <<>>
      /\ FuFailure(packet) # NoCode <=> active # Nothing
  BY <1>1, StartOutcome
<1>3. /\ \A l \in DOMAIN Nals : first \in PacketsOf[l] => l = k
      /\ CompletedBy(index) = {}
      /\ FirstPacketOf[k] = first
      /\ \A l \in FragmentedNals : FirstPacketOf[l] = first => l = k
  BY <1>0, FragmentOf
<1>4. Delivers(CompletedBy(index))
  BY <1>2, <1>3, DeliversNothing
<1>5. /\ active' # Nothing
      /\ active'.nal_unit_type = Nals[k].nal_unit_type
      /\ active'.nal_ref_idc = Nals[k].nal_ref_idc
      /\ active'.bytes = SubSeq(Nals[k].bytes, 1, offsets[first])
      /\ active'.start_sequence_number
           = (first_number + first) % SequenceModulus
      /\ active'.timestamp = Script[first].timestamp
  <2>1. /\ packet.payload.nal_ref_idc = Nals[k].nal_ref_idc
        /\ packet.payload.nal_unit_type = Nals[k].nal_unit_type
        /\ packet.payload.bytes = Script[first].payload.bytes
        /\ packet.timestamp = Script[first].timestamp
    BY <1>0, <1>1, FragmentIsRead
  <2>2. Script[first].payload.bytes
          = SubSeq(Nals[k].bytes, offsets[first - 1] + 1, offsets[first])
        /\ offsets[first - 1] = 0
    BY <1>0 DEF AreFragments
  <2>3. packet.sequence_number = (first_number + first) % SequenceModulus
    BY <1>1, SentFields
  <2>4. Opened(packet) # Nothing
    BY OpenedShape
  <2>5. /\ Opened(packet).nal_unit_type = packet.payload.nal_unit_type
        /\ Opened(packet).nal_ref_idc = packet.payload.nal_ref_idc
        /\ Opened(packet).bytes = packet.payload.bytes
        /\ Opened(packet).start_sequence_number = packet.sequence_number
        /\ Opened(packet).timestamp = packet.timestamp
    BY DEF Opened
  <2>6. packet.payload.bytes = SubSeq(Nals[k].bytes, 1, offsets[first])
    BY <2>1, <2>2
  <2>7. QED
    BY <1>2, <2>1, <2>3, <2>4, <2>5, <2>6
<1>6. ActiveIsPrefix'
  <2>1. IsCollecting(k, first, last, offsets)'
    <3>1. newest' \in first..(last - 1) /\ first..newest' = {first}
      BY <1>0, <1>1, ScriptShape
    <3>2. QED
      BY <1>1, <1>5, <3>1 DEF IsCollecting
  <2>2. QED
    BY <1>1, <2>1 DEF ActiveIsPrefix
<1>7. PrefixIsActive'
  BY <1>5 DEF PrefixIsActive
<1>8. ASSUME NEW l \in DOMAIN Nals
      PROVE  Broken(l)' <=> Begun(l) /\ (IsOpen(l) => FuFailure(packet) # NoCode)
  <2>1. CASE l = k
    <3>1. IsOpen(k)'
      BY <1>0, <1>1, <1>3, <1>5 DEF IsOpen
    <3>2. ~ Begun(k)
      BY <1>3, AcceptedBefore DEF Begun
    <3>3. QED
      BY <2>1, <3>1, <3>2 DEF Broken
  <2>2. CASE l # k
    <3>1. ~ IsOpen(l)' /\ (IsOpen(l) => FuFailure(packet) # NoCode)
      BY <1>1, <1>2, <1>3, <2>2 DEF IsOpen
    <3>2. QED
      BY <1>3, <1>4, <2>2, <3>1, BrokenStep
  <2>3. QED
    BY <2>1, <2>2
<1>9. QED
  BY <1>4, <1>6, <1>7, <1>8 DEF Outcome

(* The next fragment of the open NAL unit.                                 *)
LEMMA ContinuationStep ==
  ASSUME SessionInv, NEW index, NEW packet, Accepts(index, packet),
         active # Nothing, index = newest + 1,
         NEW k \in DOMAIN Nals,
         NEW first \in DOMAIN Script, NEW last \in DOMAIN Script,
         NEW offsets \in [(first - 1)..last -> 0..Len(Nals[k].bytes)],
         IsCollecting(k, first, last, offsets),
         \A l \in DOMAIN Nals : IsOpen(l) <=> l = k
  PROVE  Outcome(index, FuFailure(packet) # NoCode)
<1>1. /\ packet = Sent(index) /\ Analyze(packet) /\ index \in DOMAIN Script
      /\ newest' = index /\ first_number' = first_number /\ ended' = ended
      /\ ~ ended /\ accepted' = accepted \cup {index}
  BY DEF Accepts
<1>2. /\ Len(Nals[k].bytes) < MaxNalUnitSize
      /\ PacketsOf[k] = first..last
      /\ AreFragments(k, first, last, offsets)
      /\ newest \in first..(last - 1)
      /\ first..newest \subseteq accepted
      /\ active.nal_unit_type = Nals[k].nal_unit_type
      /\ active.nal_ref_idc = Nals[k].nal_ref_idc
      /\ active.start_sequence_number
           = (first_number + first) % SequenceModulus
      /\ active.timestamp = Script[first].timestamp
  BY DEF IsCollecting
<1>3. newest # None
  BY <1>2, ScriptShape DEF None
<1>4. /\ index \in (first + 1)..last
      /\ FuFailure(packet) = NoCode
      /\ index < last =>
           /\ active' = Extended(active, packet)
           /\ active'.bytes = SubSeq(Nals[k].bytes, 1, offsets[index])
           /\ output' = <<>>
      /\ index = last => active' = Nothing /\ Delivers({k})
  BY <1>1, <1>3, ContinuationOutcome
<1>5. /\ index \in first..last /\ index # first
      /\ first..index = (first..newest) \cup {index}
      /\ index < last \/ index = last
  BY <1>2, <1>4, ScriptShape
<1>6. /\ \A l \in DOMAIN Nals : index \in PacketsOf[l] => l = k
      /\ CompletedBy(index) \subseteq {k}
      /\ index # last => k \notin CompletedBy(index)
      /\ FirstPacketOf[k] = first
      /\ \A l \in FragmentedNals : FirstPacketOf[l] # index
  BY <1>2, <1>5, FragmentOf
<1>7. ASSUME Delivers(CompletedBy(index)), ~ Broken(k)'
      PROVE  \A l \in DOMAIN Nals :
               Broken(l)' <=> Begun(l) /\ (IsOpen(l) => FuFailure(packet) # NoCode)
  <2>1. SUFFICES ASSUME NEW l \in DOMAIN Nals
                 PROVE  Broken(l)' <=>
                          Begun(l) /\ (IsOpen(l) => FuFailure(packet) # NoCode)
    OBVIOUS
  <2>2. CASE l = k
    BY <1>4, <1>7, <2>2
  <2>3. CASE l # k
    <3>1. ~ IsOpen(l)' /\ ~ IsOpen(l)
      BY <1>1, <1>6, <2>3 DEF IsOpen
    <3>2. Broken(l)' <=> Begun(l)
      BY <1>6, <1>7, <2>3, <3>1, BrokenStep
    <3>3. QED
      BY <3>1, <3>2
  <2>4. QED
    BY <2>2, <2>3
<1>8. CASE index < last
  <2>1. index # last
    BY <1>8, <1>1, ScriptShape
  <2>2. /\ active' = Extended(active, packet)
        /\ active'.bytes = SubSeq(Nals[k].bytes, 1, offsets[index])
        /\ output' = <<>>
        /\ CompletedBy(index) = {}
    BY <1>4, <1>6, <1>8, <2>1
  <2>3. Delivers(CompletedBy(index))
    BY <2>2, DeliversNothing
  <2>4. /\ active' # Nothing
        /\ active'.nal_unit_type = Nals[k].nal_unit_type
        /\ active'.nal_ref_idc = Nals[k].nal_ref_idc
        /\ active'.start_sequence_number
             = (first_number + first) % SequenceModulus
        /\ active'.timestamp = Script[first].timestamp
    <3>1. IsActive(active)
      BY DEF SessionInv, H264Inv, ActiveShape
    <3>2. /\ Extended(active, packet).nal_unit_type = active.nal_unit_type
          /\ Extended(active, packet).nal_ref_idc = active.nal_ref_idc
          /\ Extended(active, packet).start_sequence_number
               = active.start_sequence_number
          /\ Extended(active, packet).timestamp = active.timestamp
          /\ Extended(active, packet) # Nothing
      BY <3>1 DEF Extended, IsActive, Nothing
    <3>3. QED
      BY <1>2, <2>2, <3>2
  <2>5. ActiveIsPrefix'
    <3>1. IsCollecting(k, first, last, offsets)'
      <4>1. newest' \in first..(last - 1) /\ first..newest' \subseteq accepted'
        BY <1>1, <1>2, <1>5, <1>8, ScriptShape
      <4>2. QED
        BY <1>1, <1>2, <2>2, <2>4, <4>1 DEF IsCollecting
    <3>2. QED
      BY <1>1, <3>1 DEF ActiveIsPrefix
  <2>6. PrefixIsActive'
    BY <2>4 DEF PrefixIsActive
  <2>7. ~ Broken(k)'
    <3>1. IsOpen(k)'
      BY <1>1, <1>2, <1>5, <1>6, <2>4 DEF IsOpen
    <3>2. QED
      BY <3>1 DEF Broken
  <2>8. QED
    BY <1>7, <2>3, <2>5, <2>6, <2>7 DEF Outcome
<1>9. CASE index = last
  <2>1. active' = Nothing /\ Delivers({k})
    BY <1>4, <1>9
  <2>2. CompletedBy(index) = {k}
    <3>1. PacketsOf[k] \subseteq accepted \cup {index} /\ index \in PacketsOf[k]
      BY <1>2, <1>5, <1>9
    <3>2. QED
      BY <1>6, <3>1 DEF CompletedBy
  <2>3. Delivers(CompletedBy(index))
    BY <2>1, <2>2
  <2>4. ActiveIsPrefix'
    BY <2>1 DEF ActiveIsPrefix
  <2>5. PrefixIsActive'
    <3>1. ASSUME NEW l \in DOMAIN Nals, NEW other \in DOMAIN Script,
                 index \in PacketsOf[l], other \in PacketsOf[l], index < other
          PROVE  FALSE
      BY <1>1, <1>2, <1>6, <1>9, <3>1, ScriptShape
    <3>2. QED
      BY <1>1, <3>1 DEF PrefixIsActive
  <2>6. ~ Broken(k)'
    <3>1. IsReceived(k)'
      BY <2>2, <2>3, ReceivedGrows
    <3>2. QED
      BY <3>1 DEF Broken, Begun
  <2>7. QED
    BY <1>7, <2>3, <2>4, <2>5, <2>6 DEF Outcome
<1>10. QED
  BY <1>5, <1>8, <1>9

(* A fragment after a missing one.                                         *)
LEMMA OrphanStep ==
  ASSUME SessionInv, NEW index, NEW packet, Accepts(index, packet),
         active # Nothing => newest # None /\ index # newest + 1,
         NEW k \in DOMAIN Nals,
         NEW first \in DOMAIN Script, NEW last \in DOMAIN Script,
         NEW offsets \in [(first - 1)..last -> 0..Len(Nals[k].bytes)],
         PacketsOf[k] = first..last,
         AreFragments(k, first, last, offsets),
         Len(Nals[k].bytes) < MaxNalUnitSize,
         index \in first..last, index # first
  PROVE  Outcome(index, FuFailure(packet) # NoCode)
<1>1. /\ packet = Sent(index) /\ Analyze(packet) /\ index \in DOMAIN Script
      /\ newest' = index /\ accepted' = accepted \cup {index} /\ ~ ended
      /\ newest # None =>
           index \in (newest - MaxDisplacement)..(newest + MaxJump)
  BY DEF Accepts
<1>2. index \in (first + 1)..last /\ index - 1 \in first..last
      /\ index - 1 # index /\ index \in Int
  BY ScriptShape
<1>3. /\ active' = Nothing /\ output' = <<>>
      /\ FuFailure(packet) # NoCode <=> active # Nothing
  BY <1>1, <1>2, OrphanOutcome
<1>4. /\ \A l \in DOMAIN Nals : index \in PacketsOf[l] => l = k
      /\ CompletedBy(index) \subseteq {k}
      /\ \A l \in FragmentedNals : FirstPacketOf[l] # index
  BY FragmentOf
<1>5. ASSUME \A other \in PacketsOf[k] :
               other <= index => other \in accepted \cup {index}
      PROVE  FALSE
  <2>1. index - 1 \in accepted
    BY <1>2, <1>5
  <2>2. newest # None
    BY <2>1 DEF SessionInv, NothingBeforeFirstPacket
  <2>3. newest \in Int /\ index > newest /\ index - 1 <= newest
    BY <2>1, <2>2, ScriptShape
       DEF Accepts, SessionInv, HighestIsNewest, DeliveryTypes
  <2>4. newest = index - 1
    BY <1>2, <2>3
  <2>5. active = Nothing
    BY <1>2, <2>4
  <2>6. newest \in PacketsOf[k] /\ index \in PacketsOf[k] /\ newest < index
    BY <1>2, <2>3, <2>4
  <2>7. \A other \in PacketsOf[k] : other <= newest => other \in accepted
    BY <1>2, <1>5, <2>4
  <2>8. QED
    BY <1>1, <2>2, <2>5, <2>6, <2>7 DEF SessionInv, PrefixIsActive
<1>6. CompletedBy(index) = {}
  BY <1>4, <1>5 DEF CompletedBy
<1>7. Delivers(CompletedBy(index))
  BY <1>3, <1>6, DeliversNothing
<1>8. ActiveIsPrefix'
  BY <1>3 DEF ActiveIsPrefix
<1>9. PrefixIsActive'
  <2>1. ASSUME NEW l \in DOMAIN Nals, index \in PacketsOf[l],
               \A other \in PacketsOf[l] :
                 other <= index => other \in accepted \cup {index}
        PROVE  FALSE
    BY <1>4, <1>5, <2>1
  <2>2. QED
    BY <1>1, <2>1 DEF PrefixIsActive
<1>10. ASSUME NEW l \in DOMAIN Nals
       PROVE  Broken(l)' <=> Begun(l) /\ (IsOpen(l) => FuFailure(packet) # NoCode)
  <2>1. ~ IsOpen(l)' /\ (IsOpen(l) => FuFailure(packet) # NoCode)
    BY <1>3 DEF IsOpen
  <2>2. Broken(l)' <=> Begun(l)
    BY <1>4, <1>6, <1>7, <2>1, BrokenStep
  <2>3. QED
    BY <2>1, <2>2
<1>11. QED
  BY <1>7, <1>8, <1>9, <1>10 DEF Outcome

(* Every accepted packet is one of these.                                  *)
LEMMA AcceptedOutcome ==
  ASSUME SessionInv, NEW index, NEW packet, Accepts(index, packet)
  PROVE  Outcome(index, FuFailure(packet) # NoCode)
<1>1. index \in DOMAIN Script
  BY DEF Accepts
<1>2. CASE /\ IsSingle(Script[index]) \/ IsAggregation(Script[index])
           /\ \A k \in DOMAIN Nals :
                index \in PacketsOf[k] =>
                  PacketsOf[k] = {index} /\ k \notin FragmentedNals
  BY <1>2, WholePacketStep
<1>3. ASSUME NEW k, NEW first, NEW last, NEW offsets,
             k \in DOMAIN Nals,
             first \in DOMAIN Script, last \in DOMAIN Script,
             offsets \in [(first - 1)..last -> 0..Len(Nals[k].bytes)],
             PacketsOf[k] = first..last,
             AreFragments(k, first, last, offsets),
             Len(Nals[k].bytes) < MaxNalUnitSize,
             index \in first..last
      PROVE  Outcome(index, FuFailure(packet) # NoCode)
  <2>1. CASE index = first
    BY <1>3, <2>1, StartStep
  <2>2. CASE active # Nothing /\ index = newest + 1
    <3>1. PICK l, begin, end, cuts :
            /\ l \in DOMAIN Nals
            /\ begin \in DOMAIN Script /\ end \in DOMAIN Script
            /\ cuts \in [(begin - 1)..end -> 0..Len(Nals[l].bytes)]
            /\ IsCollecting(l, begin, end, cuts)
            /\ \A other \in DOMAIN Nals : IsOpen(other) <=> other = l
      BY <2>2, OpenNal
    <3>2. QED
      BY <2>2, <3>1, ContinuationStep
  <2>3. CASE index # first /\ ~ (active # Nothing /\ index = newest + 1)
    <3>1. active # Nothing => newest # None
      BY OpenNal
    <3>2. QED
      BY <1>3, <2>3, <3>1, OrphanStep
  <2>4. QED
    BY <2>1, <2>2, <2>3
<1>4. QED
  BY <1>1, <1>2, <1>3, PacketKinds

-----------------------------------------------------------------------------
(* What the report counts.                                                 *)

BrokenNals == {k \in DOMAIN Nals : Broken(k)}

BrokenIdrNals == {k \in BrokenNals : IsIdr(Nals[k])}

IncompleteCounted ==
  /\ h264_statistics.incomplete_fu_a_nal_units = Cardinality(BrokenNals)
  /\ h264_statistics.incomplete_idr_nal_units = Cardinality(BrokenIdrNals)

(* Those are the NAL units IncompleteIsTruth speaks of.                    *)
LEMMA IncompleteNow == IncompleteIsTruth <=> IncompleteCounted
<1> DEFINE broken == {k \in DOMAIN Nals : /\ k \in FragmentedNals
                                          /\ FirstPacketOf[k] \in accepted
                                          /\ ~ IsReceived(k) /\ ~ IsOpen(k)}
<1>1. broken = BrokenNals
  BY DEF BrokenNals, Broken, Begun
<1>2. IncompleteIsTruth <=>
        /\ h264_statistics.incomplete_fu_a_nal_units = Cardinality(broken)
        /\ h264_statistics.incomplete_idr_nal_units
             = Cardinality({k \in broken : IsIdr(Nals[k])})
  BY DEF IncompleteIsTruth
<1> HIDE DEF broken
<1>3. QED
  BY <1>1, <1>2 DEF IncompleteCounted, BrokenIdrNals

(* Before and after a step.                                                *)
LEMMA IncompleteNext == IncompleteIsTruth' <=> IncompleteCounted'
<1> DEFINE broken == {k \in DOMAIN Nals : /\ k \in FragmentedNals
                                          /\ FirstPacketOf[k] \in accepted'
                                          /\ ~ IsReceived(k)' /\ ~ IsOpen(k)'}
<1>1. broken = BrokenNals'
  BY DEF BrokenNals, Broken, Begun
<1>2. IncompleteIsTruth' <=>
        /\ h264_statistics'.incomplete_fu_a_nal_units = Cardinality(broken)
        /\ h264_statistics'.incomplete_idr_nal_units
             = Cardinality({k \in broken : IsIdr(Nals[k])})
  BY DEF IncompleteIsTruth
<1> HIDE DEF broken
<1>3. QED
  BY <1>1, <1>2 DEF IncompleteCounted, BrokenIdrNals

(* A NAL unit that is given up is counted, once.                           *)
LEMMA CountStep ==
  ASSUME SessionInv, NEW failed, failed => active # Nothing,
         \A k \in DOMAIN Nals : Broken(k)' <=> Begun(k) /\ (IsOpen(k) => failed),
         h264_statistics'.incomplete_fu_a_nal_units
           = h264_statistics.incomplete_fu_a_nal_units + One(failed),
         h264_statistics'.incomplete_idr_nal_units
           = h264_statistics.incomplete_idr_nal_units + One(failed /\ IsIdr(active))
  PROVE  IncompleteIsTruth'
<1> DEFINE fus == h264_statistics.incomplete_fu_a_nal_units
           idrs == h264_statistics.incomplete_idr_nal_units
<1>1. /\ fus = Cardinality(BrokenNals) /\ idrs = Cardinality(BrokenIdrNals)
      /\ fus \in Nat /\ idrs \in Nat
  BY IncompleteNow
     DEF SessionInv, IncompleteCounted, H264Inv, H264TypeOK, H264RtpStreamStatistics
<1>2. IsFiniteSet(BrokenNals) /\ IsFiniteSet(BrokenIdrNals)
  <2>1. IsFiniteSet(DOMAIN Nals)
    BY ScriptShape, FS_Interval
  <2>2. BrokenNals \subseteq DOMAIN Nals /\ BrokenIdrNals \subseteq DOMAIN Nals
    BY DEF BrokenNals, BrokenIdrNals
  <2>3. QED
    BY <2>1, <2>2, FS_Subset
<1>3. BrokenNals' = {k \in DOMAIN Nals : Begun(k) /\ (IsOpen(k) => failed)}
  BY DEF BrokenNals
<1>4. BrokenIdrNals' = {k \in BrokenNals' : IsIdr(Nals[k])}
  BY DEF BrokenIdrNals
<1>5. CASE ~ failed
  <2>1. BrokenNals' = BrokenNals
    BY <1>3, <1>5 DEF BrokenNals, Broken
  <2>2. BrokenIdrNals' = BrokenIdrNals
    BY <1>4, <2>1 DEF BrokenIdrNals
  <2>3. One(failed) = 0 /\ One(failed /\ IsIdr(active)) = 0
    BY <1>5 DEF One
  <2>4. QED
    BY <1>1, <2>1, <2>2, <2>3, IncompleteNext DEF IncompleteCounted
<1>6. CASE failed
  <2>1. PICK k, first :
          /\ k \in DOMAIN Nals
          /\ \A l \in DOMAIN Nals : IsOpen(l) <=> l = k
          /\ k \in FragmentedNals
          /\ FirstPacketOf[k] = first
          /\ first \in accepted
          /\ ~ IsReceived(k)
          /\ IsIdr(Nals[k]) <=> IsIdr(active)
    BY <1>6, OpenNal
  <2>2. Begun(k) /\ k \notin BrokenNals
    BY <2>1 DEF Begun, BrokenNals, Broken
  <2>3. BrokenNals' = BrokenNals \cup {k}
    BY <1>3, <1>6, <2>1, <2>2 DEF BrokenNals, Broken
  <2>4. k \notin BrokenIdrNals
    BY <2>2 DEF BrokenIdrNals
  <2>5. BrokenIdrNals' = IF IsIdr(active) THEN BrokenIdrNals \cup {k}
                                          ELSE BrokenIdrNals
    BY <1>4, <2>1, <2>3 DEF BrokenIdrNals
  <2>6. /\ Cardinality(BrokenNals \cup {k}) = Cardinality(BrokenNals) + 1
        /\ Cardinality(BrokenIdrNals \cup {k}) = Cardinality(BrokenIdrNals) + 1
    BY <1>2, <2>2, <2>4, FS_AddElement
  <2>7. One(failed) = 1 /\ One(failed /\ IsIdr(active)) = IF IsIdr(active) THEN 1 ELSE 0
    BY <1>6 DEF One
  <2>8. h264_statistics'.incomplete_fu_a_nal_units = Cardinality(BrokenNals')
    BY <1>1, <2>3, <2>6, <2>7
  <2>9. h264_statistics'.incomplete_idr_nal_units = Cardinality(BrokenIdrNals')
    <3>1. CASE IsIdr(active)
      BY <1>1, <2>5, <2>6, <2>7, <3>1
    <3>2. CASE ~ IsIdr(active)
      BY <1>1, <2>5, <2>7, <3>2
    <3>3. QED
      BY <3>1, <3>2
  <2>10. QED
    BY <2>8, <2>9, IncompleteNext DEF IncompleteCounted
<1>7. QED
  BY <1>5, <1>6

-----------------------------------------------------------------------------
(* Every step of the session.                                              *)

(* Before the first packet there is nothing to account for.                *)
LEMMA SessionInitInv == DeliveryInit => SessionInv
<1> SUFFICES ASSUME DeliveryInit PROVE SessionInv
  OBVIOUS
<1>1. H264Inv
  BY H264InitInv DEF DeliveryInit
<1>2. /\ highest_extended_sequence = None /\ active = Nothing
      /\ h264_statistics.incomplete_fu_a_nal_units = 0
      /\ h264_statistics.incomplete_idr_nal_units = 0
  BY DEF DeliveryInit, H264Init, Init
<1>3. DeliveryTypes
  <2>1. first_number \in SequenceNumber
    BY NetworkAssumption DEF DeliveryInit
  <2>2. /\ newest \in DOMAIN Script \cup {None}
        /\ accepted \subseteq DOMAIN Script
        /\ ended \in BOOLEAN
    BY DEF DeliveryInit
  <2>3. received_nals \in Seq({Nals[k] : k \in DOMAIN Nals})
    <3> DEFINE S == {Nals[k] : k \in DOMAIN Nals}
    <3>1. <<>> \in Seq(S)
      <4> HIDE DEF S
      <4> QED
        OBVIOUS
    <3>2. QED
      BY <3>1 DEF DeliveryInit
  <2>4. QED
    BY <2>1, <2>2, <2>3 DEF DeliveryTypes
<1>4. NothingBeforeFirstPacket /\ HighestIsNewest
  BY <1>2 DEF DeliveryInit, NothingBeforeFirstPacket, HighestIsNewest, Started
<1>5. ActiveIsPrefix /\ PrefixIsActive
  BY <1>2 DEF DeliveryInit, ActiveIsPrefix, PrefixIsActive
<1>6. ReceivedIffAccepted
  BY PacketsShape DEF DeliveryInit, ReceivedIffAccepted, IsReceived
<1>7. WholeNalsInOrder
  BY DEF DeliveryInit, WholeNalsInOrder
<1>8. IncompleteIsTruth
  <2>1. BrokenNals = {} /\ BrokenIdrNals = {}
    BY DEF DeliveryInit, BrokenNals, BrokenIdrNals, Broken, Begun
  <2>2. QED
    BY <1>2, <2>1, FS_EmptySet, IncompleteNow DEF IncompleteCounted
<1>9. QED
  BY <1>1, <1>3, <1>4, <1>5, <1>6, <1>7, <1>8 DEF SessionInv

(* A step that changes nothing above the RTP layer.                        *)
LEMMA SkipSession ==
  ASSUME SessionInv, H264Inv',
         UNCHANGED <<active, h264_statistics, first_number, newest, accepted,
                     received_nals, ended, highest_extended_sequence>>,
         statistics.ssrc # None => statistics'.ssrc = statistics.ssrc
  PROVE  SessionInv'
<1>1. DeliveryTypes' /\ NothingBeforeFirstPacket'
  BY DEF SessionInv, DeliveryTypes, NothingBeforeFirstPacket, Started
<1>2. HighestIsNewest'
  BY DEF SessionInv, HighestIsNewest, Started, HighestRaw, H264Inv, SsrcIsKnown
<1>3. ActiveIsPrefix' /\ PrefixIsActive'
  BY DEF SessionInv, ActiveIsPrefix, IsCollecting, PrefixIsActive
<1>4. ReceivedIffAccepted' /\ WholeNalsInOrder'
  BY DEF SessionInv, ReceivedIffAccepted, WholeNalsInOrder, IsReceived
<1>5. IncompleteIsTruth'
  BY DEF SessionInv, IncompleteIsTruth, IsReceived, IsOpen
<1>6. QED
  BY <1>1, <1>2, <1>3, <1>4, <1>5 DEF SessionInv

(* A packet of the sender arrives.                                         *)
LEMMA DeliverInv ==
  ASSUME SessionInv, NEW index \in DOMAIN Script, Deliver(index)
  PROVE  SessionInv'
<1> DEFINE packet == Sent(index)
<1>1. /\ ~ ended
      /\ newest # None =>
           index \in (newest - MaxDisplacement)..(newest + MaxJump)
      /\ clock' = clock /\ Push(packet, clock)
      /\ newest' = IF index > newest THEN index ELSE newest
      /\ accepted' = IF disposition' = "accepted" THEN accepted \cup {index}
                                                   ELSE accepted
      /\ received_nals' = received_nals \o output'
      /\ first_number' = first_number /\ ended' = ended
  BY DEF Deliver, ArrivesAt
<1>2. /\ IsH264Packet(packet)
      /\ packet.sequence_number = (first_number + index) % SequenceModulus
      /\ packet.ssrc = SenderSsrc
  BY SentFields
<1>3. PushPacket(RtpHeader(packet), clock)
  BY <1>1 DEF Push
<1>4. disposition' = "accepted" <=> newest = None \/ index > newest
  BY <1>1, <1>3, AcceptedIsNewer
<1>5. /\ index \in Nat \ {0} /\ (newest = None \/ newest \in Nat)
      /\ first_number \in SequenceNumber
      /\ accepted \subseteq DOMAIN Script
      /\ received_nals \in Seq({Nals[k] : k \in DOMAIN Nals})
      /\ ended \in BOOLEAN
  BY ScriptShape DEF SessionInv, DeliveryTypes
<1> HIDE DEF packet
<1>6. H264Inv'
  <2>1. clock \in Nat
    BY DEF SessionInv, H264Inv, IInv, TypeOK
  <2>2. QED
    BY <1>1, <1>2, <2>1, H264PushInv DEF SessionInv
<1>7. /\ RtpHeader(packet) \in RtpPacket
      /\ RtpHeader(packet).sequence_number = packet.sequence_number
      /\ RtpHeader(packet).ssrc = packet.ssrc
      /\ IInv
  BY <1>2, HeaderIsPacket DEF SessionInv, H264Inv
<1>8. CASE disposition' = "accepted"
  <2>1. Analyze(packet)
    BY <1>1, <1>8 DEF Push
  <2>2. /\ newest' = index /\ accepted' = accepted \cup {index}
        /\ newest # None => index > newest
    BY <1>1, <1>4, <1>5, <1>8 DEF None
  <2>3. Accepts(index, packet)
    BY <1>1, <2>1, <2>2 DEF Accepts, packet
  <2>4. Outcome(index, FuFailure(packet) # NoCode)
    BY <2>3, AcceptedOutcome
  <2>5. /\ Delivers(CompletedBy(index))
        /\ ActiveIsPrefix' /\ PrefixIsActive'
    BY <2>4 DEF Outcome
  <2>6. /\ received_nals' \in Seq({Nals[k] : k \in DOMAIN Nals})
        /\ ReceivedIffAccepted' /\ WholeNalsInOrder'
    BY <2>3, <2>5, ReceivedGrows
  <2>7. DeliveryTypes'
    BY <1>1, <1>5, <2>2, <2>6 DEF DeliveryTypes
  <2>8. /\ Started' /\ HighestRaw' = packet.sequence_number
        /\ statistics'.ssrc = SenderSsrc
    BY <1>2, <1>3, <1>7, <1>8, AcceptedPush
  <2>9. index # None /\ \A other \in accepted' : other <= index
    BY <1>5, <2>2, <2>3, AcceptedBefore
  <2>10. NothingBeforeFirstPacket'
    BY <2>2, <2>9 DEF NothingBeforeFirstPacket
  <2>11. HighestIsNewest'
    BY <1>1, <1>2, <2>2, <2>8, <2>9 DEF HighestIsNewest
  <2>12. IncompleteIsTruth'
    <3> DEFINE failed == FuFailure(packet) # NoCode
    <3>1. /\ h264_statistics'.incomplete_fu_a_nal_units
               = h264_statistics.incomplete_fu_a_nal_units + One(failed)
          /\ h264_statistics'.incomplete_idr_nal_units
               = h264_statistics.incomplete_idr_nal_units
                   + One(failed /\ IsIdr(active))
      BY <1>2, <2>1, AnalyzeCounts DEF SessionInv, H264Inv
    <3>2. failed => active # Nothing
      BY <1>2, EmittedCodes
    <3>3. \A k \in DOMAIN Nals :
            Broken(k)' <=> Begun(k) /\ (IsOpen(k) => failed)
      BY <2>4 DEF Outcome
    <3> HIDE DEF failed
    <3>4. QED
      BY <3>1, <3>2, <3>3, CountStep
  <2>13. QED
    BY <1>6, <2>5, <2>6, <2>7, <2>10, <2>11, <2>12 DEF SessionInv
<1>9. CASE disposition' # "accepted"
  <2>1. Skip
    BY <1>1, <1>9 DEF Push
  <2>2. received_nals' = received_nals
    BY <1>1, <1>5, <2>1 DEF Skip
  <2>3. newest' = newest /\ accepted' = accepted
    BY <1>1, <1>4, <1>5, <1>9
  <2>4. /\ highest_extended_sequence' = highest_extended_sequence
        /\ statistics.ssrc # None => statistics'.ssrc = statistics.ssrc
    BY <1>3, <1>7, <1>9, OtherPush
  <2>5. QED
    BY <1>1, <1>6, <2>1, <2>2, <2>3, <2>4, SkipSession DEF Skip
<1>10. QED
  BY <1>8, <1>9

(* The listener stops: finish gives up the NAL unit that is open.          *)
LEMMA EndInv ==
  ASSUME SessionInv, End
  PROVE  SessionInv'
<1>1. /\ ended' = TRUE /\ active' = Nothing
      /\ UNCHANGED <<rtpVars, first_number, newest, accepted, received_nals>>
      /\ Finish \/ (active = Nothing /\ UNCHANGED <<rtpVars, h264Vars>>)
  BY DEF End, Finish, h264Vars
<1>2. H264Inv'
  BY <1>1, H264FinishInv, H264StutterInv DEF SessionInv
<1>3. UNCHANGED <<highest_extended_sequence, statistics>>
  BY <1>1 DEF rtpVars, vars
<1>4. DeliveryTypes' /\ NothingBeforeFirstPacket'
  BY <1>1, <1>3 DEF SessionInv, DeliveryTypes, NothingBeforeFirstPacket, Started
<1>5. HighestIsNewest'
  BY <1>1, <1>3 DEF SessionInv, HighestIsNewest, Started, HighestRaw
<1>6. ActiveIsPrefix' /\ PrefixIsActive'
  BY <1>1 DEF ActiveIsPrefix, PrefixIsActive
<1>7. ReceivedIffAccepted' /\ WholeNalsInOrder'
  BY <1>1 DEF SessionInv, ReceivedIffAccepted, WholeNalsInOrder, IsReceived
<1>8. IncompleteIsTruth'
  <2> DEFINE failed == active # Nothing
  <2>1. /\ h264_statistics'.incomplete_fu_a_nal_units
             = h264_statistics.incomplete_fu_a_nal_units + One(failed)
        /\ h264_statistics'.incomplete_idr_nal_units
             = h264_statistics.incomplete_idr_nal_units
                 + One(failed /\ IsIdr(active))
    <3>1. h264_statistics \in H264RtpStreamStatistics
      BY DEF SessionInv, H264Inv, H264TypeOK
    <3>2. CASE Finish
      <4>1. active # Nothing /\ One(failed) = 1
            /\ One(failed /\ IsIdr(active)) = One(IsIdr(active))
        BY <3>2 DEF Finish, One
      <4> HIDE DEF failed
      <4> DEFINE idr == One(IsIdr(active))
      <4>2. h264_statistics' = [h264_statistics EXCEPT
                                  !.incomplete_fu_a_nal_units = @ + 1,
                                  !.incomplete_idr_nal_units = @ + idr]
        BY <3>2 DEF Finish
      <4> HIDE DEF idr
      <4>3. /\ h264_statistics'.incomplete_fu_a_nal_units
                 = h264_statistics.incomplete_fu_a_nal_units + 1
            /\ h264_statistics'.incomplete_idr_nal_units
                 = h264_statistics.incomplete_idr_nal_units + idr
        BY <3>1, <4>2 DEF H264RtpStreamStatistics
      <4>4. QED
        BY <4>1, <4>3 DEF idr
    <3>3. CASE active = Nothing /\ UNCHANGED <<rtpVars, h264Vars>>
      <4>1. One(failed) = 0 /\ One(failed /\ IsIdr(active)) = 0
        BY <3>3 DEF One
      <4>2. h264_statistics' = h264_statistics
        BY <3>3 DEF h264Vars
      <4>3. /\ h264_statistics.incomplete_fu_a_nal_units \in Nat
            /\ h264_statistics.incomplete_idr_nal_units \in Nat
        BY <3>1 DEF H264RtpStreamStatistics
      <4> HIDE DEF failed
      <4>4. QED
        BY <4>1, <4>2, <4>3
    <3>4. QED
      BY <1>1, <3>2, <3>3
  <2>2. ASSUME NEW k \in DOMAIN Nals
        PROVE  Broken(k)' <=> Begun(k) /\ (IsOpen(k) => failed)
    <3>1. ~ IsOpen(k)' /\ (IsOpen(k) => failed)
      BY <1>1 DEF IsOpen
    <3>2. Begun(k)' <=> Begun(k)
      BY <1>1 DEF Begun, IsReceived
    <3>3. QED
      BY <3>1, <3>2 DEF Broken
  <2>3. failed => active # Nothing
    OBVIOUS
  <2> HIDE DEF failed
  <2>4. QED
    BY <2>1, <2>2, <2>3, CountStep
<1>9. QED
  BY <1>2, <1>4, <1>5, <1>6, <1>7, <1>8 DEF SessionInv

(* A step of another part of the program.                                  *)
LEMMA SessionStutter ==
  ASSUME SessionInv, UNCHANGED h264DeliveryVars
  PROVE  SessionInv'
<1>1. UNCHANGED <<rtpVars, h264Vars>>
  BY DEF h264DeliveryVars
<1>2. H264Inv'
  BY <1>1, H264StutterInv DEF SessionInv
<1>3. QED
  BY <1>1, <1>2, SkipSession DEF h264DeliveryVars, rtpVars, vars, h264Vars

(* A datagram that is not the sender's.                                    *)
LEMMA StrayInv ==
  ASSUME SessionInv, ReceiveStray
  PROVE  SessionInv'
<1>1. /\ clock' = clock
      /\ UNCHANGED <<first_number, newest, accepted, received_nals, ended>>
      /\ (PushInvalid /\ Skip) \/ Push(Foreign, clock)
  BY DEF ReceiveStray, ArrivesAt
<1>2. clock \in Nat /\ IInv
  BY DEF SessionInv, H264Inv, IInv, TypeOK
<1>3. CASE PushInvalid /\ Skip
  <2>1. H264Inv'
    BY <1>1, <1>2, <1>3, H264InvalidInv DEF SessionInv
  <2>2. disposition' # "accepted"
    BY <1>3 DEF PushInvalid, Ignore
  <2>3. /\ highest_extended_sequence' = highest_extended_sequence
        /\ statistics.ssrc # None => statistics'.ssrc = statistics.ssrc
    BY <1>2, <1>3, <2>2, OtherPush
  <2>4. QED
    BY <1>1, <1>3, <2>1, <2>3, SkipSession DEF Skip
<1>4. CASE Push(Foreign, clock)
  <2>1. IsH264Packet(Foreign) /\ Foreign.payload_type # ConfiguredPayloadType
    BY SessionAssumption DEF SessionAssumption
  <2>2. H264Inv'
    BY <1>1, <1>2, <1>4, <2>1, H264PushInv DEF SessionInv
  <2>3. /\ PushPacket(RtpHeader(Foreign), clock)
        /\ RtpHeader(Foreign) \in RtpPacket
        /\ RtpHeader(Foreign).payload_type # ConfiguredPayloadType
    BY <1>4, <2>1, HeaderIsPacket DEF Push
  <2>4. disposition' # "accepted"
    BY <1>2, <2>3, AcceptedPush
  <2>5. Skip
    BY <1>4, <2>4 DEF Push
  <2>6. /\ highest_extended_sequence' = highest_extended_sequence
        /\ statistics.ssrc # None => statistics'.ssrc = statistics.ssrc
    BY <1>2, <2>3, <2>4, OtherPush
  <2>7. QED
    BY <1>1, <2>2, <2>5, <2>6, SkipSession DEF Skip
<1>5. QED
  BY <1>1, <1>3, <1>4

(* Every step keeps the invariant.                                         *)
LEMMA SessionNextInv ==
  ASSUME SessionInv, [SessionNext]_sessionVars
  PROVE  SessionInv'
<1>1. CASE AppendCompleteNal
  BY <1>1, SessionStutter DEF AppendCompleteNal
<1>2. CASE Stop
  BY <1>2, EndInv DEF Stop
<1>3. CASE \E index \in DOMAIN Script : Receive(index)
  BY <1>3, DeliverInv DEF Receive
<1>4. CASE UNCHANGED sessionVars
  BY <1>4, SessionStutter DEF sessionVars
<1>5. QED
  BY <1>1, <1>2, <1>3, <1>4, StrayInv DEF SessionNext

-----------------------------------------------------------------------------
(* The theorems.                                                           *)

(* The invariant of a whole session.                                       *)
THEOREM SessionInvariance == SessionSpec => []SessionInv
<1>1. SessionInit => SessionInv
  BY SessionInitInv DEF SessionInit
<1>2. SessionInv /\ [SessionNext]_sessionVars => SessionInv'
  BY SessionNextInv
<1>3. QED
  BY <1>1, <1>2, PTL DEF SessionSpec

(* Whatever is lost, repeated, reordered or sent in between by others, the *)
(* NAL units that come out are the sender's, whole, unmixed, each once,    *)
(* and in the sender's order.                                              *)
THEOREM NalsComeWholeAndInOrder == SessionSpec => []WholeNalsInOrder
BY SessionInvariance, PTL DEF SessionInv

(* A NAL unit comes out exactly when all of its packets were accepted.     *)
THEOREM NothingIsGivenUpInVain == SessionSpec => []ReceivedIffAccepted
BY SessionInvariance, PTL DEF SessionInv

(* The report counts every NAL unit that was begun and given up, and no    *)
(* other, once; the same holds for the IDR NAL units.                      *)
THEOREM IncompleteCountIsExact == SessionSpec => []IncompleteIsTruth
BY SessionInvariance, PTL DEF SessionInv

-----------------------------------------------------------------------------
(* The status of the report: what each of the error classes means, as      *)
(* inductive invariants of the whole session.                              *)

(* What arrived, and what of it was accepted.                              *)
ArrivalTypes ==
  /\ came \subseteq DOMAIN Script /\ accepted \subseteq came
  /\ newest = None => came = {}
  /\ newest # None => newest \in came /\ \A index \in came : index <= newest
  /\ strays \in [invalid : Nat, foreign : Nat]

(* Diagnostics of datagrams that are not RTP.                              *)
InvalidAreCounted == diagnostics["RTP_INVALID_PACKET"] = strays.invalid

(* The extended number of a packet that arrived is its index, shifted.     *)
Number(index) == (highest_extended_sequence - newest) + index

NumbersAreIndices ==
  newest # None =>
    /\ arrived = {Number(index) : index \in came}
    /\ \A index \in accepted : Number(index) >= base_extended_sequence

(* A packet is late if it was not accepted; a repeated one is not.         *)
LateAreRefused == statistics.out_of_order_packets = 0 <=> came = accepted

(* There is a gap if there is a hole between the packets accepted.         *)
GapsAreHoles ==
  diagnostics["RTP_SEQUENCE_GAP"] = 0
    <=> \A index \in accepted : index..newest \subseteq accepted

(* Some of its packets were accepted, but it cannot be completed any more. *)
IsLost(k) == PacketsOf[k] \cap accepted # {} /\ ~ IsReceived(k) /\ ~ IsOpen(k)

HasH264Error == \E code \in H264ErrorCodes : h264_diagnostics[code] # 0

ErrorsAreLosses == HasH264Error <=> \E k \in DOMAIN Nals : IsLost(k)

(* The NAL units the stream model has been handed.                         *)
HandedOver ==
  {k \in DOMAIN Nals : \E i \in 1..nal_units : received_nals[i] = Nals[k]}

(* The stream model gets what comes out, in order.                         *)
QueueIsRest ==
  /\ nal_units \in Nat /\ finished = ended /\ (ended => queue = <<>>)
  /\ queue \in Seq({Nals[k] : k \in DOMAIN Nals})
  /\ Len(received_nals) = nal_units + Len(queue)
  /\ \A i \in DOMAIN queue : queue[i] = received_nals[nal_units + i]

(* It knows the parameter sets that it was handed and could read.          *)
SetsAreHandedOver ==
  /\ sps \in [{0} -> {Nothing} \cup {Contents[set].sps :
                  set \in {k \in DOMAIN Nals : IsSequenceSet(k)}}]
  /\ sps[0] = Nothing <=> ~ \E set \in HandedOver : IsSequenceSet(set)
  /\ pps \in [{0} -> {Nothing} \cup PictureSets]
  /\ pps[0] = Nothing
       <=> ~ \E set \in HandedOver :
               IsPictureSet(set) /\ HasSequenceSet(HandedOver, set)

StreamDiagnostic ==
  [nal_index : Nat,
   code : {Stream!SyntaxInvalid.code, Stream!NotFound.code}]

(* It diagnoses what came before its parameter sets.                       *)
StreamErrorsAreUndecodable ==
  /\ stream_diagnostics \in Seq(StreamDiagnostic)
  /\ stream_diagnostics = <<>>
       <=> \A k \in HandedOver : IsDecodable(HandedOver, k)

StreamInv == QueueIsRest /\ SetsAreHandedOver /\ StreamErrorsAreUndecodable

ReportInv ==
  /\ SessionInv
  /\ ArrivalTypes
  /\ InvalidAreCounted
  /\ NumbersAreIndices
  /\ LateAreRefused
  /\ GapsAreHoles
  /\ ErrorsAreLosses
  /\ StreamInv

(* The extended number the analyzer gives a packet that arrives.           *)
LEMMA NumberOfArrival ==
  ASSUME SessionInv, newest # None, NEW index \in DOMAIN Script,
         index \in (newest - MaxDisplacement)..(newest + MaxJump),
         NEW s, s = (first_number + index) % SequenceModulus
  PROVE  /\ s \in SequenceNumber /\ Started /\ IInv
         /\ index \in Nat /\ newest \in Nat /\ highest_extended_sequence \in Nat
         /\ index >= newest => ForwardDelta(s) = index - newest
         /\ IsAhead(s) <=> index > newest
         /\ ForwardDelta(s) = 0 <=> index = newest
         /\ ExtendedNumber(s) = Number(index)
<1>1. /\ s \in SequenceNumber
      /\ index \in Nat /\ newest \in Nat /\ highest_extended_sequence \in Nat
      /\ index >= newest => ForwardDelta(s) = index - newest
      /\ index < newest => ForwardDelta(s) = SequenceModulus + (index - newest)
      /\ IsAhead(s) <=> index > newest
  BY ForwardIsDistance
<1>2. /\ ForwardDelta(s) \in 0..(SequenceModulus - 1)
      /\ ForwardDelta(s) # 0 => ForwardDelta(s) + Behind(s) = SequenceModulus
      /\ ForwardDelta(s) = 0 <=> Behind(s) = 0
      /\ Behind(s) \in 0..(SequenceModulus - 1)
  BY <1>1, Window
<1>3. newest - index < SequenceModulus
  BY <1>1, Modulus, NetworkAssumption DEF NetworkAssumption
<1>4. ForwardDelta(s) = 0 <=> index = newest
  BY <1>1, <1>3, Modulus
<1>5. ~ IsAhead(s) => Behind(s) = newest - index
  <2>1. CASE index = newest
    BY <1>1, <1>2, <1>4, <2>1
  <2>2. CASE index < newest
    <3>1. /\ ForwardDelta(s) = SequenceModulus + (index - newest)
          /\ ForwardDelta(s) + Behind(s) = SequenceModulus
      BY <1>1, <1>2, <1>4, <2>2
    <3>2. SequenceModulus \in Int /\ Behind(s) \in Int
      BY <1>2, Modulus
    <3>3. QED
      BY <1>1, <3>1, <3>2
  <2>3. QED
    BY <1>1, <2>1, <2>2
<1>6. highest_extended_sequence # None
  BY <1>1 DEF None
<1>7. ExtendedNumber(s) = Number(index)
  BY <1>1, <1>5, <1>6 DEF ExtendedNumber, Number
<1>8. QED
  BY <1>1, <1>4, <1>6, <1>7 DEF Started, SessionInv, H264Inv

(* What a packet of the sender does to what the status is made of in the   *)
(* RTP layer, by the way it takes.                                         *)
Arrives(index, packet, t) ==
  /\ newest # None => index \in (newest - MaxDisplacement)..(newest + MaxJump)
  /\ packet = RtpHeader(Sent(index)) /\ PushPacket(packet, t)
  /\ newest' = IF index > newest THEN index ELSE newest
  /\ accepted' = IF disposition' = "accepted" THEN accepted \cup {index}
                                              ELSE accepted
  /\ came' = came \cup {index}
  /\ UNCHANGED <<first_number, strays>>

ArrivalInv ==
  /\ ArrivalTypes
  /\ InvalidAreCounted
  /\ NumbersAreIndices
  /\ LateAreRefused
  /\ GapsAreHoles

(* No step of the RTP layer but an invalid datagram adds that diagnostic.  *)
LEMMA OneDiagnostic ==
  ASSUME IInv, NEW code \in DiagnosticCode, Diagnose(code),
         NEW other \in DiagnosticCode
  PROVE  /\ other # code => diagnostics'[other] = diagnostics[other]
         /\ diagnostics'[code] = diagnostics[code] + 1
         /\ diagnostics[code] \in Nat
BY CounterTypes DEF Diagnose

(* What is known before a packet of the sender arrives.                    *)
LEMMA BeforeArrival ==
  ASSUME SessionInv, ArrivalInv, NEW index \in DOMAIN Script, NEW packet, NEW t,
         Arrives(index, packet, t)
  PROVE  /\ packet \in RtpPacket
         /\ packet.sequence_number = (first_number + index) % SequenceModulus
         /\ packet.sequence_number \in SequenceNumber
         /\ IInv /\ index \in Nat \ {0} /\ index # None
         /\ came \subseteq Nat /\ accepted \subseteq came
         /\ newest = None => highest_extended_sequence = None /\ came = {}
         /\ newest # None =>
              /\ newest \in Nat /\ highest_extended_sequence # None
              /\ newest \in came /\ newest \in accepted
              /\ \A other \in came : other <= newest
         /\ ~ PushUnexpectedPayloadType(packet) /\ ~ PushUnexpectedSsrc(packet)
<1>1. /\ packet \in RtpPacket
      /\ packet.sequence_number = (first_number + index) % SequenceModulus
      /\ packet.ssrc = SenderSsrc
      /\ packet.payload_type = ConfiguredPayloadType
  BY SentIsPacket, HeaderIsPacket DEF Arrives, SessionInv, DeliveryTypes
<1>2. statistics.ssrc \in {None, SenderSsrc}
  BY NetworkAssumption
     DEF NetworkAssumption, SessionInv, H264Inv, SsrcIsKnown, HighestIsNewest,
         NothingBeforeFirstPacket
<1>3. ~ PushUnexpectedPayloadType(packet) /\ ~ PushUnexpectedSsrc(packet)
  BY <1>1, <1>2 DEF PushUnexpectedPayloadType, PushUnexpectedSsrc
<1>4. packet.sequence_number \in SequenceNumber
  BY <1>1 DEF RtpPacket
<1>5. /\ came \subseteq Nat /\ accepted \subseteq came /\ index \in Nat \ {0}
      /\ index # None /\ IInv
  BY ScriptShape DEF ArrivalInv, ArrivalTypes, SessionInv, H264Inv
<1>6. newest = None => highest_extended_sequence = None /\ came = {}
  BY DEF ArrivalInv, ArrivalTypes, SessionInv, NothingBeforeFirstPacket, Started
<1>7. newest # None =>
        /\ newest \in came /\ newest \in accepted
        /\ \A other \in came : other <= newest
        /\ highest_extended_sequence # None
  BY DEF ArrivalInv, ArrivalTypes, SessionInv, HighestIsNewest, Started
<1>8. QED
  BY <1>1, <1>3, <1>4, <1>5, <1>6, <1>7

(* The first packet.                                                       *)
LEMMA FirstArrival ==
  ASSUME SessionInv, ArrivalInv, NEW index \in DOMAIN Script, NEW packet, NEW t,
         Arrives(index, packet, t), PushFirst(packet, t)
  PROVE  ArrivalInv'
<1> DEFINE s == packet.sequence_number
<1>1. /\ IInv /\ index \in Nat \ {0} /\ index # None
      /\ s \in SequenceNumber /\ s \in Nat
      /\ came = {} /\ accepted = {} /\ newest = None
  BY BeforeArrival, Modulus DEF PushFirst
<1>2. ~ Started /\ arrived = {} /\ statistics.out_of_order_packets = 0
  BY <1>1 DEF PushFirst, Started, IInv, NothingBeforeFirst
<1>3. /\ newest' = index /\ accepted' = {index} /\ came' = {index}
      /\ strays' = strays
  BY <1>1 DEF Arrives, PushFirst, None
<1>4. /\ base_extended_sequence' = s /\ highest_extended_sequence' = s
      /\ arrived' = {s} /\ diagnostics' = diagnostics
  BY <1>2 DEF PushFirst, NoteArrival, ExtendedNumber
<1>5. statistics'.out_of_order_packets = 0
  BY <1>1, <1>2, CounterTypes DEF PushFirst, Counted, WithLoss, RtpSessionStatistics
<1>6. ArrivalTypes' /\ InvalidAreCounted'
  BY <1>1, <1>3, <1>4 DEF ArrivalInv, ArrivalTypes, InvalidAreCounted
<1>7. NumbersAreIndices'
  <2>1. Number(index)' = s
    BY <1>1, <1>3, <1>4 DEF Number
  <2>2. \A i \in {index} : Number(i)' = s
    BY <2>1
  <2>3. arrived' = {Number(i)' : i \in {index}} /\ s >= s
    BY <1>1, <1>4, <2>2
  <2>4. QED
    BY <1>3, <1>4, <2>2, <2>3 DEF NumbersAreIndices
<1>8. LateAreRefused'
  BY <1>3, <1>5 DEF LateAreRefused
<1>9. GapsAreHoles'
  <2>1. diagnostics["RTP_SEQUENCE_GAP"] = 0
    BY <1>1 DEF ArrivalInv, GapsAreHoles
  <2>2. index..index = {index}
    BY <1>1
  <2>3. QED
    BY <1>3, <1>4, <2>1, <2>2 DEF GapsAreHoles
<1>10. QED
  BY <1>6, <1>7, <1>8, <1>9 DEF ArrivalInv

(* A packet newer than all before.                                         *)
LEMMA AheadArrival ==
  ASSUME SessionInv, ArrivalInv, NEW index \in DOMAIN Script, NEW packet, NEW t,
         Arrives(index, packet, t), PushAhead(packet, t)
  PROVE  ArrivalInv'
<1> DEFINE s == packet.sequence_number
           delta == ForwardDelta(s)
           h == highest_extended_sequence
<1>1. /\ IInv /\ index \in Nat \ {0} /\ h # None
      /\ s = (first_number + index) % SequenceModulus
      /\ newest # None
      /\ came \subseteq Nat /\ accepted \subseteq came
      /\ newest \in came /\ newest \in accepted
      /\ \A other \in came : other <= newest
  BY BeforeArrival DEF PushAhead
<1>2. /\ newest \in Nat /\ h \in Nat /\ IsAhead(s)
      /\ index > newest /\ delta = index - newest
      /\ ExtendedNumber(s) = Number(index)
  BY <1>1, NumberOfArrival DEF Arrives, PushAhead
<1>3. /\ newest' = index /\ accepted' = accepted \cup {index}
      /\ came' = came \cup {index} /\ strays' = strays
  BY <1>2 DEF Arrives, PushAhead
<1>4. /\ base_extended_sequence' = base_extended_sequence
      /\ h' = h + delta
      /\ arrived' = arrived \cup {Number(index)}
      /\ delta > 1 => Diagnose("RTP_SEQUENCE_GAP")
      /\ ~ (delta > 1) => diagnostics' = diagnostics
  BY <1>2 DEF PushAhead, NoteArrival
<1>5. statistics'.out_of_order_packets = statistics.out_of_order_packets
  BY CounterTypes, <1>1 DEF PushAhead, Counted, WithLoss, RtpSessionStatistics
<1>6. index \notin came
  BY <1>1, <1>2
<1> HIDE DEF delta, s
<1>7. ArrivalTypes'
  <2>1. came' \subseteq DOMAIN Script /\ accepted' \subseteq came'
    BY <1>3 DEF ArrivalInv, ArrivalTypes
  <2>2. \A other \in came' : other <= index
    BY <1>1, <1>2, <1>3
  <2>3. QED
    BY <1>1, <1>3, <2>1, <2>2 DEF ArrivalInv, ArrivalTypes, None
<1>8. InvalidAreCounted'
  <2>1. {"RTP_SEQUENCE_GAP", "RTP_INVALID_PACKET"} \subseteq DiagnosticCode
    BY DEF DiagnosticCode
  <2>2. diagnostics'["RTP_INVALID_PACKET"] = diagnostics["RTP_INVALID_PACKET"]
    BY <1>1, <1>4, <2>1, OneDiagnostic
  <2>3. QED
    BY <1>3, <2>2 DEF ArrivalInv, InvalidAreCounted
<1>9. NumbersAreIndices'
  <2>1. \A i \in came \cup {index} : Number(i)' = Number(i)
    <3>1. SUFFICES ASSUME NEW i \in Nat PROVE Number(i)' = Number(i)
      BY <1>1
    <3>2. QED
      BY <1>1, <1>2, <1>3, <1>4 DEF Number
  <2>2. arrived' = {Number(i) : i \in came \cup {index}}
    BY <1>1, <1>4 DEF ArrivalInv, NumbersAreIndices
  <2>3. arrived' = {Number(i)' : i \in came'}
    BY <1>3, <2>1, <2>2
  <2>4. \A i \in accepted' : Number(i) >= base_extended_sequence
    <3>1. Number(index) = h + delta /\ Number(newest) = h
      BY <1>1, <1>2 DEF Number
    <3>2. h >= base_extended_sequence /\ base_extended_sequence \in Nat
      BY <1>1, Running DEF Started
    <3>3. Number(index) >= base_extended_sequence
      BY <1>1, <1>2, <3>1, <3>2
    <3>4. QED
      BY <1>1, <1>3, <3>3 DEF ArrivalInv, NumbersAreIndices
  <2>5. \A i \in accepted' : Number(i)' >= base_extended_sequence'
    BY <1>1, <1>3, <1>4, <2>1, <2>4
  <2>6. QED
    BY <2>3, <2>5 DEF NumbersAreIndices
<1>10. LateAreRefused'
  BY <1>1, <1>3, <1>5, <1>6 DEF ArrivalInv, LateAreRefused
<1>11. GapsAreHoles'
  <2> DEFINE gap == diagnostics["RTP_SEQUENCE_GAP"]
  <2>1. CASE delta > 1
    <3>1. "RTP_SEQUENCE_GAP" \in DiagnosticCode
      BY DEF DiagnosticCode
    <3>2. gap' = gap + 1 /\ gap \in Nat
      BY <1>1, <1>4, <2>1, <3>1, OneDiagnostic
    <3>3. /\ newest + 1 \in newest..index /\ newest + 1 \notin came
          /\ newest + 1 # index
      BY <1>1, <1>2, <2>1
    <3>4. newest \in accepted' /\ ~ (newest..newest' \subseteq accepted')
      BY <1>1, <1>3, <3>3
    <3>5. QED
      BY <3>2, <3>4 DEF GapsAreHoles
  <2>2. CASE ~ (delta > 1)
    <3>1. index = newest + 1
      BY <1>1, <1>2, <2>2
    <3>2. ASSUME NEW i \in accepted
          PROVE  i..newest \subseteq accepted <=> i..index \subseteq accepted'
      <4>1. i \in Nat /\ i <= newest
        BY <1>1
      <4>2. i..index = (i..newest) \cup {index}
        BY <1>1, <1>2, <3>1, <4>1
      <4>3. index \notin i..newest
        BY <1>1, <1>2
      <4>4. QED
        BY <1>3, <4>2, <4>3
    <3>3. index..index \subseteq accepted'
      BY <1>1, <1>3
    <3>4. gap' = gap
      BY <1>4, <2>2
    <3>5. gap = 0 <=> \A i \in accepted : i..newest \subseteq accepted
      BY DEF ArrivalInv, GapsAreHoles
    <3>6. gap' = 0 <=> \A i \in accepted' : i..newest' \subseteq accepted'
      BY <1>3, <3>2, <3>3, <3>4, <3>5
    <3>7. QED
      BY <3>6 DEF GapsAreHoles
  <2>3. QED
    BY <2>1, <2>2
<1>12. QED
  BY <1>7, <1>8, <1>9, <1>10, <1>11 DEF ArrivalInv

(* A packet that is not newer than the newest moves no number.             *)
LEMMA NumbersStay ==
  ASSUME newest # None, UNCHANGED <<highest_extended_sequence, newest>>
  PROVE  \A i : Number(i)' = Number(i)
BY DEF Number

(* A packet for another time.                                              *)
LEMMA DuplicateArrival ==
  ASSUME SessionInv, ArrivalInv, NEW index \in DOMAIN Script, NEW packet, NEW t,
         Arrives(index, packet, t), PushDuplicate(packet)
  PROVE  ArrivalInv'
<1> DEFINE s == packet.sequence_number
<1>1. /\ IInv /\ index \in Nat \ {0}
      /\ s = (first_number + index) % SequenceModulus
      /\ s \in SequenceNumber
      /\ newest # None /\ newest \in Nat
      /\ came \subseteq Nat /\ accepted \subseteq came
  BY BeforeArrival DEF PushDuplicate
<1>2. /\ Started /\ highest_extended_sequence \in Nat
      /\ IsAhead(s) <=> index > newest
      /\ ExtendedNumber(s) = Number(index)
  BY <1>1, NumberOfArrival DEF Arrives
<1>3. Number(index) \in arrived /\ ~ IsAhead(s)
  <2>1. IsDuplicate(s)
    BY DEF PushDuplicate
  <2>2. ExtendedNumber(s) \in Received
    BY <1>1, <1>2, <2>1, DuplicateIsReceived
  <2>3. ~ IsAhead(s)
    BY <2>1, Modulus DEF IsDuplicate, IsAhead
  <2>4. QED
    BY <1>2, <2>2, <2>3 DEF Received
<1>4. index \in came
  <2>1. PICK i \in came : Number(index) = Number(i)
    BY <1>1, <1>3 DEF ArrivalInv, NumbersAreIndices
  <2>2. i = index
    BY <1>1, <1>2, <2>1 DEF Number
  <2>3. QED
    BY <2>2
<1>5. /\ newest' = newest /\ accepted' = accepted /\ came' = came
      /\ strays' = strays
  BY <1>1, <1>2, <1>3, <1>4 DEF Arrives, PushDuplicate
<1>6. /\ UNCHANGED <<base_extended_sequence, highest_extended_sequence>>
      /\ arrived' = arrived
      /\ Diagnose("RTP_DUPLICATE_PACKET")
  BY <1>2, <1>3 DEF PushDuplicate, NoteArrival
<1>7. statistics'.out_of_order_packets = statistics.out_of_order_packets
  BY <1>1, CounterTypes DEF PushDuplicate, Counted, RtpSessionStatistics
<1>8. /\ diagnostics'["RTP_INVALID_PACKET"] = diagnostics["RTP_INVALID_PACKET"]
      /\ diagnostics'["RTP_SEQUENCE_GAP"] = diagnostics["RTP_SEQUENCE_GAP"]
  <2>1. {"RTP_SEQUENCE_GAP", "RTP_INVALID_PACKET", "RTP_DUPLICATE_PACKET"}
          \subseteq DiagnosticCode
    BY DEF DiagnosticCode
  <2>2. QED
    BY <1>1, <1>6, <2>1, OneDiagnostic
<1>9. ArrivalTypes' /\ InvalidAreCounted' /\ LateAreRefused' /\ GapsAreHoles'
  BY <1>5, <1>7, <1>8
     DEF ArrivalInv, ArrivalTypes, InvalidAreCounted, LateAreRefused, GapsAreHoles
<1>10. NumbersAreIndices'
  BY <1>1, <1>5, <1>6, NumbersStay DEF ArrivalInv, NumbersAreIndices
<1>11. QED
  BY <1>9, <1>10 DEF ArrivalInv

(* A packet that is late: it was not accepted before, and is not now.      *)
LEMMA LateArrival ==
  ASSUME SessionInv, ArrivalInv, NEW index \in DOMAIN Script, NEW packet, NEW t,
         Arrives(index, packet, t), PushLate(packet)
  PROVE  ArrivalInv'
<1> DEFINE s == packet.sequence_number
<1>1. /\ IInv /\ index \in Nat \ {0}
      /\ s = (first_number + index) % SequenceModulus
      /\ s \in SequenceNumber
      /\ newest # None /\ newest \in Nat
      /\ came \subseteq Nat /\ accepted \subseteq came
  BY BeforeArrival DEF PushLate
<1>2. /\ Started /\ highest_extended_sequence \in Nat
      /\ IsAhead(s) <=> index > newest
      /\ ExtendedNumber(s) = Number(index)
  BY <1>1, NumberOfArrival DEF Arrives
<1>3. Number(index) \notin Received /\ ~ IsAhead(s)
  <2>1. IsLate(s)
    BY DEF PushLate
  <2>2. QED
    BY <1>1, <1>2, <2>1, LateIsNotReceived
<1>4. index \notin accepted
  <2>1. SUFFICES ASSUME index \in accepted PROVE FALSE
    OBVIOUS
  <2>2. index \in came /\ Number(index) >= base_extended_sequence
    BY <1>1, <2>1 DEF ArrivalInv, NumbersAreIndices
  <2>3. Number(index) \in arrived
    BY <1>1, <2>2 DEF ArrivalInv, NumbersAreIndices
  <2>4. QED
    BY <1>3, <2>2, <2>3 DEF Received
<1>5. /\ newest' = newest /\ accepted' = accepted /\ came' = came \cup {index}
      /\ strays' = strays
  BY <1>1, <1>2, <1>3 DEF Arrives, PushLate
<1>6. /\ UNCHANGED <<base_extended_sequence, highest_extended_sequence>>
      /\ arrived' = arrived \cup {Number(index)}
      /\ Diagnose("RTP_OUT_OF_ORDER_PACKET")
  BY <1>2 DEF PushLate, NoteArrival
<1>7. /\ statistics'.out_of_order_packets = statistics.out_of_order_packets + 1
      /\ statistics.out_of_order_packets \in Nat
  BY <1>1, CounterTypes DEF PushLate, Counted, WithLoss, RtpSessionStatistics
<1>8. /\ diagnostics'["RTP_INVALID_PACKET"] = diagnostics["RTP_INVALID_PACKET"]
      /\ diagnostics'["RTP_SEQUENCE_GAP"] = diagnostics["RTP_SEQUENCE_GAP"]
  <2>1. {"RTP_SEQUENCE_GAP", "RTP_INVALID_PACKET", "RTP_OUT_OF_ORDER_PACKET"}
          \subseteq DiagnosticCode
    BY DEF DiagnosticCode
  <2>2. QED
    BY <1>1, <1>6, <2>1, OneDiagnostic
<1>9. InvalidAreCounted' /\ GapsAreHoles'
  BY <1>5, <1>8 DEF ArrivalInv, InvalidAreCounted, GapsAreHoles
<1>10. ArrivalTypes'
  <2>1. index <= newest
    BY <1>1, <1>2, <1>3
  <2>2. QED
    BY <1>1, <1>5, <2>1 DEF ArrivalInv, ArrivalTypes
<1>11. LateAreRefused'
  BY <1>4, <1>5, <1>7 DEF LateAreRefused
<1>12. NumbersAreIndices'
  <2>1. arrived' = {Number(i) : i \in came \cup {index}}
    BY <1>1, <1>6 DEF ArrivalInv, NumbersAreIndices
  <2>2. QED
    BY <1>1, <1>5, <1>6, <2>1, NumbersStay DEF ArrivalInv, NumbersAreIndices
<1>13. QED
  BY <1>9, <1>10, <1>11, <1>12 DEF ArrivalInv

(* A packet of the sender.                                                 *)
LEMMA ArrivalStep ==
  ASSUME SessionInv, ArrivalInv, NEW index \in DOMAIN Script, NEW packet, NEW t,
         Arrives(index, packet, t)
  PROVE  ArrivalInv'
<1>1. ~ PushUnexpectedPayloadType(packet) /\ ~ PushUnexpectedSsrc(packet)
  BY BeforeArrival
<1>2. PushPacket(packet, t)
  BY DEF Arrives
<1>3. QED
  BY <1>1, <1>2, FirstArrival, AheadArrival, DuplicateArrival, LateArrival
     DEF PushPacket

(* Where no packet of the sender arrives and no diagnostic of these is     *)
(* added, nothing changes.                                                 *)
LEMMA ArrivalStays ==
  ASSUME ArrivalInv,
         UNCHANGED <<highest_extended_sequence, base_extended_sequence, arrived,
                     newest, came, accepted>>,
         statistics'.out_of_order_packets = statistics.out_of_order_packets,
         diagnostics'["RTP_SEQUENCE_GAP"] = diagnostics["RTP_SEQUENCE_GAP"],
         strays' \in [invalid : Nat, foreign : Nat],
         InvalidAreCounted'
  PROVE  ArrivalInv'
<1>1. ArrivalTypes' /\ LateAreRefused' /\ GapsAreHoles'
  BY DEF ArrivalInv, ArrivalTypes, LateAreRefused, GapsAreHoles
<1>2. NumbersAreIndices'
  BY NumbersStay DEF ArrivalInv, NumbersAreIndices
<1>3. QED
  BY <1>1, <1>2 DEF ArrivalInv

(* A datagram that is not the sender's.                                    *)
LEMMA StrayArrival ==
  ASSUME SessionInv, ArrivalInv, ReceiveStray
  PROVE  ArrivalInv'
<1>1. /\ IInv /\ strays \in [invalid : Nat, foreign : Nat]
      /\ diagnostics["RTP_INVALID_PACKET"] = strays.invalid
  BY DEF SessionInv, H264Inv, ArrivalInv, ArrivalTypes, InvalidAreCounted
<1>2. {"RTP_SEQUENCE_GAP", "RTP_INVALID_PACKET", "RTP_UNEXPECTED_PAYLOAD_TYPE"}
        \subseteq DiagnosticCode
  BY DEF DiagnosticCode
<1>3. UNCHANGED <<newest, came, accepted>>
  BY DEF ReceiveStray
<1>4. ASSUME NEW code \in {"RTP_INVALID_PACKET", "RTP_UNEXPECTED_PAYLOAD_TYPE"},
             NEW reason, Ignore(code, reason)
      PROVE  /\ UNCHANGED <<highest_extended_sequence, base_extended_sequence, arrived>>
             /\ statistics'.out_of_order_packets = statistics.out_of_order_packets
             /\ diagnostics'["RTP_SEQUENCE_GAP"] = diagnostics["RTP_SEQUENCE_GAP"]
             /\ diagnostics'["RTP_INVALID_PACKET"] =
                  IF code = "RTP_INVALID_PACKET" THEN strays.invalid + 1
                                                 ELSE strays.invalid
  <2>1. Diagnose(code) /\ UNCHANGED SequenceState
    BY <1>4 DEF Ignore
  <2>2. statistics'.out_of_order_packets = statistics.out_of_order_packets
    BY <1>1, <1>4, CounterTypes DEF Ignore, RtpSessionStatistics
  <2>3. QED
    BY <1>1, <1>2, <2>1, <2>2, OneDiagnostic DEF SequenceState
<1>5. CASE PushInvalid /\ strays' = [strays EXCEPT !.invalid = @ + 1]
  <2>1. /\ strays' \in [invalid : Nat, foreign : Nat]
        /\ strays'.invalid = strays.invalid + 1
    BY <1>1, <1>5
  <2>2. QED
    BY <1>3, <1>4, <1>5, <2>1, ArrivalStays DEF PushInvalid, InvalidAreCounted
<1>6. CASE Push(Foreign, clock) /\ strays' = [strays EXCEPT !.foreign = @ + 1]
  <2>1. /\ strays' \in [invalid : Nat, foreign : Nat]
        /\ strays'.invalid = strays.invalid
    BY <1>1, <1>6
  <2>2. RtpHeader(Foreign).payload_type # ConfiguredPayloadType
    BY SessionAssumption, HeaderIsPacket DEF SessionAssumption
  <2>3. Ignore("RTP_UNEXPECTED_PAYLOAD_TYPE", "unexpected_payload_type")
    BY <1>6, <2>2 DEF Push, PushPacket, PushUnexpectedPayloadType,
         PushUnexpectedSsrc, PushFirst, PushAhead, PushDuplicate, PushLate, OfTheStream
  <2>4. QED
    BY <1>3, <1>4, <2>1, <2>3, ArrivalStays DEF InvalidAreCounted
<1>7. QED
  BY <1>5, <1>6 DEF ReceiveStray

-----------------------------------------------------------------------------
(* The errors of the payload layer.                                        *)

EmitsError(packet) == FuFailure(packet) # NoCode \/ Rejection(packet) # NoCode

(* Every code but the priority of a STAP-A makes the report partial.       *)
LEMMA ErrorIsEmitted ==
  ASSUME NEW packet, IsH264Packet(packet)
  PROVE  EmitsError(packet) <=> \E code \in H264ErrorCodes : code \in Emitted(packet)
<1>1. /\ FuFailure(packet) # NoCode => FuFailure(packet) \in Emitted(packet)
      /\ Rejection(packet) # NoCode => Rejection(packet) \in Emitted(packet)
      /\ Emitted(packet) \subseteq H264DiagnosticCode
      /\ "H264_IDR_INCOMPLETE" \in Emitted(packet) => FuFailure(packet) # NoCode
      /\ FuFailure(packet) \in {NoCode, "H264_FU_A_SEQUENCE_GAP",
                             "H264_FU_A_INTERRUPTED", "H264_FU_A_CONTEXT_CHANGED",
                             "H264_RTP_INVALID_PAYLOAD"}
  BY EmittedCodes
<1>2. Rejection(packet) # "H264_STAP_A_NRI_MISMATCH"
  <2>1. packet.payload.kind \in PayloadKind
    BY HeaderIsPacket
  <2>2. QED
    BY <2>1 DEF Rejection, FragmentRejection, NoCode, PayloadKind
<1>3. ASSUME NEW code \in Emitted(packet), code # "H264_STAP_A_NRI_MISMATCH"
      PROVE  EmitsError(packet)
  BY <1>1, <1>3 DEF Emitted, EmitsError, NoCode
<1>4. ASSUME EmitsError(packet)
      PROVE  \E code \in H264ErrorCodes : code \in Emitted(packet)
  BY <1>1, <1>2, <1>4 DEF EmitsError, H264ErrorCodes
<1>5. QED
  BY <1>3, <1>4 DEF H264ErrorCodes

(* They are never taken back.                                              *)
LEMMA ErrorsAdd ==
  ASSUME SessionInv, NEW packet, IsH264Packet(packet), Analyze(packet)
  PROVE  HasH264Error' <=> HasH264Error \/ EmitsError(packet)
<1>1. h264_diagnostics \in [H264DiagnosticCode -> Nat]
  BY DEF SessionInv, H264Inv, H264TypeOK
<1>2. \A code \in H264DiagnosticCode :
        h264_diagnostics'[code]
          = h264_diagnostics[code] + One(code \in Emitted(packet))
  BY DEF Analyze
<1>3. \A code \in H264ErrorCodes : code \in H264DiagnosticCode
  BY DEF H264ErrorCodes
<1>4. \A code \in H264ErrorCodes :
        h264_diagnostics'[code] # 0
          <=> h264_diagnostics[code] # 0 \/ code \in Emitted(packet)
  BY <1>1, <1>2, <1>3 DEF One
<1>5. QED
  BY <1>4, ErrorIsEmitted DEF HasH264Error

(* An open NAL unit has been touched, and is not lost.                     *)
LEMMA OpenIsTouched ==
  ASSUME SessionInv, NEW k \in DOMAIN Nals, IsOpen(k)
  PROVE  /\ active # Nothing /\ newest \in PacketsOf[k]
         /\ PacketsOf[k] \cap accepted # {}
         /\ ~ IsReceived(k) /\ ~ IsLost(k)
<1>1. active # Nothing /\ newest \in PacketsOf[k]
  BY DEF IsOpen
<1>2. PICK l, first, last, offsets :
        /\ l \in DOMAIN Nals
        /\ IsCollecting(l, first, last, offsets)
        /\ \A other \in DOMAIN Nals : IsOpen(other) <=> other = l
        /\ ~ IsReceived(l) /\ newest # None
  BY <1>1, OpenNal
<1>3. newest \in accepted /\ l = k
  BY <1>2 DEF SessionInv, HighestIsNewest
<1>4. QED
  BY <1>1, <1>2, <1>3 DEF IsLost

(* An open NAL unit exists while there is an active one.                   *)
LEMMA OpenExists ==
  ASSUME SessionInv
  PROVE  active # Nothing <=> \E k \in DOMAIN Nals : IsOpen(k)
<1>1. active # Nothing => \E k \in DOMAIN Nals : IsOpen(k)
  <2>1. SUFFICES ASSUME active # Nothing PROVE \E k \in DOMAIN Nals : IsOpen(k)
    OBVIOUS
  <2>2. PICK l : l \in DOMAIN Nals /\ \A k \in DOMAIN Nals : IsOpen(k) <=> k = l
    BY <2>1, OpenNal
  <2>3. QED
    BY <2>2
<1>2. QED
  BY <1>1 DEF IsOpen

(* A packet that carries nothing of a NAL unit gives it up if it is open.  *)
LEMMA OthersAreLost ==
  ASSUME SessionInv, NEW index, NEW packet, Accepts(index, packet),
         NEW k \in DOMAIN Nals, index \notin PacketsOf[k]
  PROVE  IsLost(k)' <=> IsLost(k) \/ IsOpen(k)
<1>1. Delivers(CompletedBy(index))
  BY AcceptedOutcome DEF Outcome
<1>2. IsReceived(k)' <=> IsReceived(k)
  BY <1>1, ReceivedGrows DEF CompletedBy
<1>3. ~ IsOpen(k)'
  BY DEF IsOpen, Accepts
<1>4. PacketsOf[k] \cap accepted' = PacketsOf[k] \cap accepted
  BY DEF Accepts
<1>5. QED
  BY <1>2, <1>3, <1>4, OpenIsTouched DEF IsLost

(* Whole NAL units: the open one is lost, and diagnosed.                   *)
LEMMA WholePacketLoses ==
  ASSUME SessionInv, NEW index, NEW packet, Accepts(index, packet),
         IsSingle(Script[index]) \/ IsAggregation(Script[index]),
         \A k \in DOMAIN Nals :
           index \in PacketsOf[k] =>
             PacketsOf[k] = {index} /\ k \notin FragmentedNals
  PROVE  (\E k \in DOMAIN Nals : IsLost(k)')
           <=> (\E k \in DOMAIN Nals : IsLost(k)) \/ EmitsError(packet)
<1>1. /\ index \in DOMAIN Script /\ packet = Sent(index) /\ Analyze(packet)
  BY DEF Accepts
<1>2. EmitsError(packet) <=> \E k \in DOMAIN Nals : IsOpen(k)
  BY <1>1, WholePacketOutcome, OpenExists DEF EmitsError
<1>3. index \notin accepted /\ (newest # None => newest # index)
  BY AcceptedBefore, ScriptShape DEF Accepts, SessionInv, DeliveryTypes
<1>4. ASSUME NEW k \in DOMAIN Nals, index \in PacketsOf[k]
      PROVE  ~ IsLost(k) /\ ~ IsLost(k)' /\ ~ IsOpen(k)
  <2>1. PacketsOf[k] = {index}
    BY <1>4
  <2>2. ~ IsLost(k)
    BY <1>3, <2>1 DEF IsLost
  <2>3. k \in CompletedBy(index)
    BY <2>1 DEF CompletedBy
  <2>4. IsReceived(k)'
    BY <2>3, AcceptedOutcome, ReceivedGrows DEF Outcome
  <2>5. ~ IsOpen(k)
    BY <1>3, <2>1, OpenIsTouched
  <2>6. QED
    BY <2>2, <2>4, <2>5 DEF IsLost
<1>5. QED
  BY <1>2, <1>4, OthersAreLost

(* The start of a NAL unit: the open one is lost, and diagnosed.           *)
LEMMA StartLoses ==
  ASSUME SessionInv, NEW index, NEW packet, Accepts(index, packet),
         NEW k \in DOMAIN Nals,
         NEW first \in DOMAIN Script, NEW last \in DOMAIN Script,
         NEW offsets \in [(first - 1)..last -> 0..Len(Nals[k].bytes)],
         PacketsOf[k] = first..last,
         AreFragments(k, first, last, offsets),
         Len(Nals[k].bytes) < MaxNalUnitSize,
         index = first
  PROVE  (\E l \in DOMAIN Nals : IsLost(l)')
           <=> (\E l \in DOMAIN Nals : IsLost(l)) \/ EmitsError(packet)
<1>1. /\ first < last /\ first \in first..last /\ first \in Nat
      /\ packet = Sent(first) /\ Analyze(packet)
  BY ScriptShape DEF AreFragments, Accepts
<1>2. EmitsError(packet) <=> \E l \in DOMAIN Nals : IsOpen(l)
  <2>1. FuFailure(packet) # NoCode <=> active # Nothing
    BY <1>1, StartOutcome
  <2>2. Rejection(packet) = NoCode
    BY <1>1, FragmentIsRead
  <2>3. QED
    BY <2>1, <2>2, OpenExists DEF EmitsError
<1>3. /\ \A l \in DOMAIN Nals : first \in PacketsOf[l] => l = k
      /\ k \notin CompletedBy(index)
      /\ k \in FragmentedNals /\ FirstPacketOf[k] = first
  BY <1>1, FragmentOf, FragmentedShape
<1>4. \A other \in accepted : other \in Nat /\ other < first
  BY AcceptedBefore
<1>5. PacketsOf[k] \cap accepted = {}
  BY <1>1, <1>4
<1>6. ~ IsReceived(k) /\ ~ IsLost(k) /\ ~ IsOpen(k) /\ ~ Begun(k)
  BY <1>1, <1>3, <1>4, <1>5, OpenIsTouched
     DEF SessionInv, ReceivedIffAccepted, IsLost, Begun
<1>7. ~ IsLost(k)'
  <2>1. ~ Broken(k)'
    BY <1>6, AcceptedOutcome DEF Outcome
  <2>2. ~ IsReceived(k)'
    BY <1>3, <1>6, AcceptedOutcome, ReceivedGrows DEF Outcome
  <2>3. FirstPacketOf[k] \in accepted'
    BY <1>3 DEF Accepts
  <2>4. IsOpen(k)'
    BY <1>3, <2>1, <2>2, <2>3 DEF Broken, Begun
  <2>5. QED
    BY <2>4 DEF IsLost
<1>8. QED
  BY <1>2, <1>3, <1>6, <1>7, OthersAreLost

(* The next fragment of the open NAL unit: nothing is lost.                *)
LEMMA ContinuationLoses ==
  ASSUME SessionInv, NEW index, NEW packet, Accepts(index, packet),
         active # Nothing, index = newest + 1,
         NEW k \in DOMAIN Nals,
         NEW first \in DOMAIN Script, NEW last \in DOMAIN Script,
         NEW offsets \in [(first - 1)..last -> 0..Len(Nals[k].bytes)],
         IsCollecting(k, first, last, offsets),
         \A l \in DOMAIN Nals : IsOpen(l) <=> l = k
  PROVE  (\E l \in DOMAIN Nals : IsLost(l)')
           <=> (\E l \in DOMAIN Nals : IsLost(l)) \/ EmitsError(packet)
<1>1. /\ packet = Sent(index) /\ Analyze(packet) /\ index \in DOMAIN Script
      /\ Len(Nals[k].bytes) < MaxNalUnitSize
      /\ PacketsOf[k] = first..last
      /\ AreFragments(k, first, last, offsets)
      /\ newest \in first..(last - 1) /\ newest # None
      /\ first..newest \subseteq accepted
  BY ScriptShape DEF Accepts, IsCollecting, None
<1>2. index \in first..last /\ FuFailure(packet) = NoCode
  <2>1. index \in (first + 1)..last /\ FuFailure(packet) = NoCode
    BY <1>1, ContinuationOutcome
  <2>2. QED
    BY <2>1, ScriptShape
<1>3. Rejection(packet) = NoCode
  BY <1>1, <1>2, FragmentIsRead
<1>4. ~ EmitsError(packet)
  BY <1>2, <1>3 DEF EmitsError
<1>5. /\ \A l \in DOMAIN Nals : index \in PacketsOf[l] => l = k
      /\ k \in FragmentedNals /\ FirstPacketOf[k] = first
  BY <1>1, <1>2, FragmentOf, FragmentedShape
<1>6. ~ IsLost(k) /\ IsOpen(k)
  BY OpenIsTouched
<1>7. ~ IsLost(k)'
  <2>1. ~ Broken(k)'
    BY <1>2, <1>6, AcceptedOutcome DEF Outcome
  <2>2. FirstPacketOf[k] \in accepted'
    BY <1>1, <1>5, ScriptShape DEF Accepts
  <2>3. QED
    BY <1>5, <2>1, <2>2 DEF Broken, Begun, IsLost
<1>8. QED
  BY <1>4, <1>5, <1>6, <1>7, OthersAreLost

(* A fragment after a missing one is lost itself, and always diagnosed.    *)
LEMMA OrphanLoses ==
  ASSUME SessionInv, NEW index, NEW packet, Accepts(index, packet),
         active # Nothing => newest # None /\ index # newest + 1,
         NEW k \in DOMAIN Nals,
         NEW first \in DOMAIN Script, NEW last \in DOMAIN Script,
         NEW offsets \in [(first - 1)..last -> 0..Len(Nals[k].bytes)],
         PacketsOf[k] = first..last,
         AreFragments(k, first, last, offsets),
         Len(Nals[k].bytes) < MaxNalUnitSize,
         index \in first..last, index # first
  PROVE  EmitsError(packet) /\ IsLost(k)'
<1>1. /\ packet = Sent(index) /\ Analyze(packet) /\ index \in DOMAIN Script
      /\ accepted' = accepted \cup {index}
      /\ newest # None =>
           index \in (newest - MaxDisplacement)..(newest + MaxJump)
  BY DEF Accepts
<1>2. index \in (first + 1)..last
  BY ScriptShape
<1>3. /\ active' = Nothing /\ output' = <<>>
      /\ FuFailure(packet) # NoCode <=> active # Nothing
  BY <1>1, <1>2, OrphanOutcome
<1>4. active = Nothing => Rejection(packet) # NoCode
  BY <1>1, FragmentIsRead DEF NoCode
<1>5. Delivers(CompletedBy(index))
  BY AcceptedOutcome DEF Outcome
<1>6. CompletedBy(index) = {}
  BY <1>3, <1>5 DEF Delivers
<1>7. ~ IsReceived(k)
  <2>1. index \notin accepted
    BY AcceptedBefore
  <2>2. QED
    BY <2>1 DEF SessionInv, ReceivedIffAccepted
<1>8. ~ IsReceived(k)' /\ ~ IsOpen(k)'
  BY <1>3, <1>5, <1>6, <1>7, ReceivedGrows DEF IsOpen
<1>9. PacketsOf[k] \cap accepted' # {}
  BY <1>1
<1>10. QED
  BY <1>3, <1>4, <1>8, <1>9 DEF EmitsError, IsLost

(* Every accepted packet is diagnosed exactly if a NAL unit is lost by it. *)
LEMMA AcceptedLoses ==
  ASSUME SessionInv, NEW index, NEW packet, Accepts(index, packet)
  PROVE  (\E l \in DOMAIN Nals : IsLost(l)')
           <=> (\E l \in DOMAIN Nals : IsLost(l)) \/ EmitsError(packet)
<1> DEFINE Goal == (\E l \in DOMAIN Nals : IsLost(l)')
                     <=> (\E l \in DOMAIN Nals : IsLost(l)) \/ EmitsError(packet)
<1>1. index \in DOMAIN Script
  BY DEF Accepts
<1>2. CASE /\ IsSingle(Script[index]) \/ IsAggregation(Script[index])
           /\ \A k \in DOMAIN Nals :
                index \in PacketsOf[k] =>
                  PacketsOf[k] = {index} /\ k \notin FragmentedNals
  BY <1>2, WholePacketLoses
<1>3. ASSUME NEW k, NEW first, NEW last, NEW offsets,
             k \in DOMAIN Nals,
             first \in DOMAIN Script, last \in DOMAIN Script,
             offsets \in [(first - 1)..last -> 0..Len(Nals[k].bytes)],
             PacketsOf[k] = first..last,
             AreFragments(k, first, last, offsets),
             Len(Nals[k].bytes) < MaxNalUnitSize,
             index \in first..last
      PROVE  Goal
  <2>1. CASE index = first
    BY <1>3, <2>1, StartLoses
  <2>2. CASE active # Nothing /\ index = newest + 1
    <3>1. PICK l, begin, end, cuts :
            /\ l \in DOMAIN Nals
            /\ begin \in DOMAIN Script /\ end \in DOMAIN Script
            /\ cuts \in [(begin - 1)..end -> 0..Len(Nals[l].bytes)]
            /\ IsCollecting(l, begin, end, cuts)
            /\ \A other \in DOMAIN Nals : IsOpen(other) <=> other = l
      BY <2>2, OpenNal
    <3>2. QED
      BY <2>2, <3>1, ContinuationLoses
  <2>3. CASE index # first /\ ~ (active # Nothing /\ index = newest + 1)
    <3>1. active # Nothing => newest # None
      BY OpenNal
    <3>2. EmitsError(packet) /\ IsLost(k)'
      BY <1>3, <2>3, <3>1, OrphanLoses
    <3>3. QED
      BY <1>3, <3>2
  <2>4. QED
    BY <2>1, <2>2, <2>3
<1>4. QED
  BY <1>1, <1>2, <1>3, PacketKinds

(* Where nothing is accepted and nothing is pushed, nothing is lost.       *)
LEMMA ErrorsStay ==
  ASSUME ErrorsAreLosses,
         UNCHANGED <<active, h264_diagnostics, first_number, newest, accepted,
                     received_nals>>
  PROVE  ErrorsAreLosses'
<1>1. HasH264Error' <=> HasH264Error
  BY DEF HasH264Error
<1>2. \A k \in DOMAIN Nals : IsLost(k)' <=> IsLost(k)
  BY DEF IsLost, IsReceived, IsOpen
<1>3. QED
  BY <1>1, <1>2 DEF ErrorsAreLosses

(* A packet of the sender.                                                 *)
LEMMA DeliverErrors ==
  ASSUME SessionInv, ErrorsAreLosses, NEW index \in DOMAIN Script, Deliver(index)
  PROVE  ErrorsAreLosses'
<1> DEFINE packet == Sent(index)
<1>1. /\ ~ ended
      /\ newest # None =>
           index \in (newest - MaxDisplacement)..(newest + MaxJump)
      /\ Push(packet, clock)
      /\ newest' = IF index > newest THEN index ELSE newest
      /\ accepted' = IF disposition' = "accepted" THEN accepted \cup {index}
                                                   ELSE accepted
      /\ received_nals' = received_nals \o output'
      /\ first_number' = first_number /\ ended' = ended
  BY DEF Deliver
<1>2. IsH264Packet(packet)
  BY SentFields
<1>3. disposition' = "accepted" <=> newest = None \/ index > newest
  BY <1>1, AcceptedIsNewer DEF Push
<1>4. /\ index \in Nat \ {0} /\ (newest = None \/ newest \in Nat)
      /\ received_nals \in Seq({Nals[k] : k \in DOMAIN Nals})
  BY ScriptShape DEF SessionInv, DeliveryTypes
<1> HIDE DEF packet
<1>5. CASE disposition' = "accepted"
  <2>1. Analyze(packet)
    BY <1>1, <1>5 DEF Push
  <2>2. /\ newest' = index /\ accepted' = accepted \cup {index}
        /\ newest # None => index > newest
    BY <1>1, <1>3, <1>4, <1>5 DEF None
  <2>3. Accepts(index, packet)
    BY <1>1, <2>1, <2>2 DEF Accepts, packet
  <2>4. HasH264Error' <=> HasH264Error \/ EmitsError(packet)
    BY <1>2, <2>1, ErrorsAdd
  <2>5. (\E l \in DOMAIN Nals : IsLost(l)')
           <=> (\E l \in DOMAIN Nals : IsLost(l)) \/ EmitsError(packet)
    BY <2>3, AcceptedLoses
  <2>6. QED
    BY <2>4, <2>5 DEF ErrorsAreLosses
<1>6. CASE disposition' # "accepted"
  <2>1. Skip
    BY <1>1, <1>6 DEF Push
  <2>2. received_nals' = received_nals /\ newest' = newest /\ accepted' = accepted
    BY <1>1, <1>3, <1>4, <1>6, <2>1 DEF Skip
  <2>3. QED
    BY <1>1, <2>1, <2>2, ErrorsStay DEF Skip
<1>7. QED
  BY <1>5, <1>6

(* finish: the open NAL unit is lost, and diagnosed.                       *)
LEMMA EndErrors ==
  ASSUME SessionInv, ErrorsAreLosses, End
  PROVE  ErrorsAreLosses'
<1>1. /\ UNCHANGED <<first_number, newest, accepted, received_nals>>
      /\ Finish \/ (active = Nothing /\ UNCHANGED h264Vars)
  BY DEF End
<1>2. CASE Finish
  <2>1. PICK k \in DOMAIN Nals : IsOpen(k)
    BY <1>2, OpenExists DEF Finish
  <2>2. PacketsOf[k] \cap accepted # {} /\ ~ IsReceived(k)
    BY <2>1, OpenIsTouched
  <2>3. IsLost(k)'
    BY <1>1, <1>2, <2>2 DEF IsLost, IsReceived, IsOpen, Finish
  <2>4. HasH264Error'
    <3>1. h264_diagnostics \in [H264DiagnosticCode -> Nat]
      BY DEF SessionInv, H264Inv, H264TypeOK
    <3>2. "H264_FU_A_INCOMPLETE" \in H264ErrorCodes
      BY DEF H264ErrorCodes, H264DiagnosticCode
    <3>3. h264_diagnostics'["H264_FU_A_INCOMPLETE"]
            = h264_diagnostics["H264_FU_A_INCOMPLETE"] + 1
      BY <1>2, <3>1 DEF Finish, H264DiagnosticCode
    <3>4. h264_diagnostics["H264_FU_A_INCOMPLETE"] \in Nat
      BY <3>1 DEF H264DiagnosticCode
    <3>5. QED
      BY <3>2, <3>3, <3>4 DEF HasH264Error
  <2>5. QED
    BY <2>3, <2>4 DEF ErrorsAreLosses
<1>3. CASE active = Nothing /\ UNCHANGED h264Vars
  BY <1>1, <1>3, ErrorsStay DEF h264Vars
<1>4. QED
  BY <1>1, <1>2, <1>3

-----------------------------------------------------------------------------
(* The errors of the stream model.                                         *)

(* The values that readings are compared with are no parameter sets.       *)
LEMMA PictureSetIsRead ==
  /\ \A picture \in PictureSets :
       /\ picture # Nothing /\ picture # Malformed
       /\ ~ Stream!IsError(picture)
       /\ picture.id = 0 /\ picture.sps_id = 0
  /\ Stream!Nothing = Nothing /\ Stream!Malformed = Malformed
<1>1. \A picture \in PictureSets :
        /\ picture \notin {Nothing, Malformed, Stream!SyntaxInvalid, Stream!NotFound}
        /\ picture.id = 0 /\ picture.sps_id = 0
  BY ContentsAssumption DEF ContentsAssumption
<1>2. \A picture \in PictureSets : ~ Stream!IsError(picture)
  BY <1>1 DEF Stream!IsError
<1>3. Stream!Nothing = Nothing /\ Stream!Malformed = Malformed
  BY DEF Stream!Nothing, Nothing, Stream!Malformed, Malformed
<1>4. QED
  BY <1>1, <1>2, <1>3

(* A NAL unit that is pushed is one of the sender's, and is counted.       *)
LEMMA PushCounts ==
  ASSUME NEW nal, Stream!Push(nal)
  PROVE  nal_units' = nal_units + 1 /\ finished' = finished
BY DEF Stream!Push, Stream!PushInvalid, Stream!PushSps, Stream!PushPps,
       Stream!PushVcl, Stream!PushOther, Stream!Begin

(* An SPS is kept.                                                         *)
LEMMA SequenceSetPushed ==
  ASSUME SetsAreHandedOver, NEW k \in DOMAIN Nals, IsSequenceSet(k),
         Stream!Push(Contents[k])
  PROVE  /\ sps' = [sps EXCEPT ![0] = Contents[k].sps]
         /\ UNCHANGED <<pps, stream_diagnostics>>
<1>1. Contents[k].type = 7 /\ Contents[k].sps # Malformed /\ Contents[k].sps.id = 0
  BY ContentsAssumption DEF ContentsAssumption, IsSequenceSet
<1>2. Stream!PushSps(Contents[k])
  BY <1>1 DEF Stream!Push, Stream!PushInvalid, Stream!PushPps, Stream!PushVcl,
       Stream!PushOther, Stream!IsSupportedVcl, Stream!InvalidHeader
<1>3. 0 \in DOMAIN sps
  BY DEF SetsAreHandedOver
<1>4. QED
  BY <1>1, <1>2, <1>3, PictureSetIsRead DEF Stream!PushSps, Stream!Store

(* Diagnostics are of the right type.                                      *)
LEMMA NotFoundIsDiagnosed ==
  ASSUME nal_units \in Nat
  PROVE  [nal_index |-> nal_units, code |-> Stream!NotFound.code] \in StreamDiagnostic
BY DEF StreamDiagnostic

(* A PPS is kept if there is an SPS, and diagnosed if not.                 *)
LEMMA PictureSetPushed ==
  ASSUME SetsAreHandedOver, nal_units \in Nat,
         NEW k \in DOMAIN Nals, IsPictureSet(k),
         Stream!Push(Contents[k])
  PROVE  /\ sps' = sps
         /\ sps[0] # Nothing =>
              /\ \E picture \in PictureSets : pps' = [pps EXCEPT ![0] = picture]
              /\ UNCHANGED stream_diagnostics
         /\ sps[0] = Nothing =>
              /\ pps' = pps
              /\ \E error \in StreamDiagnostic :
                   stream_diagnostics' = Append(stream_diagnostics, error)
<1> DEFINE nal == Contents[k]
           reading == Stream!ReadPps(nal, sps)
<1>1. nal.type = 8 /\ nal.ids = [pps_id |-> 0, sps_id |-> 0]
  BY ContentsAssumption DEF ContentsAssumption, IsPictureSet
<1>2. Stream!PushPps(nal)
  BY <1>1 DEF Stream!Push, Stream!PushInvalid, Stream!PushSps, Stream!PushVcl,
       Stream!PushOther, Stream!IsSupportedVcl, Stream!InvalidHeader
<1>3. 0 \in DOMAIN sps /\ 0 \in DOMAIN pps
  BY DEF SetsAreHandedOver
<1>4. nal.ids # Stream!Malformed /\ nal.ids.sps_id = 0
  BY <1>1 DEF Stream!Malformed
<1>5. Stream!Find(sps, nal.ids.sps_id) = sps[0]
  BY <1>3, <1>4 DEF Stream!Find
<1>6. CASE sps[0] = Nothing
  <2>1. reading = Stream!NotFound
    BY <1>4, <1>5, <1>6, PictureSetIsRead DEF Stream!ReadPps
  <2>2. QED
    BY <1>2, <1>6, <2>1, NotFoundIsDiagnosed
       DEF Stream!PushPps, Stream!IsError, Stream!RecordError
<1>7. CASE sps[0] # Nothing
  <2>1. PICK set \in DOMAIN Nals : IsSequenceSet(set) /\ sps[0] = Contents[set].sps
    BY <1>7 DEF SetsAreHandedOver
  <2> DEFINE picture == nal.read[sps[0].chroma]
  <2>2. picture \in PictureSets
    <3> DEFINE ReadBy(l) == {Contents[l].read[Contents[other].sps.chroma] :
                               other \in {m \in DOMAIN Nals : IsSequenceSet(m)}}
    <3>1. set \in {m \in DOMAIN Nals : IsSequenceSet(m)}
      BY <2>1
    <3>2. Contents[k].read[Contents[set].sps.chroma] \in ReadBy(k)
      BY <3>1
    <3>3. picture = Contents[k].read[Contents[set].sps.chroma]
      BY <2>1
    <3>4. PictureSets = UNION {ReadBy(l) : l \in {m \in DOMAIN Nals : IsPictureSet(m)}}
      BY DEF PictureSets
    <3>5. k \in {m \in DOMAIN Nals : IsPictureSet(m)}
      OBVIOUS
    <3> HIDE DEF ReadBy
    <3>6. QED
      BY <3>2, <3>3, <3>4, <3>5
  <2> HIDE DEF picture
  <2>3. reading = picture
    BY <1>4, <1>5, <1>7, <2>2, PictureSetIsRead DEF Stream!ReadPps, picture
  <2>4. picture.id = 0 /\ ~ Stream!IsError(picture)
    BY <2>2, PictureSetIsRead
  <2> HIDE DEF reading
  <2>5. pps' = Stream!Store(pps, picture.id, picture) /\ UNCHANGED <<sps, stream_diagnostics>>
    BY <1>2, <2>3, <2>4 DEF Stream!PushPps, reading
  <2>6. QED
    BY <1>3, <1>7, <2>2, <2>4, <2>5 DEF Stream!Store
<1>8. QED
  BY <1>6, <1>7

(* A slice is read if there is a PPS, and diagnosed if not.                *)
LEMMA SlicePushed ==
  ASSUME SetsAreHandedOver, nal_units \in Nat,
         NEW k \in DOMAIN Nals, IsSlice(k),
         Stream!Push(Contents[k])
  PROVE  /\ UNCHANGED <<sps, pps>>
         /\ pps[0] # Nothing => UNCHANGED stream_diagnostics
         /\ pps[0] = Nothing =>
              \E error \in StreamDiagnostic :
                stream_diagnostics' = Append(stream_diagnostics, error)
<1> DEFINE nal == Contents[k]
           reading == Stream!ReadSlice(nal, sps, pps)
<1>1. nal.type \in {1, 5} /\ nal.pps_id = 0
  BY ContentsAssumption DEF ContentsAssumption, IsSlice
<1>2. Stream!PushVcl(nal)
  BY <1>1 DEF Stream!Push, Stream!PushInvalid, Stream!PushSps, Stream!PushPps,
       Stream!PushOther, Stream!InvalidHeader
<1>3. 0 \in DOMAIN sps /\ 0 \in DOMAIN pps
  BY DEF SetsAreHandedOver
<1>4. nal.pps_id # Stream!NoId /\ Stream!Find(pps, nal.pps_id) = pps[0]
  BY <1>1, <1>3 DEF Stream!Find, Stream!NoId
<1>5. UNCHANGED <<sps, pps>>
  BY <1>2 DEF Stream!PushVcl, Stream!parameterVars
<1>6. CASE pps[0] = Nothing
  <2>1. reading = Stream!NotFound
    BY <1>4, <1>6, PictureSetIsRead DEF Stream!ReadSlice
  <2>2. QED
    BY <1>2, <1>5, <1>6, <2>1, NotFoundIsDiagnosed
       DEF Stream!PushVcl, Stream!IsError, Stream!RecordError
<1>7. CASE pps[0] # Nothing
  <2> DEFINE picture == pps[0]
  <2>1. picture \in PictureSets
    BY <1>7 DEF SetsAreHandedOver
  <2>2. sps[0] # Nothing
    BY <1>7 DEF SetsAreHandedOver, HasSequenceSet
  <2>3. PICK set \in DOMAIN Nals : IsSequenceSet(set) /\ sps[0] = Contents[set].sps
    BY <2>2 DEF SetsAreHandedOver
  <2> HIDE DEF picture
  <2>4. nal.read[sps[0].format, picture.format] \notin
           {Malformed, Stream!SyntaxInvalid, Stream!NotFound}
    BY <2>1, <2>3, ContentsAssumption DEF ContentsAssumption
  <2>5. picture.sps_id = 0 /\ picture # Nothing
    BY <2>1, PictureSetIsRead
  <2>6. Stream!Find(pps, nal.pps_id) = picture /\ Stream!Find(sps, picture.sps_id) = sps[0]
    BY <1>3, <1>4, <2>5 DEF Stream!Find, picture
  <2>7. reading = nal.read[sps[0].format, picture.format]
    BY <1>4, <2>2, <2>4, <2>5, <2>6, PictureSetIsRead DEF Stream!ReadSlice
  <2>8. ~ Stream!IsError(reading)
    BY <2>4, <2>7 DEF Stream!IsError
  <2>9. QED
    BY <1>2, <1>5, <1>7, <2>8 DEF Stream!PushVcl
<1>8. QED
  BY <1>6, <1>7

(* Nothing is read of any other NAL unit.                                  *)
LEMMA OtherPushed ==
  ASSUME NEW k \in DOMAIN Nals, Stream!Push(Contents[k]),
         ~ IsSequenceSet(k), ~ IsPictureSet(k), ~ IsSlice(k)
  PROVE  UNCHANGED <<sps, pps, stream_diagnostics>>
<1>1. Contents[k].type \in 0..31 \ {1, 5, 7, 8}
  BY ContentsAssumption DEF ContentsAssumption, IsSlice, IsPictureSet, IsSequenceSet
<1>2. Contents[k].type \notin {-1, 1, 5, 7, 8}
  BY <1>1
<1>3. Stream!PushOther(Contents[k])
  BY <1>2 DEF Stream!Push, Stream!PushInvalid, Stream!PushSps, Stream!PushPps,
       Stream!PushVcl, Stream!IsSupportedVcl, Stream!InvalidHeader
<1>4. QED
  BY <1>3 DEF Stream!PushOther, Stream!parameterVars

(* The NAL unit that is handed over is the next one in the sender's order. *)
LEMMA NextIsHandedOver ==
  ASSUME SessionInv, QueueIsRest, AppendCompleteNal
  PROVE  \E k \in DOMAIN Nals :
           /\ Stream!Push(Contents[k])
           /\ IsReceived(k)
           /\ \A l \in HandedOver : l < k
           /\ HandedOver' = HandedOver \cup {k}
           /\ QueueIsRest'
<1> DEFINE all == {Nals[k] : k \in DOMAIN Nals}
           n == nal_units
           next == CHOOSE k \in DOMAIN Nals : Nals[k] = Head(queue)
<1>1. /\ queue # <<>> /\ Stream!Push(Contents[next]) /\ queue' = Tail(queue)
      /\ UNCHANGED <<received_nals, ended>>
  BY DEF AppendCompleteNal, h264DeliveryVars
<1>2. nal_units' = n + 1 /\ finished' = finished
  BY <1>1, PushCounts
<1>3. /\ queue \in Seq(all) /\ received_nals \in Seq(all)
      /\ n \in Nat /\ Len(received_nals) = n + Len(queue)
      /\ \A i \in DOMAIN queue : queue[i] = received_nals[n + i]
  BY DEF SessionInv, DeliveryTypes, QueueIsRest
<1> HIDE DEF all, next
<1>4. /\ Len(queue) \in Nat \ {0} /\ DOMAIN queue = 1..Len(queue)
      /\ DOMAIN received_nals = 1..Len(received_nals)
      /\ Head(queue) = queue[1] /\ queue[1] \in all
      /\ Tail(queue) \in Seq(all) /\ Len(Tail(queue)) = Len(queue) - 1
      /\ \A i \in 1..(Len(queue) - 1) : Tail(queue)[i] = queue[i + 1]
  BY <1>1, <1>3
<1>5. /\ next \in DOMAIN Nals /\ Nals[next] = queue[1]
  BY <1>4 DEF all, next
<1>6. n + 1 \in DOMAIN received_nals /\ received_nals[n + 1] = Nals[next]
  BY <1>3, <1>4, <1>5
<1>7. \A l \in HandedOver : l < next
  <2>1. SUFFICES ASSUME NEW l \in DOMAIN Nals, NEW i \in 1..n,
                        received_nals[i] = Nals[l]
                 PROVE  l < next
    BY DEF HandedOver
  <2>2. i \in DOMAIN received_nals /\ i < n + 1
    BY <1>3, <1>4
  <2>3. QED
    BY <1>5, <1>6, <2>1, <2>2 DEF SessionInv, WholeNalsInOrder
<1>8. HandedOver' = HandedOver \cup {next}
  <2>1. 1..(n + 1) = (1..n) \cup {n + 1}
    BY <1>3
  <2>2. \A l \in DOMAIN Nals : Nals[l] = Nals[next] => l = next
    BY <1>5, NalsDiffer
  <2>3. HandedOver' = {k \in DOMAIN Nals :
                         \E i \in 1..(n + 1) : received_nals[i] = Nals[k]}
    BY <1>1, <1>2 DEF HandedOver
  <2>4. QED
    BY <1>5, <1>6, <2>1, <2>2, <2>3 DEF HandedOver
<1>9. QueueIsRest'
  <2>1. nal_units' \in Nat /\ finished' = ended' /\ ~ ended'
    BY <1>1, <1>2, <1>3 DEF QueueIsRest
  <2>2. /\ queue' \in Seq(all) /\ Len(received_nals') = nal_units' + Len(queue')
        /\ \A i \in DOMAIN queue' : queue'[i] = received_nals'[nal_units' + i]
    <3>1. /\ queue' \in Seq(all) /\ Len(queue') = Len(queue) - 1
          /\ DOMAIN queue' = 1..(Len(queue) - 1)
          /\ \A i \in 1..(Len(queue) - 1) : queue'[i] = queue[i + 1]
      BY <1>1, <1>4
    <3>2. \A i \in 1..(Len(queue) - 1) :
            i + 1 \in DOMAIN queue /\ n + (i + 1) = (n + 1) + i
      BY <1>3, <1>4
    <3>3. \A i \in DOMAIN queue' : queue'[i] = received_nals[(n + 1) + i]
      BY <1>3, <3>1, <3>2
    <3>4. Len(received_nals) = (n + 1) + Len(queue')
      BY <1>3, <1>4, <3>1
    <3>5. QED
      BY <1>1, <1>2, <3>1, <3>3, <3>4
  <2>3. QED
    BY <2>1, <2>2 DEF QueueIsRest, all
<1>10. IsReceived(next)
  BY <1>6 DEF IsReceived
<1>11. QED
  BY <1>1, <1>5, <1>7, <1>8, <1>9, <1>10

(* What comes later does not change what a NAL unit is read with.          *)
LEMMA EarlierSetsDecide ==
  ASSUME NEW nals \in SUBSET DOMAIN Nals, NEW k \in DOMAIN Nals,
         \A l \in nals : l < k,
         NEW l \in nals \cup {k}
  PROVE  /\ HasSequenceSet(nals \cup {k}, l) <=> HasSequenceSet(nals, l)
         /\ HasPictureSet(nals \cup {k}, l) <=> HasPictureSet(nals, l)
         /\ IsDecodable(nals \cup {k}, l) <=> IsDecodable(nals, l)
<1>1. /\ \A i \in DOMAIN Nals : i \in Nat
      /\ l \in DOMAIN Nals
  BY ScriptShape
<1>2. ~ (k < l)
  BY <1>1
<1>3. \A other \in DOMAIN Nals : other < l =>
        (HasSequenceSet(nals \cup {k}, other) <=> HasSequenceSet(nals, other))
  BY <1>1, <1>2 DEF HasSequenceSet
<1>4. HasSequenceSet(nals \cup {k}, l) <=> HasSequenceSet(nals, l)
  BY <1>2 DEF HasSequenceSet
<1>5. HasPictureSet(nals \cup {k}, l) <=> HasPictureSet(nals, l)
  BY <1>2, <1>3 DEF HasPictureSet
<1>6. QED
  BY <1>4, <1>5 DEF IsDecodable

(* A NAL unit is handed over.                                              *)
LEMMA HandOverStep ==
  ASSUME SessionInv, StreamInv, AppendCompleteNal
  PROVE  StreamInv'
<1>1. QueueIsRest /\ SetsAreHandedOver /\ StreamErrorsAreUndecodable
  BY DEF StreamInv
<1>2. PICK k \in DOMAIN Nals :
        /\ Stream!Push(Contents[k])
        /\ \A l \in HandedOver : l < k
        /\ HandedOver' = HandedOver \cup {k}
        /\ QueueIsRest'
  BY <1>1, NextIsHandedOver
<1> DEFINE nals == HandedOver
<1>3. nals \in SUBSET DOMAIN Nals
  BY DEF HandedOver
<1>4. /\ sps[0] = Nothing <=> ~ \E set \in nals : IsSequenceSet(set)
      /\ pps[0] = Nothing
           <=> ~ \E set \in nals : IsPictureSet(set) /\ HasSequenceSet(nals, set)
      /\ stream_diagnostics = <<>> <=> \A l \in nals : IsDecodable(nals, l)
      /\ stream_diagnostics \in Seq(StreamDiagnostic)
      /\ nal_units \in Nat
      /\ pps \in [{0} -> {Nothing} \cup PictureSets]
      /\ sps \in [{0} -> {Nothing} \cup {Contents[set].sps :
                    set \in {l \in DOMAIN Nals : IsSequenceSet(l)}}]
  BY <1>1 DEF SetsAreHandedOver, StreamErrorsAreUndecodable, QueueIsRest
<1>5. /\ HasSequenceSet(nals, k) <=> sps[0] # Nothing
      /\ HasPictureSet(nals, k) <=> pps[0] # Nothing
  BY <1>2, <1>4 DEF HasSequenceSet, HasPictureSet
<1>6. \A l \in nals \cup {k} :
        /\ HasSequenceSet(nals \cup {k}, l) <=> HasSequenceSet(nals, l)
        /\ IsDecodable(nals \cup {k}, l) <=> IsDecodable(nals, l)
  BY <1>2, <1>3, EarlierSetsDecide
<1>7. /\ IsSequenceSet(k) => ~ IsPictureSet(k) /\ ~ IsSlice(k)
      /\ IsPictureSet(k) => ~ IsSlice(k)
  BY DEF IsSequenceSet, IsPictureSet, IsSlice
<1>8. (\A l \in nals \cup {k} : IsDecodable(nals \cup {k}, l))
        <=> (\A l \in nals : IsDecodable(nals, l)) /\ IsDecodable(nals, k)
  BY <1>6
<1>9. (\E set \in nals \cup {k} : IsSequenceSet(set))
        <=> sps[0] # Nothing \/ IsSequenceSet(k)
  BY <1>4
<1>10. (\E set \in nals \cup {k} :
          IsPictureSet(set) /\ HasSequenceSet(nals \cup {k}, set))
         <=> pps[0] # Nothing \/ (IsPictureSet(k) /\ sps[0] # Nothing)
  BY <1>4, <1>5, <1>6
<1> HIDE DEF nals
<1>11. ASSUME NEW error \in StreamDiagnostic,
              stream_diagnostics' = Append(stream_diagnostics, error)
       PROVE  /\ stream_diagnostics' # <<>>
              /\ stream_diagnostics' \in Seq(StreamDiagnostic)
  BY <1>4, <1>11
<1>12. /\ sps' \in [{0} -> {Nothing} \cup {Contents[set].sps :
                      set \in {l \in DOMAIN Nals : IsSequenceSet(l)}}]
       /\ sps'[0] = Nothing <=> sps[0] = Nothing /\ ~ IsSequenceSet(k)
       /\ pps' \in [{0} -> {Nothing} \cup PictureSets]
       /\ pps'[0] = Nothing
            <=> pps[0] = Nothing /\ ~ (IsPictureSet(k) /\ sps[0] # Nothing)
       /\ stream_diagnostics' = <<>>
            <=> stream_diagnostics = <<>> /\ IsDecodable(nals, k)
       /\ stream_diagnostics' \in Seq(StreamDiagnostic)
  <2>1. CASE IsSequenceSet(k)
    <3>1. /\ sps' = [sps EXCEPT ![0] = Contents[k].sps]
          /\ UNCHANGED <<pps, stream_diagnostics>>
      BY <1>1, <1>2, <2>1, SequenceSetPushed
    <3>2. Contents[k].sps # Nothing
      BY <2>1, ContentsAssumption DEF ContentsAssumption
    <3>3. IsDecodable(nals, k)
      BY <1>7, <2>1 DEF IsDecodable
    <3>4. sps'[0] = Contents[k].sps
      BY <1>4, <3>1
    <3>5. sps' \in [{0} -> {Nothing} \cup {Contents[set].sps :
                      set \in {l \in DOMAIN Nals : IsSequenceSet(l)}}]
      BY <1>4, <2>1, <3>1
    <3>6. QED
      BY <1>4, <1>7, <2>1, <3>1, <3>2, <3>3, <3>4, <3>5
  <2>2. CASE IsPictureSet(k)
    <3>1. /\ sps' = sps
          /\ sps[0] # Nothing =>
               /\ \E picture \in PictureSets : pps' = [pps EXCEPT ![0] = picture]
               /\ UNCHANGED stream_diagnostics
          /\ sps[0] = Nothing =>
               /\ pps' = pps
               /\ \E error \in StreamDiagnostic :
                    stream_diagnostics' = Append(stream_diagnostics, error)
      BY <1>1, <1>2, <1>4, <2>2, PictureSetPushed
    <3>2. IsDecodable(nals, k) <=> sps[0] # Nothing
      BY <1>5, <1>7, <2>2 DEF IsDecodable, nals
    <3>3. CASE sps[0] = Nothing
      BY <1>4, <1>7, <1>11, <2>2, <3>1, <3>2, <3>3
    <3>4. CASE sps[0] # Nothing
      <4>1. PICK picture \in PictureSets : pps' = [pps EXCEPT ![0] = picture]
        BY <3>1, <3>4
      <4>2. pps'[0] # Nothing /\ pps' \in [{0} -> {Nothing} \cup PictureSets]
        BY <1>4, <4>1, PictureSetIsRead
      <4>3. QED
        BY <1>4, <1>7, <2>2, <3>1, <3>2, <3>4, <4>2
    <3>5. QED
      BY <3>3, <3>4
  <2>3. CASE IsSlice(k)
    <3>1. /\ UNCHANGED <<sps, pps>>
          /\ pps[0] # Nothing => UNCHANGED stream_diagnostics
          /\ pps[0] = Nothing =>
               \E error \in StreamDiagnostic :
                 stream_diagnostics' = Append(stream_diagnostics, error)
      BY <1>1, <1>2, <1>4, <2>3, SlicePushed
    <3>2. IsDecodable(nals, k) <=> pps[0] # Nothing
      BY <1>5, <1>7, <2>3 DEF IsDecodable, nals
    <3>3. QED
      BY <1>4, <1>7, <1>11, <2>3, <3>1, <3>2
  <2>4. CASE ~ IsSequenceSet(k) /\ ~ IsPictureSet(k) /\ ~ IsSlice(k)
    <3>1. UNCHANGED <<sps, pps, stream_diagnostics>>
      BY <1>2, <2>4, OtherPushed
    <3>2. IsDecodable(nals, k)
      BY <2>4 DEF IsDecodable
    <3>3. QED
      BY <1>4, <2>4, <3>1, <3>2
  <2>5. QED
    BY <2>1, <2>2, <2>3, <2>4
<1>13. SetsAreHandedOver'
  BY <1>2, <1>9, <1>10, <1>12 DEF SetsAreHandedOver, nals
<1>14. StreamErrorsAreUndecodable'
  BY <1>2, <1>4, <1>8, <1>12 DEF StreamErrorsAreUndecodable, nals
<1>15. QED
  BY <1>2, <1>13, <1>14 DEF StreamInv

(* What a packet completes are NAL units of the sender.                    *)
LEMMA OutputOfDelivery ==
  ASSUME SessionInv, NEW index \in DOMAIN Script, Deliver(index)
  PROVE  output' \in Seq({Nals[k] : k \in DOMAIN Nals})
<1> DEFINE packet == Sent(index)
<1>1. /\ ~ ended
      /\ newest # None =>
           index \in (newest - MaxDisplacement)..(newest + MaxJump)
      /\ Push(packet, clock)
      /\ newest' = IF index > newest THEN index ELSE newest
      /\ accepted' = IF disposition' = "accepted" THEN accepted \cup {index}
                                                   ELSE accepted
      /\ received_nals' = received_nals \o output'
      /\ first_number' = first_number /\ ended' = ended
  BY DEF Deliver
<1>2. disposition' = "accepted" <=> newest = None \/ index > newest
  BY <1>1, AcceptedIsNewer DEF Push
<1>3. index \in Nat \ {0} /\ (newest = None \/ newest \in Nat)
  BY ScriptShape DEF SessionInv, DeliveryTypes
<1> HIDE DEF packet
<1>4. CASE disposition' = "accepted"
  <2>1. /\ newest' = index /\ accepted' = accepted \cup {index}
        /\ newest # None => index > newest
        /\ Analyze(packet)
    BY <1>1, <1>2, <1>3, <1>4 DEF None, Push
  <2>2. Accepts(index, packet)
    BY <1>1, <2>1 DEF Accepts, packet
  <2>3. QED
    BY <2>2, AcceptedOutcome DEF Outcome, Delivers
<1>5. CASE disposition' # "accepted"
  BY <1>1, <1>5 DEF Push, Skip
<1>6. QED
  BY <1>4, <1>5

(* The parts of a concatenation.                                           *)
LEMMA Concatenated ==
  ASSUME NEW all, NEW s \in Seq(all), NEW t \in Seq(all)
  PROVE  /\ Len(s \o t) = Len(s) + Len(t)
         /\ \A i \in 1..Len(s) : (s \o t)[i] = s[i]
         /\ \A i \in DOMAIN t : t[i] = (s \o t)[Len(s) + i]
<1>1. /\ Len(s) \in Nat /\ Len(t) \in Nat /\ DOMAIN t = 1..Len(t)
      /\ Len(s \o t) = Len(s) + Len(t)
  OBVIOUS
<1>2. \A i \in 1..(Len(s) + Len(t)) :
        (s \o t)[i] = IF i <= Len(s) THEN s[i] ELSE t[i - Len(s)]
  OBVIOUS
<1>3. \A i \in 1..Len(s) : (s \o t)[i] = s[i]
  BY <1>1, <1>2
<1>4. ASSUME NEW i \in DOMAIN t
      PROVE  t[i] = (s \o t)[Len(s) + i]
  <2>1. /\ Len(s) + i \in 1..(Len(s) + Len(t))
        /\ ~ (Len(s) + i <= Len(s)) /\ (Len(s) + i) - Len(s) = i
    BY <1>1
  <2>2. QED
    BY <1>2, <2>1
<1>5. QED
  BY <1>1, <1>3, <1>4

(* What comes out waits in the queue.                                      *)
LEMMA QueueFills ==
  ASSUME SessionInv, StreamInv, NEW index \in DOMAIN Script, Receive(index)
  PROVE  StreamInv'
<1> DEFINE all == {Nals[k] : k \in DOMAIN Nals}
           old == received_nals
           new == received_nals'
<1>1. /\ queue = <<>> /\ queue' = output' /\ new = old \o output'
      /\ ~ ended /\ ended' = ended /\ UNCHANGED streamVars
  BY DEF Receive, Deliver
<1>2. UNCHANGED <<sps, pps, nal_units, finished, stream_diagnostics>>
  BY <1>1 DEF streamVars
<1>3. /\ old \in Seq(all) /\ nal_units \in Nat
      /\ Len(old) = nal_units + Len(queue) /\ finished = ended
  BY DEF SessionInv, DeliveryTypes, StreamInv, QueueIsRest
<1>4. output' \in Seq(all)
  BY OutputOfDelivery DEF Receive
<1> HIDE DEF all
<1>5. Len(old) = nal_units
  BY <1>1, <1>3
<1>6. /\ Len(new) = nal_units + Len(output')
      /\ \A i \in 1..nal_units : new[i] = old[i]
      /\ \A i \in DOMAIN output' : output'[i] = new[nal_units + i]
  BY <1>1, <1>3, <1>4, <1>5, Concatenated
<1>7. QueueIsRest'
  BY <1>1, <1>2, <1>3, <1>4, <1>6 DEF QueueIsRest, all
<1>8. HandedOver' = HandedOver
  BY <1>2, <1>6 DEF HandedOver
<1>9. SetsAreHandedOver' /\ StreamErrorsAreUndecodable'
  BY <1>2, <1>8 DEF StreamInv, SetsAreHandedOver, StreamErrorsAreUndecodable
<1>10. QED
  BY <1>7, <1>9 DEF StreamInv

(* A step that hands over nothing and receives nothing.                    *)
LEMMA StreamStays ==
  ASSUME StreamInv,
         UNCHANGED <<sps, pps, nal_units, stream_diagnostics, queue, received_nals>>,
         finished' = ended', ended' => queue = <<>>
  PROVE  StreamInv'
<1>1. HandedOver' = HandedOver
  BY DEF HandedOver
<1>2. QueueIsRest'
  BY DEF StreamInv, QueueIsRest
<1>3. SetsAreHandedOver' /\ StreamErrorsAreUndecodable'
  BY <1>1 DEF StreamInv, SetsAreHandedOver, StreamErrorsAreUndecodable
<1>4. QED
  BY <1>2, <1>3 DEF StreamInv

-----------------------------------------------------------------------------
(* The invariant of the report, and what it says at the end.               *)

LEMMA ReportInit == SessionInit => ReportInv
<1> SUFFICES ASSUME SessionInit PROVE ReportInv
  OBVIOUS
<1>1. SessionInv
  BY SessionInitInv DEF SessionInit
<1>2. /\ newest = None /\ accepted = {} /\ came = {} /\ queue = <<>>
      /\ received_nals = <<>> /\ ended = FALSE /\ active = Nothing
      /\ strays = [invalid |-> 0, foreign |-> 0]
      /\ statistics.out_of_order_packets = 0
      /\ diagnostics = [code \in DiagnosticCode |-> 0]
      /\ h264_diagnostics = [code \in H264DiagnosticCode |-> 0]
  BY DEF SessionInit, DeliveryInit, H264Init, Init
<1>3. /\ sps = [id \in {0} |-> Nothing] /\ pps = [id \in {0} |-> Nothing]
      /\ nal_units = 0 /\ stream_diagnostics = <<>> /\ finished = FALSE
  BY PictureSetIsRead DEF SessionInit, Stream!Init
<1>4. {"RTP_INVALID_PACKET", "RTP_SEQUENCE_GAP"} \subseteq DiagnosticCode
  BY DEF DiagnosticCode
<1>5. ArrivalInv
  BY <1>2, <1>4 DEF ArrivalInv, ArrivalTypes, InvalidAreCounted,
       NumbersAreIndices, LateAreRefused, GapsAreHoles
<1>6. ErrorsAreLosses
  BY <1>2 DEF ErrorsAreLosses, HasH264Error, H264ErrorCodes, IsLost
<1>7. HandedOver = {}
  BY <1>3 DEF HandedOver
<1>8. QueueIsRest
  <2> DEFINE all == {Nals[k] : k \in DOMAIN Nals}
  <2>1. <<>> \in Seq(all) /\ Len(<<>>) = 0 /\ DOMAIN <<>> = {}
    <3> HIDE DEF all
    <3> QED
      OBVIOUS
  <2>2. QED
    BY <1>2, <1>3, <2>1 DEF QueueIsRest
<1>9. SetsAreHandedOver
  BY <1>3, <1>7 DEF SetsAreHandedOver
<1>10. StreamErrorsAreUndecodable
  <2>1. <<>> \in Seq(StreamDiagnostic)
    OBVIOUS
  <2>2. QED
    BY <1>3, <1>7, <2>1 DEF StreamErrorsAreUndecodable
<1>11. QED
  BY <1>1, <1>5, <1>6, <1>8, <1>9, <1>10 DEF ReportInv, ArrivalInv, StreamInv

(* The parts of the invariant, as the lemmas about the steps take them.    *)
LEMMA ReportParts ==
  /\ ReportInv <=> SessionInv /\ ArrivalInv /\ ErrorsAreLosses /\ StreamInv
  /\ ReportInv' <=> SessionInv' /\ ArrivalInv' /\ ErrorsAreLosses' /\ StreamInv'
BY DEF ReportInv, ArrivalInv

(* A step that leaves all of what the report is made of as it is.          *)
LEMMA ArrivalStutter ==
  ASSUME ArrivalInv, UNCHANGED <<rtpVars, newest, accepted, came, strays>>
  PROVE  ArrivalInv'
<1>1. UNCHANGED <<highest_extended_sequence, base_extended_sequence, arrived,
                  statistics, diagnostics>>
  BY DEF rtpVars, vars
<1>2. InvalidAreCounted' /\ strays' \in [invalid : Nat, foreign : Nat]
  BY <1>1 DEF ArrivalInv, InvalidAreCounted, ArrivalTypes
<1>3. QED
  BY <1>1, <1>2, ArrivalStays

LEMMA AppendReport ==
  ASSUME ReportInv, AppendCompleteNal
  PROVE  ReportInv'
<1>1. SessionInv /\ ArrivalInv /\ ErrorsAreLosses /\ StreamInv
  BY ReportParts
<1>2. UNCHANGED <<rtpVars, active, h264_diagnostics, first_number, newest,
                  accepted, received_nals, came, strays>>
  BY DEF AppendCompleteNal, h264DeliveryVars, h264Vars
<1>3. SessionInv'
  BY <1>1, SessionNextInv DEF SessionNext
<1>4. ArrivalInv'
  BY <1>1, <1>2, ArrivalStutter
<1>5. ErrorsAreLosses'
  BY <1>1, <1>2, ErrorsStay
<1>6. StreamInv'
  BY <1>1, HandOverStep
<1>7. QED
  BY <1>3, <1>4, <1>5, <1>6, ReportParts

LEMMA ReceiveReport ==
  ASSUME ReportInv, NEW index \in DOMAIN Script, Receive(index)
  PROVE  ReportInv'
<1>1. SessionInv /\ ArrivalInv /\ ErrorsAreLosses /\ StreamInv
  BY ReportParts
<1>2. /\ Deliver(index) /\ came' = came \cup {index} /\ strays' = strays
  BY DEF Receive
<1>3. SessionInv'
  BY <1>1, SessionNextInv DEF SessionNext
<1>4. Arrives(index, RtpHeader(Sent(index)), clock)
  BY <1>2 DEF Arrives, Deliver, Push
<1>5. ArrivalInv'
  BY <1>1, <1>4, ArrivalStep
<1>6. ErrorsAreLosses'
  BY <1>1, <1>2, DeliverErrors
<1>7. StreamInv'
  BY <1>1, QueueFills
<1>8. QED
  BY <1>3, <1>5, <1>6, <1>7, ReportParts

LEMMA StrayReport ==
  ASSUME ReportInv, ReceiveStray
  PROVE  ReportInv'
<1>1. SessionInv /\ ArrivalInv /\ ErrorsAreLosses /\ StreamInv
  BY ReportParts
<1>2. SessionInv'
  BY <1>1, SessionNextInv DEF SessionNext
<1>3. ArrivalInv'
  BY <1>1, StrayArrival
<1>4. /\ UNCHANGED <<first_number, newest, accepted, received_nals, ended,
                     streamVars, queue>>
      /\ clock' = clock
      /\ (PushInvalid /\ Skip) \/ Push(Foreign, clock)
  BY DEF ReceiveStray, ArrivesAt
<1>5. Skip
  <2>1. SUFFICES ASSUME Push(Foreign, clock) PROVE Skip
    BY <1>4
  <2>2. clock \in Nat /\ IInv
    BY <1>1 DEF SessionInv, H264Inv, IInv, TypeOK
  <2>3. IsH264Packet(Foreign) /\ Foreign.payload_type # ConfiguredPayloadType
    BY SessionAssumption DEF SessionAssumption
  <2>4. /\ PushPacket(RtpHeader(Foreign), clock)
        /\ RtpHeader(Foreign) \in RtpPacket
        /\ RtpHeader(Foreign).payload_type # ConfiguredPayloadType
    BY <2>1, <2>3, HeaderIsPacket DEF Push
  <2>5. disposition' # "accepted"
    BY <2>2, <2>4, AcceptedPush
  <2>6. QED
    BY <2>1, <2>5 DEF Push
<1>6. ErrorsAreLosses'
  BY <1>1, <1>4, <1>5, ErrorsStay DEF Skip
<1>7. StreamInv'
  <2>1. finished = ended /\ (ended => queue = <<>>)
    BY <1>1 DEF StreamInv, QueueIsRest
  <2>2. UNCHANGED <<sps, pps, nal_units, stream_diagnostics, finished, queue,
                    received_nals, ended>>
    BY <1>4 DEF streamVars
  <2>3. QED
    BY <1>1, <2>1, <2>2, StreamStays
<1>8. QED
  BY <1>2, <1>3, <1>6, <1>7, ReportParts

LEMMA StopReport ==
  ASSUME ReportInv, Stop
  PROVE  ReportInv'
<1>1. SessionInv /\ ArrivalInv /\ ErrorsAreLosses /\ StreamInv
  BY ReportParts
<1>2. SessionInv'
  BY <1>1, SessionNextInv DEF SessionNext
<1>3. /\ queue = <<>> /\ End /\ Stream!Finish /\ UNCHANGED <<queue, came, strays>>
  BY DEF Stop
<1>4. UNCHANGED <<rtpVars, newest, accepted, received_nals>> /\ ended' = TRUE
  BY <1>3 DEF End, Finish
<1>5. ArrivalInv'
  BY <1>1, <1>3, <1>4, ArrivalStutter
<1>6. ErrorsAreLosses'
  BY <1>1, <1>3, EndErrors
<1>7. StreamInv'
  <2>1. /\ UNCHANGED <<sps, pps, nal_units, stream_diagnostics>>
        /\ finished' = TRUE
    BY <1>3 DEF Stream!Finish, Stream!parameterVars
  <2>2. QED
    BY <1>1, <1>3, <1>4, <2>1, StreamStays
<1>8. QED
  BY <1>2, <1>5, <1>6, <1>7, ReportParts

LEMMA ReportStutter ==
  ASSUME ReportInv, UNCHANGED sessionVars
  PROVE  ReportInv'
<1>1. SessionInv /\ ArrivalInv /\ ErrorsAreLosses /\ StreamInv
  BY ReportParts
<1>2. UNCHANGED <<rtpVars, active, h264_diagnostics, first_number, newest,
                  accepted, received_nals, ended, came, strays, queue>>
  BY DEF sessionVars, h264DeliveryVars, h264Vars
<1>3. UNCHANGED <<sps, pps, nal_units, stream_diagnostics, finished>>
  BY DEF sessionVars, streamVars
<1>4. SessionInv'
  BY <1>1, SessionNextInv
<1>5. ArrivalInv'
  BY <1>1, <1>2, ArrivalStutter
<1>6. ErrorsAreLosses'
  BY <1>1, <1>2, ErrorsStay
<1>7. finished = ended /\ (ended => queue = <<>>)
  BY <1>1 DEF StreamInv, QueueIsRest
<1>8. StreamInv'
  BY <1>1, <1>2, <1>3, <1>7, StreamStays
<1>9. QED
  BY <1>4, <1>5, <1>6, <1>8, ReportParts

(* The four classes of errors name what was lost, each its own part.       *)
LEMMA StatusAtTheEnd == ReportInv => ReportStatusIsTruth
<1> DEFINE touched == {k \in DOMAIN Nals : PacketsOf[k] \cap came # {}}
           whole == /\ strays.invalid = 0
                    /\ accepted = came
                    /\ \A index \in came : index..newest \subseteq came
                    /\ touched \subseteq Reassembled
                    /\ \A k \in touched : IsDecodable(Reassembled, k)
<1>1. SUFFICES ASSUME ReportInv, ended
               PROVE  ~ HasError /\ statistics.out_of_order_packets = 0 <=> whole
  BY DEF ReportStatusIsTruth, ReportStatus
<1>2. \A k \in DOMAIN Nals : ~ IsOpen(k)
  BY <1>1 DEF ReportInv, SessionInv, ActiveIsPrefix, IsOpen
<1>3. \A k \in DOMAIN Nals : IsReceived(k) => PacketsOf[k] \cap accepted # {}
  BY <1>1, PacketsShape DEF ReportInv, SessionInv, ReceivedIffAccepted
<1>4. HandedOver = Reassembled
  <2>1. /\ queue = <<>> /\ nal_units \in Nat
        /\ Len(received_nals) = nal_units + Len(queue)
        /\ received_nals \in Seq({Nals[k] : k \in DOMAIN Nals})
    BY <1>1 DEF ReportInv, StreamInv, QueueIsRest, SessionInv, DeliveryTypes
  <2>2. Len(received_nals) = nal_units
    BY <2>1
  <2>3. DOMAIN received_nals = 1..nal_units
    BY <2>1, <2>2
  <2>4. QED
    BY <2>3 DEF HandedOver, Reassembled, IsReceived
<1>5. /\ diagnostics["RTP_INVALID_PACKET"] = 0 <=> strays.invalid = 0
      /\ statistics.out_of_order_packets = 0 <=> came = accepted
      /\ diagnostics["RTP_SEQUENCE_GAP"] = 0
           <=> \A index \in accepted : index..newest \subseteq accepted
      /\ HasH264Error <=> \E k \in DOMAIN Nals : IsLost(k)
      /\ stream_diagnostics = <<>> <=> \A k \in Reassembled : IsDecodable(Reassembled, k)
  BY <1>1, <1>4 DEF ReportInv, InvalidAreCounted, LateAreRefused, GapsAreHoles,
       ErrorsAreLosses, StreamInv, StreamErrorsAreUndecodable
<1>6. HasError <=> \/ diagnostics["RTP_INVALID_PACKET"] # 0
                   \/ diagnostics["RTP_SEQUENCE_GAP"] # 0
                   \/ HasH264Error
                   \/ stream_diagnostics # <<>>
  BY DEF HasError, ErrorCodes, HasH264Error
<1>7. CASE came # accepted
  BY <1>5, <1>7
<1>8. CASE came = accepted
  <2>1. Reassembled \subseteq touched
    BY <1>3, <1>8 DEF Reassembled
  <2>2. HasH264Error <=> ~ (touched \subseteq Reassembled)
    BY <1>2, <1>5, <1>8 DEF IsLost, Reassembled
  <2> HIDE DEF touched
  <2>3. CASE HasH264Error
    BY <1>6, <2>2, <2>3
  <2>4. CASE ~ HasH264Error
    <3>1. touched = Reassembled
      BY <2>1, <2>2, <2>4
    <3>2. QED
      BY <1>5, <1>6, <1>8, <2>4, <3>1
  <2>5. QED
    BY <2>3, <2>4
<1>9. QED
  BY <1>7, <1>8

(* The invariant of the report holds in every state of a session.          *)
THEOREM ReportInvariance == SessionSpec => []ReportInv
<1>1. SessionInit => ReportInv
  BY ReportInit
<1>2. ReportInv /\ [SessionNext]_sessionVars => ReportInv'
  BY AppendReport, ReceiveReport, StrayReport, StopReport, ReportStutter
     DEF SessionNext
<1>3. QED
  BY <1>1, <1>2, PTL DEF SessionSpec

(* Whatever is lost, repeated, reordered or comes from others, the report  *)
(* is complete exactly if everything that was begun was received whole and *)
(* came with the parameter sets it is read with.                           *)
THEOREM ReportStatusCorrect == SessionSpec => []ReportStatusIsTruth
BY ReportInvariance, StatusAtTheEnd, PTL
=============================================================================
