----------------------- MODULE MCH264FuAReassembler -----------------------
(* Constants of the TLC run of H264FuAReassembler.                         *)
EXTENDS H264FuAReassembler

Fragment(well_formed, start, end, nal_unit_type, bytes) ==
    [kind |-> "fu_a", well_formed |-> well_formed, start |-> start, end |-> end,
     nal_ref_idc |-> 3, nal_unit_type |-> nal_unit_type, bytes |-> bytes]

(* Every combination of the start and end bits, two NAL types, payloads of *)
(* no, one and two bytes, and a fragment whose header cannot be parsed.    *)
MCPayloads ==
    {Fragment(TRUE, start, end, 1, bytes) :
       start \in BOOLEAN, end \in BOOLEAN, bytes \in {<<>>, <<"a">>, <<"b", "c">>}}
    \cup {Fragment(TRUE, FALSE, FALSE, 5, <<"a">>),
          Fragment(FALSE, FALSE, FALSE, 1, <<>>)}

(* Consecutive numbers wrap at 3; two timestamps and two SSRCs.            *)
MCPackets ==
    {packet \in [sequence_number : 0..2, timestamp : {0, 1}, ssrc : {1, 2},
                 payload_type : {96}, marker : BOOLEAN, payload : MCPayloads] :
       packet.ssrc = 2 => packet.timestamp = 0 /\ ~ packet.marker}
=============================================================================
