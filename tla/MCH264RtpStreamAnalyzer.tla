---------------------- MODULE MCH264RtpStreamAnalyzer ----------------------
(* Constants of the TLC run of H264RtpStreamAnalyzer.                      *)
EXTENDS H264RtpStreamAnalyzer, TLC

MCNoSsrc == None

MCClockStandsStill == {0}

Nal(nal_unit_type, bytes) == NalUnit(nal_unit_type, 3, bytes)

StapA(nal_ref_idc, units) ==
    [kind |-> "stap_a", nal_ref_idc |-> nal_ref_idc, units |-> units]

Fragment(well_formed, start, end, nal_unit_type, bytes) ==
    [kind |-> "fu_a", well_formed |-> well_formed, start |-> start, end |-> end,
     nal_ref_idc |-> 3, nal_unit_type |-> nal_unit_type, bytes |-> bytes]

(* A payload for every branch of push: each kind, valid and not, and       *)
(* fragments of an IDR slice and of another NAL unit, one of them too big. *)
MCPayloads ==
    {[kind |-> "unsupported"],
     [kind |-> "single_nal_unit", nal |-> Nal(5, <<"a">>)],
     StapA(3, <<Nal(7, <<"a">>), Nal(5, <<"b">>)>>),
     StapA(1, <<Nal(7, <<"a">>)>>),
     StapA(3, <<Nal(7, <<"a">>), Malformed>>),
     Fragment(TRUE, TRUE, TRUE, 5, <<"a">>),
     Fragment(TRUE, TRUE, FALSE, 5, <<"a">>),
     Fragment(TRUE, FALSE, FALSE, 5, <<"a">>),
     Fragment(TRUE, FALSE, TRUE, 5, <<"a">>),
     Fragment(TRUE, TRUE, FALSE, 1, <<"a", "a">>),
     Fragment(TRUE, FALSE, TRUE, 1, <<"a">>),
     Fragment(TRUE, TRUE, FALSE, 1, <<"a", "a", "a">>)}

(* One number of the circle never arrives.                                 *)
MCNumbers == SequenceNumber \ {2}

(* A second timestamp for one fragment, one packet of another SSRC.        *)
MCPackets ==
    [sequence_number : MCNumbers, timestamp : {0}, ssrc : {1},
     payload_type : {96}, marker : {FALSE}, payload : MCPayloads]
    \cup
    [sequence_number : MCNumbers, timestamp : {1}, ssrc : {1},
     payload_type : {96}, marker : {FALSE},
     payload : {Fragment(TRUE, FALSE, TRUE, 5, <<"a">>)}]
    \cup
    [sequence_number : {0}, timestamp : {0}, ssrc : {1, 2},
     payload_type : {96}, marker : {TRUE},
     payload : {Fragment(TRUE, FALSE, FALSE, 5, <<"a">>)}]
=============================================================================
