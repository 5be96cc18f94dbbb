---------------------------- MODULE MCH264Session ----------------------------
(* Constants of the TLC run of H264Session.                                *)
EXTENDS H264Session

MCNoSsrc == None

MCClockStandsStill == {0}

(* An access unit delimiter, the SPS, the PPS and an SEI message in one    *)
(* STAP-A, an IDR slice in two fragments, a picture of one slice, and one  *)
(* of two.                                                                 *)
MCNals ==
    <<NalUnit(9, 0, <<"aud">>),
      NalUnit(7, 3, <<"sps">>), NalUnit(8, 3, <<"pps">>), NalUnit(6, 0, <<"sei">>),
      NalUnit(5, 3, <<"i1", "i2">>),
      NalUnit(1, 0, <<"a1">>),
      NalUnit(1, 0, <<"b1">>),
      NalUnit(1, 0, <<"c1">>)>>

(* The two pictures after the IDR picture are no references, and have the  *)
(* same frame_num: only their picture order count tells them apart.        *)
Slice(frame_num, nal_ref_idc, pic_order_cnt, idr, slice_type) ==
    [type |-> IF idr THEN 5 ELSE 1, pps_id |-> 0,
     read |-> [sps_format \in {"A"}, pps_format \in {"A"} |->
                 [pic_parameter_set_id |-> 0, frame_num |-> frame_num,
                  nal_ref_idc |-> nal_ref_idc, pic_order_cnt |-> pic_order_cnt,
                  field |-> "frame", idr |-> idr, idr_pic_id |-> 0,
                  slice_type |-> slice_type]]]

MCContents ==
    <<[type |-> 9],
      [type |-> 7, sps |-> [id |-> 0, chroma |-> 1, format |-> "A"]],
      [type |-> 8, ids |-> [pps_id |-> 0, sps_id |-> 0],
       read |-> [chroma \in {1} |-> [id |-> 0, sps_id |-> 0, format |-> "A"]]],
      [type |-> 6],
      Slice(0, 3, 0, TRUE, "i"),
      Slice(1, 0, 2, FALSE, "p"),
      Slice(1, 0, 4, FALSE, "p"),
      Slice(1, 0, 4, FALSE, "b")>>

PictureOf == <<0, 0, 0, 0, 0, 1, 2, 2>>

Fragment(k, i, last) ==
    [timestamp |-> PictureOf[k], marker |-> i = last, carries |-> {k},
     payload |-> [kind |-> "fu_a", well_formed |-> TRUE,
                  start |-> i = 1, end |-> i = last,
                  nal_ref_idc |-> MCNals[k].nal_ref_idc,
                  nal_unit_type |-> MCNals[k].nal_unit_type,
                  bytes |-> <<MCNals[k].bytes[i]>>]]

Single(k, marker) ==
    [timestamp |-> PictureOf[k], marker |-> marker, carries |-> {k},
     payload |-> [kind |-> "single_nal_unit", nal |-> MCNals[k]]]

(* The STAP-A announces a lower priority than the PPS in it has.           *)
MCScript ==
    <<Single(1, FALSE), Single(2, FALSE),
      [timestamp |-> 0, marker |-> FALSE, carries |-> {3, 4},
       payload |-> [kind |-> "stap_a", nal_ref_idc |-> 0,
                    units |-> <<MCNals[3], MCNals[4]>>]],
      Fragment(5, 1, 2), Fragment(5, 2, 2), Single(6, TRUE),
      Single(7, FALSE), Single(8, TRUE)>>

MCPackets ==
    {[payload_type |-> 96, ssrc |-> 1, sequence_number |-> 0,
      timestamp |-> MCScript[index].timestamp, marker |-> MCScript[index].marker,
      payload |-> MCScript[index].payload] : index \in DOMAIN MCScript}

MCForeign ==
    [payload_type |-> 97, ssrc |-> 1, sequence_number |-> 0, timestamp |-> 0,
     marker |-> FALSE, payload |-> [kind |-> "single_nal_unit", nal |-> MCNals[6]]]
=============================================================================
