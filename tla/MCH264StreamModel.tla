-------------------------- MODULE MCH264StreamModel --------------------------
(* Constants of the TLC runs of H264StreamModel and InspectFile.           *)
EXTENDS InspectFile

Sps(id, chroma, format) ==
    [type |-> 7, sps |-> [id |-> id, chroma |-> chroma, format |-> format]]

(* A PPS that only reads well with chroma format 1.                        *)
Pps(id, sps_id, format) ==
    [type |-> 8, ids |-> [pps_id |-> id, sps_id |-> sps_id],
     read |-> [chroma \in {0, 1} |->
                 IF chroma = 1 THEN [id |-> id, sps_id |-> sps_id, format |-> format]
                 ELSE Malformed]]

(* A slice written for an SPS and a PPS of format "A"; where one of them   *)
(* has format "B" it is either invalid or another picture.                 *)
Header(pps_id, idr, idr_pic_id, frame_num, slice_type) ==
    [pic_parameter_set_id |-> pps_id, frame_num |-> frame_num, nal_ref_idc |-> 1,
     pic_order_cnt |-> 0, field |-> "frame", idr |-> idr,
     idr_pic_id |-> idr_pic_id, slice_type |-> slice_type]

Slice(pps_id, idr, idr_pic_id, frame_num, slice_type, other) ==
    [type |-> IF idr THEN 5 ELSE 1, pps_id |-> pps_id,
     read |-> [sps_format, pps_format \in {"A", "B"} |->
                 IF sps_format = "A" /\ pps_format = "A"
                 THEN Header(pps_id, idr, idr_pic_id, frame_num, slice_type)
                 ELSE other]]

(* Picture boundaries and GOPs: one set of parameter sets.                 *)
MCBoundaryNals ==
    {[type |-> InvalidHeader],
     Sps(0, 1, "A"), Pps(0, 0, "A"),
     Slice(0, TRUE, 0, 0, "i", Malformed), Slice(0, TRUE, 1, 0, "i", Malformed),
     Slice(0, FALSE, 0, 1, "p", Malformed), Slice(0, FALSE, 0, 1, "i", Malformed),
     Slice(0, FALSE, 0, 2, "b", Malformed),
     [type |-> 9], [type |-> 12]}

(* Parameter sets that are redefined, missing, late and malformed.         *)
MCParameterNals ==
    {Sps(0, 1, "A"), Sps(0, 1, "B"), Sps(0, 0, "A"), Sps(1, 1, "A"),
     [type |-> 7, sps |-> Malformed],
     Pps(0, 0, "A"), Pps(0, 0, "B"), Pps(0, 1, "A"), Pps(0, 9, "A"),
     [type |-> 8, ids |-> Malformed],
     Slice(NoId, FALSE, 0, 1, "p", Malformed),
     Slice(0, TRUE, 0, 0, "i", Malformed),
     Slice(0, FALSE, 0, 1, "p", Header(0, FALSE, 0, 2, "p"))}
=============================================================================
