----------------------------- MODULE AccessUnits -----------------------------
(***************************************************************************)
(* Class AccessUnitAssembler (src/core/access_unit.cpp) as a transition    *)
(* function, and analyze_gop (src/core/gop.cpp).                           *)
(*                                                                         *)
(* A slice header is a record [pic_parameter_set_id, frame_num,            *)
(* nal_ref_idc, pic_order_cnt, field, idr, idr_pic_id, slice_type]:        *)
(* pic_order_cnt stands for pic_order_cnt_lsb and the three deltas,        *)
(* compared together; field for field_pic_flag and, in a field,            *)
(* bottom_field_flag ("frame", "top", "bottom").                           *)
(***************************************************************************)
EXTENDS Integers, Sequences, SequencesExt, FiniteSets, FiniteSetsExt

(* std::nullopt                                                            *)
Nothing == [kind |-> "nothing"]

SliceTypes == {"p", "b", "i", "sp", "si"}

AccessUnitKind == SliceTypes \cup {"mixed"}

IsSupportedVcl(nal_unit_type) == nal_unit_type \in {1, 5}

StartsAccessUnitPrefix(nal_unit_type) == nal_unit_type \in {6, 7, 8, 9} \cup (14..18)

(* Mutation: the picture order count is not compared.                      *)
StartsPictureWithoutOrder(first_vcl, candidate) ==
    \/ first_vcl.frame_num # candidate.frame_num
    \/ first_vcl.pic_parameter_set_id # candidate.pic_parameter_set_id
    \/ first_vcl.field # candidate.field
    \/ (first_vcl.nal_ref_idc # 0) # (candidate.nal_ref_idc # 0)
    \/ first_vcl.idr # candidate.idr
    \/ first_vcl.idr /\ candidate.idr /\ first_vcl.idr_pic_id # candidate.idr_pic_id

StartsNewPrimaryCodedPicture(first_vcl, candidate) ==
    \/ first_vcl.frame_num # candidate.frame_num
    \/ first_vcl.pic_parameter_set_id # candidate.pic_parameter_set_id
    \/ first_vcl.field # candidate.field
    \/ (first_vcl.nal_ref_idc # 0) # (candidate.nal_ref_idc # 0)
    \/ first_vcl.pic_order_cnt # candidate.pic_order_cnt
    \/ first_vcl.idr # candidate.idr
    \/ first_vcl.idr /\ candidate.idr /\ first_vcl.idr_pic_id # candidate.idr_pic_id

-----------------------------------------------------------------------------
(* AccessUnitAssembler: [next_index, pending, current], where pending are  *)
(* the prefix NAL units kept for the next picture.  Each operation returns *)
(* the new state and the access unit it completed, or Nothing.             *)

NewAssembler == [next_index |-> 0, pending |-> <<>>, current |-> Nothing]

Assembled(assembler, completed) ==
    [assembler |-> assembler, completed |-> completed]

(* Mutation: the next picture takes the prefix NAL units but leaves them   *)
(* for the picture after it, too.                                          *)
BeginPictureKeepingPrefix(assembler, nal_index, slice) ==
    [next_index |-> assembler.next_index + 1,
     pending |-> assembler.pending,
     current |-> [kind |-> "access_unit",
                  index |-> assembler.next_index,
                  nal_indices |-> Append(assembler.pending, nal_index),
                  vcl_nal_indices |-> <<nal_index>>,
                  slice_types_present |-> {slice.slice_type},
                  first_vcl |-> slice]]

(* begin_picture                                                           *)
BeginPicture(assembler, nal_index, slice) ==
    [next_index |-> assembler.next_index + 1,
     pending |-> <<>>,
     current |-> [kind |-> "access_unit",
                  index |-> assembler.next_index,
                  nal_indices |-> Append(assembler.pending, nal_index),
                  vcl_nal_indices |-> <<nal_index>>,
                  slice_types_present |-> {slice.slice_type},
                  first_vcl |-> slice]]

AddSlice(assembler, nal_index, slice) ==
    [assembler EXCEPT
       !.current.nal_indices = Append(@, nal_index),
       !.current.vcl_nal_indices = Append(@, nal_index),
       !.current.slice_types_present = @ \cup {slice.slice_type}]

(* Mutation: a prefix NAL unit does not end the access unit.               *)
PushOtherNalIntoCurrent(assembler, nal_index, nal_unit_type) ==
    IF assembler.current # Nothing
    THEN Assembled([assembler EXCEPT !.current.nal_indices = Append(@, nal_index)],
                   Nothing)
    ELSE Assembled([assembler EXCEPT !.pending = Append(@, nal_index)], Nothing)

(* push of a NAL unit without a slice header                               *)
PushOtherNal(assembler, nal_index, nal_unit_type) ==
    IF StartsAccessUnitPrefix(nal_unit_type)
    THEN Assembled([assembler EXCEPT !.pending = Append(@, nal_index),
                                     !.current = Nothing],
                   assembler.current)
    ELSE IF assembler.current # Nothing
    THEN Assembled([assembler EXCEPT !.current.nal_indices = Append(@, nal_index)],
                   Nothing)
    ELSE Assembled([assembler EXCEPT !.pending = Append(@, nal_index)], Nothing)

(* push of a slice                                                         *)
PushSlice(assembler, nal_index, slice) ==
    IF assembler.current = Nothing
    THEN Assembled(BeginPicture(assembler, nal_index, slice), Nothing)
    ELSE IF StartsNewPrimaryCodedPicture(assembler.current.first_vcl, slice)
    THEN Assembled(BeginPicture(assembler, nal_index, slice), assembler.current)
    ELSE Assembled(AddSlice(assembler, nal_index, slice), Nothing)

(* finish                                                                  *)
FinishAssembler(assembler) ==
    Assembled([assembler EXCEPT !.current = Nothing], assembler.current)

(* What the callers do with a completed access unit.                       *)
Collect(access_units, completed) ==
    IF completed = Nothing THEN access_units ELSE Append(access_units, completed)

-----------------------------------------------------------------------------
(* gop.cpp                                                                 *)

ClassifyAccessUnit(access_unit) ==
    IF Cardinality(access_unit.slice_types_present) = 1
    THEN CHOOSE type \in access_unit.slice_types_present : TRUE
    ELSE "mixed"

NoGop == [access_unit_count |-> 0,
          kinds |-> [kind \in AccessUnitKind |-> 0],
          idr_access_unit_indices |-> <<>>,
          idr_intervals |-> <<>>,
          leading_non_idr_access_units |-> 0]

(* Mutation: intervals are counted between neighbours of the IDR pictures. *)
CountAccessUnitExclusive(loop, access_unit) ==
    LET gop == [loop.gop EXCEPT
                  !.access_unit_count = @ + 1,
                  !.kinds[ClassifyAccessUnit(access_unit)] = @ + 1]
        position == loop.gop.access_unit_count
    IN  IF ~ access_unit.first_vcl.idr THEN [loop EXCEPT !.gop = gop]
        ELSE [previous |-> position,
              gop |-> [gop EXCEPT
                !.idr_access_unit_indices = Append(@, access_unit.index),
                !.leading_non_idr_access_units =
                   IF loop.previous = -1 THEN position ELSE @,
                !.idr_intervals =
                   IF loop.previous = -1 THEN @ ELSE Append(@, position - loop.previous - 1)]]

(* One turn of the loop; previous is the position of the last IDR access   *)
(* unit, counted from 0, or -1.                                            *)
CountAccessUnit(loop, access_unit) ==
    LET gop == [loop.gop EXCEPT
                  !.access_unit_count = @ + 1,
                  !.kinds[ClassifyAccessUnit(access_unit)] = @ + 1]
        position == loop.gop.access_unit_count
    IN  IF ~ access_unit.first_vcl.idr THEN [loop EXCEPT !.gop = gop]
        ELSE [previous |-> position,
              gop |-> [gop EXCEPT
                !.idr_access_unit_indices = Append(@, access_unit.index),
                !.leading_non_idr_access_units =
                   IF loop.previous = -1 THEN position ELSE @,
                !.idr_intervals =
                   IF loop.previous = -1 THEN @ ELSE Append(@, position - loop.previous)]]

(* analyze_gop; minimum, maximum and average are those of idr_intervals.   *)
AnalyzeGop(access_units) ==
    LET loop[turns \in 0..Len(access_units)] ==
          IF turns = 0 THEN [gop |-> NoGop, previous |-> -1]
          ELSE CountAccessUnit(loop[turns - 1], access_units[turns])
        last == loop[Len(access_units)]
    IN  IF last.previous = -1
        THEN [last.gop EXCEPT !.leading_non_idr_access_units = Len(access_units)]
        ELSE last.gop
=============================================================================
