--------------------------- MODULE H264StreamModel ---------------------------
(***************************************************************************)
(* Class H264StreamModel (src/core/h264_stream_model.cpp) with its         *)
(* ParameterSetRegistry (src/core/parameter_sets.cpp): NAL units, one at a *)
(* time, become parameter sets, access units and diagnostics.              *)
(*                                                                         *)
(* What the bits of a NAL unit mean depends on the parameter sets they are *)
(* read with.  A NAL unit is therefore a record of what each reading of it *)
(* gives, Malformed where the parser fails:                                *)
(*   [type |-> InvalidHeader]                                              *)
(*   [type |-> 7, sps]             sps = Malformed or [id, chroma, format] *)
(*   [type |-> 8, ids, read]       ids = Malformed or [pps_id, sps_id],    *)
(*                                 read[chroma] = Malformed or             *)
(*                                 [id, sps_id, format]                    *)
(*   [type |-> 1 or 5, pps_id, read]  pps_id NoId if the fields            *)
(*                                 before it are invalid,                  *)
(*                                 read[format of SPS, format of PPS] =    *)
(*                                 Malformed or a slice header             *)
(*   [type |-> any other]                                                  *)
(* where chroma is the chroma format, and the format of an SPS or a PPS    *)
(* stands for all in it that the layout of a slice header depends on.      *)
(***************************************************************************)
EXTENDS AccessUnits

CONSTANTS
    SpsIds, PpsIds,  \* 0..31 and 0..255 in the code
    NalUnits,        \* the NAL units that may be pushed
    MaxNalUnits      \* bound: NAL units in one stream

Malformed == [kind |-> "malformed"]

(* A PPS has a reading for every SPS, and a slice for every SPS with every *)
(* reading of a PPS; it is IDR if its type says so, and is of one of the   *)
(* slice types.                                                            *)
ASSUME StreamModelAssumption ==
    /\ MaxNalUnits \in Nat
    /\ \A nal \in NalUnits : nal.type \in {-1} \cup (0..31)
    /\ \A set \in {unit \in NalUnits : unit.type = 7 /\ unit.sps # Malformed} :
         \A picture \in {unit \in NalUnits : unit.type = 8 /\ unit.ids # Malformed} :
           set.sps.chroma \in DOMAIN picture.read
    /\ \A nal \in {unit \in NalUnits : IsSupportedVcl(unit.type)} :
         /\ \A formats \in DOMAIN nal.read :
              nal.read[formats] # Malformed =>
                /\ nal.read[formats].idr <=> nal.type = 5
                /\ nal.read[formats].slice_type \in SliceTypes
         /\ \A set \in {unit \in NalUnits : unit.type = 7 /\ unit.sps # Malformed} :
              \A picture \in {unit \in NalUnits : unit.type = 8 /\ unit.ids # Malformed} :
                \A chroma \in DOMAIN picture.read :
                  picture.read[chroma] # Malformed =>
                    <<set.sps.format, picture.read[chroma].format>> \in DOMAIN nal.read

(* The fields up to pic_parameter_set_id of a slice are invalid.           *)
NoId == -1

(* The header byte is missing or has the forbidden bit.                    *)
InvalidHeader == -1

(* The error codes of the readings.                                        *)
SyntaxInvalid == [code |-> "H264_SYNTAX_INVALID"]

NotFound == [code |-> "H264_PARAMETER_SET_NOT_FOUND"]

VARIABLES
    sps, pps,         \* parameter_sets_
    assembler,        \* access_unit_assembler_
    nal_units,        \* statistics_.nal_units
    slices,           \* statistics_.slices
    sequence_parameter_sets, picture_parameter_sets,  \* of statistics_
    access_units,     \* statistics_.access_units
    gop,              \* statistics_.gop
    diagnostics,      \* [nal_index, code]
    finished,         \* finished_
    pushed            \* history: the NAL units pushed so far

parameterVars == <<sps, pps, sequence_parameter_sets, picture_parameter_sets>>

vars == <<parameterVars, assembler, nal_units, slices, access_units, gop,
          diagnostics, finished, pushed>>

Init ==
    /\ sps = [id \in SpsIds |-> Nothing]
    /\ pps = [id \in PpsIds |-> Nothing]
    /\ assembler = NewAssembler
    /\ nal_units = 0
    /\ slices = 0
    /\ sequence_parameter_sets = <<>>
    /\ picture_parameter_sets = <<>>
    /\ access_units = <<>>
    /\ gop = NoGop
    /\ diagnostics = <<>>
    /\ finished = FALSE
    /\ pushed = <<>>

-----------------------------------------------------------------------------
(* ParameterSetRegistry                                                    *)

Store(registry, id, parameter_set) ==
    IF id \in DOMAIN registry THEN [registry EXCEPT ![id] = parameter_set]
    ELSE registry

Find(registry, id) == IF id \in DOMAIN registry THEN registry[id] ELSE Nothing

(* parse_pps after the lookup of its SPS: a code, or the PPS.              *)
ReadPps(nal, sps_registry) ==
    IF nal.ids = Malformed THEN SyntaxInvalid
    ELSE LET referenced == Find(sps_registry, nal.ids.sps_id)
         IN  IF referenced = Nothing THEN NotFound
             ELSE IF nal.read[referenced.chroma] = Malformed THEN SyntaxInvalid
             ELSE nal.read[referenced.chroma]

(* parse_slice_header: a code, or the slice header.                        *)
ReadSlice(nal, sps_registry, pps_registry) ==
    IF nal.pps_id = NoId THEN SyntaxInvalid
    ELSE LET picture == Find(pps_registry, nal.pps_id)
             sequence == IF picture = Nothing THEN Nothing
                         ELSE Find(sps_registry, picture.sps_id)
         IN  IF sequence = Nothing THEN NotFound
             ELSE IF nal.read[sequence.format, picture.format] = Malformed
                  THEN SyntaxInvalid
             ELSE nal.read[sequence.format, picture.format]

IsError(reading) == reading \in {SyntaxInvalid, NotFound}

-----------------------------------------------------------------------------
(* The actions: push, one action per kind of NAL unit, and finish.         *)

RecordError(error) ==
    diagnostics' = Append(diagnostics, [nal_index |-> nal_units, code |-> error.code])

Accept(step) ==
    /\ assembler' = step.assembler
    /\ access_units' = Collect(access_units, step.completed)

(* accept_non_vcl                                                          *)
AcceptNonVcl(nal) == Accept(PushOtherNal(assembler, nal_units, nal.type))

Begin(nal) ==
    /\ ~ finished
    /\ nal_units < MaxNalUnits
    /\ nal_units' = nal_units + 1
    /\ pushed' = Append(pushed, nal)
    /\ UNCHANGED <<gop, finished>>

PushInvalid(nal) ==
    /\ Begin(nal)
    /\ nal.type = InvalidHeader
    /\ RecordError(SyntaxInvalid)
    /\ UNCHANGED <<parameterVars, assembler, access_units, slices>>

PushSps(nal) ==
    /\ Begin(nal)
    /\ nal.type = 7
    /\ IF nal.sps = Malformed
       THEN /\ RecordError(SyntaxInvalid)
            /\ UNCHANGED <<sps, sequence_parameter_sets>>
       ELSE /\ sequence_parameter_sets' = Append(sequence_parameter_sets, nal.sps)
            /\ sps' = Store(sps, nal.sps.id, nal.sps)
            /\ UNCHANGED diagnostics
    /\ AcceptNonVcl(nal)
    /\ UNCHANGED <<pps, picture_parameter_sets, slices>>

PushPps(nal) ==
    LET reading == ReadPps(nal, sps)
    IN  /\ Begin(nal)
        /\ nal.type = 8
        /\ IF IsError(reading)
           THEN /\ RecordError(reading)
                /\ UNCHANGED <<pps, picture_parameter_sets>>
           ELSE /\ picture_parameter_sets' = Append(picture_parameter_sets, reading)
                /\ pps' = Store(pps, reading.id, reading)
                /\ UNCHANGED diagnostics
        /\ AcceptNonVcl(nal)
        /\ UNCHANGED <<sps, sequence_parameter_sets, slices>>

PushVcl(nal) ==
    LET reading == ReadSlice(nal, sps, pps)
    IN  /\ Begin(nal)
        /\ IsSupportedVcl(nal.type)
        /\ IF IsError(reading)
           THEN /\ RecordError(reading)
                /\ UNCHANGED <<assembler, access_units, slices>>
           ELSE /\ slices' = slices + 1
                /\ Accept(PushSlice(assembler, nal_units, reading))
                /\ UNCHANGED diagnostics
        /\ UNCHANGED parameterVars

PushOther(nal) ==
    /\ Begin(nal)
    /\ nal.type \notin {InvalidHeader, 1, 5, 7, 8}
    /\ AcceptNonVcl(nal)
    /\ UNCHANGED <<parameterVars, slices, diagnostics>>

Finish ==
    /\ ~ finished
    /\ finished' = TRUE
    /\ Accept(FinishAssembler(assembler))
    /\ gop' = AnalyzeGop(access_units')
    /\ UNCHANGED <<parameterVars, nal_units, slices, diagnostics, pushed>>

Push(nal) ==
    PushInvalid(nal) \/ PushSps(nal) \/ PushPps(nal) \/ PushVcl(nal) \/ PushOther(nal)

Next == Finish \/ \E nal \in NalUnits : Push(nal)

Spec == Init /\ [][Next]_vars

-----------------------------------------------------------------------------
(* Every access unit so far, the one being assembled last.                 *)
Pictures ==
    IF assembler.current = Nothing THEN access_units
    ELSE Append(access_units, assembler.current)

(* The NAL units of each access unit, and those that wait for the next.    *)
Places ==
    [place \in 1..(Len(Pictures) + 1) |->
       IF place <= Len(Pictures) THEN Pictures[place].nal_indices
       ELSE assembler.pending]

Diagnosed == {diagnostics[i].nal_index : i \in DOMAIN diagnostics}

Excluded == {index \in Diagnosed : pushed[index + 1].type \in {InvalidHeader, 1, 5}}

(* Every NAL unit has one place: it belongs to exactly one access unit, or *)
(* waits for the next picture, in the order of the stream; and the ones    *)
(* without a place are exactly the slices and headers that a diagnostic    *)
(* excluded.  A completed access unit never loses or gains a NAL unit, and *)
(* prefix NAL units are handed on to one picture only.                     *)
EveryNalHasOnePlace ==
    /\ \A g, h \in DOMAIN Places :
         \A i \in DOMAIN Places[g], j \in DOMAIN Places[h] :
           g < h \/ (g = h /\ i < j) => Places[g][i] < Places[h][j]
    /\ UNION {ToSet(Places[g]) : g \in DOMAIN Places} = (0..(nal_units - 1)) \ Excluded

(* An access unit is one primary coded picture: its slices are all IDR or  *)
(* all not, nothing that precedes a picture comes after its first slice,   *)
(* and it only ends where the next NAL unit of the stream starts another   *)
(* picture or precedes one.                                                *)
AccessUnitsArePictures ==
    \A i \in DOMAIN Pictures :
      LET unit == Pictures[i]
          next == Pictures[i + 1]
          Prefix(index) == StartsAccessUnitPrefix(pushed[index + 1].type)
          types == {pushed[index + 1].type : index \in ToSet(unit.vcl_nal_indices)}
      IN  /\ unit.index = i - 1
          /\ types = {IF unit.first_vcl.idr THEN 5 ELSE 1}
          /\ \A index \in ToSet(unit.nal_indices) :
               Prefix(index) => index < Head(unit.vcl_nal_indices)
          /\ i < Len(Pictures) =>
               \/ \E index \in (Last(unit.vcl_nal_indices) + 1)..Head(next.vcl_nal_indices) :
                    Prefix(index)
               \/ StartsNewPrimaryCodedPicture(unit.first_vcl, next.first_vcl)

(* The GOP statistics are true of the access units: every one is counted   *)
(* under its one kind, the list of IDR pictures has all of them in their   *)
(* order, the intervals are the distances from one to the next, and the    *)
(* leading access units are those before the first, or all.                *)
GopIsConsistent ==
    finished =>
      LET listed == gop.idr_access_unit_indices
          intervals == gop.idr_intervals
          Kind(i) == ClassifyAccessUnit(access_units[i])
      IN  /\ gop.access_unit_count = Len(access_units)
          /\ \A i \in DOMAIN access_units : Kind(i) \in AccessUnitKind
          /\ \A kind \in AccessUnitKind :
               gop.kinds[kind] = Cardinality({i \in DOMAIN access_units : Kind(i) = kind})
          /\ \A i, j \in DOMAIN listed : i < j => listed[i] < listed[j]
          /\ ToSet(listed) = {i - 1 : i \in {k \in DOMAIN access_units :
                                             access_units[k].first_vcl.idr}}
          /\ gop.leading_non_idr_access_units
               = IF listed = <<>> THEN Len(access_units) ELSE listed[1]
          /\ Len(intervals) = IF listed = <<>> THEN 0 ELSE Len(listed) - 1
          /\ \A j \in DOMAIN intervals : intervals[j] = listed[j + 1] - listed[j]
=============================================================================
