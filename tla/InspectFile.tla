----------------------------- MODULE InspectFile -----------------------------
(***************************************************************************)
(* inspect_file (src/application/inspect.cpp): the same analysis for a     *)
(* whole Annex-B file, in passes over its NAL units: headers, all SPS, all *)
(* PPS, all slices, access units.  The first error ends it.  The module is *)
(* the function from the NAL units of the file to the result, and its      *)
(* comparison with H264StreamModel, which takes them one at a time.        *)
(***************************************************************************)
EXTENDS H264StreamModel

Indices(nals, types) == {i \in DOMAIN nals : nals[i].type \in types}

(* find_sps_context: the last SPS with the id before position p, or, when  *)
(* there is none, the first one after it.                                  *)
FindSpsContext(nals, p, id) ==
    LET events == {i \in Indices(nals, {7}) : nals[i].sps.id = id}
        preceding == {i \in events : i <= p}
    IN  IF events = {} THEN Nothing
        ELSE IF preceding # {} THEN nals[Max(preceding)].sps
        ELSE nals[Min(events)].sps

(* What the PPS pass makes of the NAL unit at p: a code, or the PPS.       *)
InspectPps(nals, p) ==
    IF nals[p].ids = Malformed THEN SyntaxInvalid
    ELSE LET context == FindSpsContext(nals, p, nals[p].ids.sps_id)
         IN  IF context = Nothing THEN NotFound
             ELSE IF nals[p].read[context.chroma] = Malformed THEN SyntaxInvalid
             ELSE nals[p].read[context.chroma]

(* The parameter sets active before position p, replayed in order.         *)
ActiveSps(nals, p) ==
    [id \in SpsIds |->
       LET events == {i \in Indices(nals, {7}) : i < p /\ nals[i].sps.id = id}
       IN  IF events = {} THEN Nothing ELSE nals[Max(events)].sps]

ActivePps(nals, p) ==
    [id \in PpsIds |->
       LET events == {i \in Indices(nals, {8}) : i < p /\ InspectPps(nals, i).id = id}
       IN  IF events = {} THEN Nothing ELSE InspectPps(nals, Max(events))]

(* Mutation: slices are read with the definitions at the end of the file.  *)
InspectSliceAtEnd(nals, p) ==
    ReadSlice(nals[p], ActiveSps(nals, Len(nals) + 1), ActivePps(nals, Len(nals) + 1))

InspectSlice(nals, p) == ReadSlice(nals[p], ActiveSps(nals, p), ActivePps(nals, p))

(* The passes: the positions at which each one fails.                      *)
HeaderErrors(nals) == Indices(nals, {InvalidHeader})

SpsErrors(nals) == {i \in Indices(nals, {7}) : nals[i].sps = Malformed}

PpsErrors(nals) == {i \in Indices(nals, {8}) : IsError(InspectPps(nals, i))}

SliceErrors(nals) == {i \in Indices(nals, {1, 5}) : IsError(InspectSlice(nals, i))}

(* The position of the error inspect_file returns, 0 when there is none.   *)
InspectError(nals) ==
    IF HeaderErrors(nals) # {} THEN Min(HeaderErrors(nals))
    ELSE IF SpsErrors(nals) # {} THEN Min(SpsErrors(nals))
    ELSE IF PpsErrors(nals) # {} THEN Min(PpsErrors(nals))
    ELSE IF SliceErrors(nals) # {} THEN Min(SliceErrors(nals))
    ELSE 0

(* The access-unit pass.                                                   *)
AssembleNext(nals, result, p) ==
    LET step == IF IsSupportedVcl(nals[p].type)
                THEN PushSlice(result.assembler, p - 1, InspectSlice(nals, p))
                ELSE PushOtherNal(result.assembler, p - 1, nals[p].type)
    IN  [assembler |-> step.assembler,
         access_units |-> Collect(result.access_units, step.completed)]

InspectAccessUnits(nals) ==
    LET pass[p \in 0..Len(nals)] ==
          IF p = 0 THEN [assembler |-> NewAssembler, access_units |-> <<>>]
          ELSE AssembleNext(nals, pass[p - 1], p)
        all == pass[Len(nals)]
    IN  Collect(all.access_units, FinishAssembler(all.assembler).completed)

-----------------------------------------------------------------------------
(* The two ways into the analysis agree (docs/roadmap.md:146): a stream    *)
(* without diagnostics is also a file that inspect accepts, with the same  *)
(* access units, GOP, and parameter sets; and when inspect gives up at a   *)
(* NAL unit, the stream model has a diagnostic there or before it (before  *)
(* it when inspect read a PPS that the stream model had to drop).          *)
CleanStreamsAgree ==
    finished =>
      LET error == InspectError(pushed)
      IN  IF error # 0 THEN \E index \in Diagnosed : index <= error - 1
          ELSE diagnostics = <<>> =>
                 /\ access_units = InspectAccessUnits(pushed)
                 /\ gop = AnalyzeGop(InspectAccessUnits(pushed))
                 /\ slices = Cardinality(Indices(pushed, {1, 5}))
                 /\ sps = ActiveSps(pushed, Len(pushed) + 1)
                 /\ pps = ActivePps(pushed, Len(pushed) + 1)

(* The other direction: what inspect accepts gives no diagnostics when it  *)
(* comes as a stream.  Not so: inspect reads a PPS with an SPS that only   *)
(* follows it, the stream model drops it and every slice that needs it.    *)
InspectedFilesStreamCleanly ==
    finished /\ InspectError(pushed) = 0 => diagnostics = <<>>
=============================================================================
