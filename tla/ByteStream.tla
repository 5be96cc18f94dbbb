----------------------------- MODULE ByteStream -----------------------------
(***************************************************************************)
(* From the bytes of an Annex-B file to NAL units and their RBSP:          *)
(* scan_annex_b (src/core/annex_b.cpp), ebsp_to_rbsp (src/core/rbsp.cpp)   *)
(* and rbsp_offset_to_ebsp_offset (src/application/inspect.cpp), checked   *)
(* against a muxer that writes NAL units one after the other.              *)
(*                                                                         *)
(* Offsets count from 0, as in the code: At(bytes, i) is bytes[i].         *)
(***************************************************************************)
EXTENDS Integers, Sequences, SequencesExt, FiniteSets, FiniteSetsExt

CONSTANTS
    Bytes,        \* values of a byte
    Headers,      \* NAL header bytes, none of them 0
    MaxBody,      \* bound: bytes of the RBSPs in the file
    MaxNals,      \* bound: NAL units in the file
    MaxZeros      \* bound: zero bytes after a NAL unit

ASSUME ByteStreamAssumption ==
    /\ Bytes \subseteq 0..255 /\ {0, 1, 3} \subseteq Bytes
    /\ Headers \subseteq 1..255
    /\ MaxBody \in Nat /\ MaxNals \in Nat /\ MaxZeros \in Nat

(* std::nullopt *)
None == -1

At(bytes, i) == bytes[i + 1]

Slice(bytes, begin, end) == SubSeq(bytes, begin + 1, end)

-----------------------------------------------------------------------------
(* scan_annex_b                                                            *)

ZerosThenOne(bytes, i, zeros) ==
    /\ i + zeros < Len(bytes)
    /\ \A j \in i..(i + zeros - 1) : At(bytes, j) = 0
    /\ At(bytes, i + zeros) = 1

(* find_start_code: its offset, or None.                                   *)
FindStartCode(bytes, begin) ==
    LET found == {i \in begin..(Len(bytes) - 3) :
                    ZerosThenOne(bytes, i, 2) \/ ZerosThenOne(bytes, i, 3)}
    IN  IF found = {} THEN None ELSE Min(found)

StartCodeSize(bytes, offset) == IF At(bytes, offset + 2) = 1 THEN 3 ELSE 4

(* Mutation: zero bytes before a start code belong to the NAL unit.        *)
PayloadEndWithZeros(bytes, begin, limit) == limit

PayloadEnd(bytes, begin, limit) ==
    Max({begin} \cup {end \in (begin + 1)..limit : At(bytes, end - 1) # 0})

(* One turn of the loop: the NAL unit after the start code at hand.        *)
ScanUnit(bytes, scan) ==
    LET payload_offset == scan.current + StartCodeSize(bytes, scan.current)
        next == FindStartCode(bytes, payload_offset)
        end == PayloadEnd(bytes, payload_offset,
                          IF next = None THEN Len(bytes) ELSE next)
        unit == [payload_offset |-> payload_offset,
                 payload_size |-> end - payload_offset]
    IN  IF end = payload_offset
        THEN [error |-> "empty_nal_unit", units |-> <<>>, current |-> None]
        ELSE [error |-> "none", units |-> Append(scan.units, unit), current |-> next]

(* The loop from the first start code on: it ends where there is no next   *)
(* one, at the latest when it has been around once for every byte.         *)
ScanFrom(bytes, first) ==
    LET scan[n \in 0..Len(bytes)] ==
          IF n = 0 THEN [error |-> "none", units |-> <<>>, current |-> first]
          ELSE LET before == scan[n - 1]
               IN  IF before.current = None THEN before ELSE ScanUnit(bytes, before)
        last == scan[Len(bytes)]
    IN  [error |-> last.error, units |-> last.units]

ScanAnnexB(bytes) ==
    LET first == FindStartCode(bytes, 0)
    IN  IF first = None THEN [error |-> "start_code_not_found", units |-> <<>>]
        ELSE IF \E i \in 0..(first - 1) : At(bytes, i) # 0
             THEN [error |-> "invalid_input", units |-> <<>>]
             ELSE ScanFrom(bytes, first)

-----------------------------------------------------------------------------
(* ebsp_to_rbsp: a run of two zeros is remembered, a prevention byte after *)
(* it is dropped when a byte of at most 3 follows.                         *)

(* Mutation: the prevention byte does not end the run of zeros.            *)
AfterByteKeepingRun(byte, zeros, dropped) ==
    IF dropped THEN zeros
    ELSE IF byte = 0 THEN Min({zeros + 1, 2}) ELSE 0

AfterByte(byte, zeros, dropped) ==
    IF ~ dropped /\ byte = 0 THEN Min({zeros + 1, 2}) ELSE 0

Drops(ebsp, i, zeros) ==
    /\ At(ebsp, i) = 3 /\ zeros = 2
    /\ i + 1 < Len(ebsp) /\ At(ebsp, i + 1) <= 3

(* The offsets of the prevention bytes.                                    *)
Prevention(ebsp) ==
    LET run[i \in 0..Len(ebsp)] ==
          IF i = 0 THEN 0
          ELSE AfterByte(At(ebsp, i - 1), run[i - 1], Drops(ebsp, i - 1, run[i - 1]))
    IN  {i \in 0..(Len(ebsp) - 1) : Drops(ebsp, i, run[i])}

EbspToRbsp(ebsp) ==
    LET dropped == Prevention(ebsp)
        rbsp[n \in 0..Len(ebsp)] ==
          IF n = 0 THEN <<>>
          ELSE IF n - 1 \in dropped THEN rbsp[n - 1]
               ELSE Append(rbsp[n - 1], At(ebsp, n - 1))
    IN  rbsp[Len(ebsp)]

(* rbsp_offset_to_ebsp_offset: where in the file an error in the RBSP is.  *)
(* It has a loop of its own over the same bytes, which counts what is kept.*)
Skips(ebsp, index, zeros) ==
    /\ At(ebsp, index) = 3 /\ zeros = 2
    /\ index + 1 < Len(ebsp) /\ At(ebsp, index + 1) <= 3

ZerosAfter(value, zeros) ==
    IF value # 0 THEN 0 ELSE IF zeros < 2 THEN zeros + 1 ELSE zeros

(* Mutation: the skipped byte does not end the run of zeros.               *)
PassByteKeepingRun(ebsp, index, before) ==
    IF Skips(ebsp, index, before.zeros) THEN before
    ELSE [rbsp_index |-> before.rbsp_index + 1,
          zeros |-> ZerosAfter(At(ebsp, index), before.zeros)]

PassByte(ebsp, index, before) ==
    IF Skips(ebsp, index, before.zeros) THEN [before EXCEPT !.zeros = 0]
    ELSE [rbsp_index |-> before.rbsp_index + 1,
          zeros |-> ZerosAfter(At(ebsp, index), before.zeros)]

RbspOffsetToEbspOffset(ebsp, rbsp_offset) ==
    LET loop[index \in 0..Len(ebsp)] ==
          IF index = 0 THEN [rbsp_index |-> 0, zeros |-> 0]
          ELSE PassByte(ebsp, index - 1, loop[index - 1])
        found == {index \in 0..(Len(ebsp) - 1) :
                    /\ ~ Skips(ebsp, index, loop[index].zeros)
                    /\ loop[index].rbsp_index = rbsp_offset}
    IN  IF found = {} THEN Len(ebsp) ELSE Min(found)

-----------------------------------------------------------------------------
(* The muxer, as H.264 Annex B and 7.4.1 have it.                          *)

VARIABLES
    file,     \* the bytes written so far
    written   \* the NAL units in them: where they are, and their RBSP

byteStreamVars == <<file, written>>

(* A byte of at most 3 after two zeros is preceded by a prevention byte.   *)
WriteByte(out, byte) ==
    IF byte <= 3 /\ Len(out) >= 2 /\ out[Len(out)] = 0 /\ out[Len(out) - 1] = 0
    THEN out \o <<3, byte>> ELSE Append(out, byte)

Protect(rbsp) ==
    LET out[n \in 0..Len(rbsp)] ==
          IF n = 0 THEN <<>> ELSE WriteByte(out[n - 1], rbsp[n])
    IN  out[Len(rbsp)]

Zeros(n) == [i \in 1..n |-> 0]

(* An RBSP ends with its stop bit, never with a zero byte.                 *)
Rbsps == {rbsp \in UNION {[1..n -> Bytes] : n \in 0..MaxBody} :
            rbsp = <<>> \/ Last(rbsp) # 0}

(* Bytes of the RBSPs written so far.                                      *)
Body == FoldLeft(LAMBDA size, unit : size + Len(unit.rbsp), 0, written)

ByteStreamInit ==
    /\ file = <<>>
    /\ written = <<>>

WriteNal(header, rbsp, before, after) ==
    LET start_code == Zeros(before) \o <<1>>
        nal == <<header>> \o Protect(rbsp)
    IN  /\ file' = file \o start_code \o nal \o Zeros(after)
        /\ written' = Append(written,
             [payload_offset |-> Len(file) + Len(start_code),
              payload_size |-> Len(nal), rbsp |-> rbsp])

ByteStreamNext ==
    /\ Len(written) < MaxNals
    /\ \E header \in Headers, rbsp \in Rbsps, before \in {2, 3}, after \in 0..MaxZeros :
         /\ Body + Len(rbsp) <= MaxBody
         /\ WriteNal(header, rbsp, before, after)

-----------------------------------------------------------------------------
Unit(i) == written[i]

Ebsp(i) == Slice(file, Unit(i).payload_offset + 1,
                 Unit(i).payload_offset + Unit(i).payload_size)

(* Every NAL unit that was written is found at its place, with its size,   *)
(* and nothing else is: no start code appears within a protected payload   *)
(* or across the zero bytes around it, and framing zeros are no payload.   *)
ScanFindsNals ==
    written # <<>> =>
      ScanAnnexB(file) =
        [error |-> "none",
         units |-> [i \in DOMAIN written |->
                      [payload_offset |-> Unit(i).payload_offset,
                       payload_size |-> Unit(i).payload_size]]]

(* Removing the prevention bytes gives back the RBSP, also when it holds   *)
(* sequences that look like protected ones.                                *)
RbspIsRecovered == \A i \in DOMAIN written : EbspToRbsp(Ebsp(i)) = Unit(i).rbsp

(* The position inspect reports for an error at an RBSP byte is the byte   *)
(* in the file that became this RBSP byte, never a prevention byte, and    *)
(* positions keep their order.                                             *)
ErrorsPointAtSource ==
    \A i \in DOMAIN written :
      LET ebsp == Ebsp(i)
          rbsp == Unit(i).rbsp
          source == [k \in 0..Len(rbsp) |-> RbspOffsetToEbspOffset(ebsp, k)]
      IN  /\ \A k \in 0..(Len(rbsp) - 1) :
               At(ebsp, source[k]) = At(rbsp, k) /\ source[k] \notin Prevention(ebsp)
          /\ \A k \in 1..Len(rbsp) : source[k - 1] < source[k]
          /\ source[Len(rbsp)] = Len(ebsp)
=============================================================================
