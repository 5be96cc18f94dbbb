----------------------------- MODULE BitReader -----------------------------
(***************************************************************************)
(* Class BitReader (src/core/bit_reader.cpp): fixed-length and Exp-Golomb  *)
(* syntax elements of at most Width bits from a bounded run of bits.       *)
(* The bytes are the bits of all of them, most significant first.          *)
(***************************************************************************)
EXTENDS Integers, Sequences

CONSTANTS
    Width,     \* maximum_read_bits and the result types, 32 in the code
    MaxBits,   \* bound: bits in the RBSP
    MaxReads   \* bound: syntax elements read

ASSUME BitReaderAssumption ==
    Width \in Nat \ {0} /\ MaxBits \in Nat /\ MaxReads \in Nat

Bit == {0, 1}

VARIABLES
    bits,          \* bytes_
    bit_position,  \* bit_position_
    last           \* the last read: what was asked for, where, and the result

bitReaderVars == <<bits, bit_position, last>>

Result(value, position) == [error |-> "none", value |-> value, position |-> position]

Failure(error, position) == [error |-> error, value |-> 0, position |-> position]

Rbsp == UNION {[1..n -> Bit] : n \in 0..MaxBits}

(* The constructor.                                                        *)
BitReaderInit(bytes) ==
    /\ bits = bytes
    /\ bit_position = 0
    /\ last = [read |-> "none", count |-> 0, from |-> 0, reads |-> 0,
               result |-> Result(0, 0)]

(* The powers of two that codes of Width bits need: a 1 that is shifted to *)
(* the left.                                                               *)
TwoTo[n \in 0..(Width + 2)] == IF n = 0 THEN 1 ELSE 2 * TwoTo[n - 1]

BitsRemaining(bytes, position) == Len(bytes) - position

(* The value of the next count bits, as written.                           *)
BitValue(bytes, position, count) ==
    LET value[n \in 0..BitsRemaining(bytes, position)] ==
          IF n = 0 THEN 0 ELSE 2 * value[n - 1] + bytes[position + n]
    IN  value[count]

(* read_bits: a failure leaves the position where it was.                  *)
ReadBits(bytes, count, position) ==
    IF count > Width THEN Failure("invalid_bit_count", position)
    ELSE IF count > BitsRemaining(bytes, position)
    THEN Failure("unexpected_end_of_data", position)
    ELSE Result(BitValue(bytes, position, count), position + count)

(* The zero bits from a position on.                                       *)
LeadingZeros(bytes, position) ==
    CHOOSE n \in 0..BitsRemaining(bytes, position) :
      /\ \A i \in (position + 1)..(position + n) : bytes[i] = 0
      /\ n < BitsRemaining(bytes, position) => bytes[position + n + 1] = 1

(* read_exp_golomb_code_num: bit by bit up to the first 1, but no more     *)
(* than Width zeros, and then as many bits as there were zeros.            *)
ReadExpGolombCodeNum(bytes, position) ==
    LET zeros == LeadingZeros(bytes, position)
        suffix == ReadBits(bytes, zeros, position + zeros + 1)
    IN  IF zeros > Width THEN Failure("exp_golomb_overflow", position + Width + 1)
        ELSE IF zeros = BitsRemaining(bytes, position)
        THEN Failure("unexpected_end_of_data", position + zeros)
        ELSE IF suffix.error # "none" THEN suffix
        ELSE Result(TwoTo[zeros] - 1 + suffix.value, suffix.position)

(* read_ue *)
ReadUe(bytes, position) ==
    LET code_num == ReadExpGolombCodeNum(bytes, position)
    IN  IF code_num.error = "none" /\ code_num.value > TwoTo[Width] - 1
        THEN Failure("exp_golomb_overflow", code_num.position)
        ELSE code_num

(* Mutation: the least value is taken for too big.                         *)
ReadSeSymmetric(bytes, position) ==
    LET code_num == ReadExpGolombCodeNum(bytes, position)
        odd == code_num.value % 2 = 1
        magnitude == (code_num.value + 1) \div 2
    IN  IF code_num.error # "none" THEN code_num
        ELSE IF magnitude > TwoTo[Width - 1] - 1
        THEN Failure("exp_golomb_overflow", code_num.position)
        ELSE Result(IF odd THEN magnitude ELSE -magnitude, code_num.position)

(* read_se: odd code numbers are positive, even ones are not.              *)
ReadSe(bytes, position) ==
    LET code_num == ReadExpGolombCodeNum(bytes, position)
        odd == code_num.value % 2 = 1
        magnitude == (code_num.value + 1) \div 2
    IN  IF code_num.error # "none" THEN code_num
        ELSE IF magnitude > (IF odd THEN TwoTo[Width - 1] - 1 ELSE TwoTo[Width - 1])
        THEN Failure("exp_golomb_overflow", code_num.position)
        ELSE Result(IF odd THEN magnitude ELSE -magnitude, code_num.position)

Read(read, count, result) ==
    /\ last.reads < MaxReads
    /\ bit_position' = result.position
    /\ last' = [read |-> read, count |-> count, from |-> bit_position,
                reads |-> last.reads + 1, result |-> result]
    /\ UNCHANGED bits

BitReaderNext ==
    \/ \E count \in 0..(Width + 1) : Read("bits", count, ReadBits(bits, count, bit_position))
    \/ Read("ue", 0, ReadUe(bits, bit_position))
    \/ Read("se", 0, ReadSe(bits, bit_position))

-----------------------------------------------------------------------------
(* The writers of ue(v) and se(v), as H.264 9.1 defines them: the code of  *)
(* value k is that of k + 1 in binary, behind as many zeros as it has bits *)
(* after the first.                                                        *)
Binary(k, n) == [i \in 1..n |-> (k \div TwoTo[n - i]) % 2]

LengthOf(k) == CHOOSE n \in 1..(Width + 2) : TwoTo[n - 1] <= k /\ k < TwoTo[n]

UeCode(value) ==
    LET n == LengthOf(value + 1)
    IN  [i \in 1..(n - 1) |-> 0] \o Binary(value + 1, n)

SeCode(value) == UeCode(IF value > 0 THEN 2 * value - 1 ELSE -2 * value)

(* The values the result types can hold.                                   *)
UeValues == 0..(TwoTo[Width] - 1)

SeValues == (-TwoTo[Width - 1])..(TwoTo[Width - 1] - 1)

Rest == SubSeq(bits, last.from + 1, Len(bits))

StartsWith(code) == Len(code) <= Len(Rest) /\ SubSeq(Rest, 1, Len(code)) = code

(* A syntax element is read with the value v exactly when the bits begin   *)
(* with the code of v, and then exactly these bits are consumed; all other *)
(* bits are an error, in particular the codes of the values just beyond    *)
(* the result type, and the least se(v) is not one of them.  The reader    *)
(* never goes back and never leaves the data, whatever failed before.      *)
ReadsWhatWasWritten ==
    LET Decodes(values, Code(_)) ==
          LET result == last.result
          IN  /\ \A v \in values :
                   StartsWith(Code(v)) =>
                     /\ result.error = "none" /\ result.value = v
                     /\ bit_position = last.from + Len(Code(v))
              /\ result.error = "none" =>
                   result.value \in values /\ StartsWith(Code(result.value))
    IN  /\ last.read = "ue" => Decodes(UeValues, UeCode)
        /\ last.read = "se" => Decodes(SeValues, SeCode)
        /\ last.read = "bits" /\ last.result.error = "none" =>
             SubSeq(Rest, 1, last.count) = Binary(last.result.value, last.count)
        /\ bit_position \in last.from..Len(bits)
=============================================================================
