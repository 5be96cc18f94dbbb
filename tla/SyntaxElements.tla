--------------------------- MODULE SyntaxElements ---------------------------
(***************************************************************************)
(* How the parsers of src/core/h264_syntax.cpp and src/core/slice.cpp use  *)
(* their BitReader.  An RBSP is the sequence of the syntax elements that   *)
(* were written into it, each with its code.  BitReader shows that an      *)
(* element asked for by its own code has the value that was written; asked *)
(* for by another code, or in another width, the bits mean something else, *)
(* and the parse is "desynchronized".                                      *)
(*                                                                         *)
(* A parse is what a parser has reached: its position, the error it will   *)
(* return, and the fields it has read, in this order.  Flags are 0 or 1.   *)
(***************************************************************************)
EXTENDS Integers, SequencesExt, FiniteSets

CONSTANTS
    ValueWidth   \* bits of the results of read_ue and read_se, 32 in the code

ASSUME ValueWidthAssumption == ValueWidth \in 16..24

MaxUe == 2^ValueWidth - 1

MinSe == -(2^(ValueWidth - 1))

MaxSe == 2^(ValueWidth - 1) - 1

-----------------------------------------------------------------------------
(* The writer's side.                                                      *)

U(field, size, value) ==
    [field |-> field, code |-> "u", size |-> size, value |-> value]

Flag(field, value) == U(field, 1, value)

Ue(field, value) == [field |-> field, code |-> "ue", size |-> 0, value |-> value]

Se(field, value) == [field |-> field, code |-> "se", size |-> 0, value |-> value]

(* The fields of the record h, each in the same code.                      *)
FlagsOf(h, fields) == [i \in DOMAIN fields |-> Flag(fields[i], h[fields[i]])]

UesOf(h, fields) == [i \in DOMAIN fields |-> Ue(fields[i], h[fields[i]])]

SesOf(h, fields) == [i \in DOMAIN fields |-> Se(fields[i], h[fields[i]])]

Optional(condition, elements) == IF condition THEN elements ELSE <<>>

(* The elements of n items, one after the other.                           *)
Repeated(n, Elements(_)) == FlattenSeq([i \in 1..n |-> Elements(i)])

Written(elements) ==
    [i \in DOMAIN elements |-> [field |-> elements[i].field, value |-> elements[i].value]]

(* The reference for a parser's result: the RBSP is accepted exactly when  *)
(* it is legal, and then the fields read are the fields written.           *)
Recovered(parse, elements, legal) ==
    /\ parse.error # "desynchronized"
    /\ parse.error = "none" <=> legal
    /\ legal => parse.read = Written(elements)

-----------------------------------------------------------------------------
(* The parsers' side: what is asked for, and which values are let through. *)

Ask(field, code, size, low, high) ==
    [field |-> field, code |-> code, size |-> size, low |-> low, high |-> high]

AskBits(field, size, high) == Ask(field, "u", size, 0, high)

AskFlag(field) == AskBits(field, 1, 1)

AskUe(field, high) == Ask(field, "ue", 0, 0, high)

AskSe(field, low, high) == Ask(field, "se", 0, low, high)

StartParse(rbsp) == [rbsp |-> rbsp, position |-> 0, error |-> "none", read |-> <<>>]

Ok(parse) == parse.error = "none"

Fail(parse, error) == [parse EXCEPT !.error = error]

Has(parse, field) == \E i \in DOMAIN parse.read : parse.read[i].field = field

(* The value a field was given last.                                       *)
Value(parse, field) ==
    parse.read[Max({i \in DOMAIN parse.read : parse.read[i].field = field})].value

ValueOr(parse, field, default) ==
    IF Has(parse, field) THEN Value(parse, field) ELSE default

IsSet(parse, field) == ValueOr(parse, field, 0) = 1

(* One call of the reader, its error handling and its range check.         *)
ReadElement(parse, ask) ==
    LET element == parse.rbsp[parse.position + 1]
    IN  IF ~ Ok(parse) THEN parse
        ELSE IF parse.position = Len(parse.rbsp)
        THEN Fail(parse, "unexpected_end_of_data")
        ELSE IF element.code # ask.code \/ element.size # ask.size
        THEN Fail(parse, "desynchronized")
        ELSE IF element.value \notin ask.low..ask.high
        THEN [parse EXCEPT !.position = @ + 1, !.error = "invalid"]
        ELSE [parse EXCEPT !.position = @ + 1,
                           !.read = Append(@, [field |-> ask.field,
                                               value |-> element.value])]

ReadElements(parse, asks) ==
    LET read[i \in 0..Len(asks)] == IF i = 0 THEN parse ELSE ReadElement(read[i - 1], asks[i])
    IN  read[Len(asks)]

ReadWhen(parse, condition, asks) ==
    IF Ok(parse) /\ condition THEN ReadElements(parse, asks) ELSE parse

Require(parse, condition) ==
    IF Ok(parse) /\ ~ condition THEN Fail(parse, "invalid") ELSE parse

(* for (index = 1; index <= n; ++index), left at the first error           *)
ReadTimes(parse, n, Round(_, _)) ==
    LET After(p, i) == IF Ok(p) THEN Round(p, i) ELSE p
        rounds[i \in 0..n] == IF i = 0 THEN parse ELSE After(rounds[i - 1], i)
    IN  rounds[n]
=============================================================================
