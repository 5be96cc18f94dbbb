---------------------------- MODULE RtpReception ----------------------------
(***************************************************************************)
(* What RtpStreamAnalyzer promises, without its data structures: every RTP *)
(* packet of the analyzed stream has an unbounded ("extended") sequence    *)
(* number, the analyzer remembers every number it has received, and its    *)
(* report counts what is missing, repeated and late.  There is no modulus, *)
(* no 16-bit number and no table of 65536 slots here: those are the        *)
(* implementation, module RtpStreamAnalyzer.                               *)
(***************************************************************************)
EXTENDS Integers, FiniteSets

CONSTANT HalfWindow  \* how far from the highest number a packet may be

VARIABLES
    base,        \* number of the first packet of the stream, None before it
    highest,     \* the highest number so far, None before the first packet
    received,    \* every number in base..highest that has arrived
    lost,        \* the reported number of lost packets
    duplicates,  \* the reported number of duplicates
    late         \* the reported number of packets out of order

vars == <<base, highest, received, lost, duplicates, late>>

None == -1

(* The numbers the stream must have used and that have not arrived. *)
Missing == (base..highest) \ received

Init ==
    /\ base = None
    /\ highest = None
    /\ received = {}
    /\ lost = 0
    /\ duplicates = 0
    /\ late = 0

First ==
    /\ highest = None
    /\ highest' \in Nat
    /\ base' = highest'
    /\ received' = {highest'}
    /\ UNCHANGED <<lost, duplicates, late>>

(* A packet ahead of all others; whatever it skips becomes missing. *)
Advance ==
    /\ highest # None
    /\ highest' \in (highest + 1)..(highest + HalfWindow - 1)
    /\ received' = received \cup {highest'}
    /\ lost' = Cardinality(Missing')
    /\ UNCHANGED <<base, duplicates, late>>

(* A number that has been received before. *)
Repeat ==
    /\ \E number \in received : highest - number \in 0..HalfWindow
    /\ duplicates' = duplicates + 1
    /\ UNCHANGED <<base, highest, received, lost, late>>

(* A missing number, or one from before the first packet of the analysis.  *)
(* The former is no longer missing, the latter was never expected.         *)
Late ==
    /\ highest # None
    /\ \E number \in (highest - HalfWindow)..(highest - 1) :
          /\ number \notin received
          /\ received' = IF number >= base THEN received \cup {number}
                                           ELSE received
    /\ late' = late + 1
    /\ lost' = Cardinality(Missing')
    /\ UNCHANGED <<base, highest, duplicates>>

Next == First \/ Advance \/ Repeat \/ Late

Spec == Init /\ [][Next]_vars
=============================================================================
