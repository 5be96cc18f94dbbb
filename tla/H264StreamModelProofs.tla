------------------------ MODULE H264StreamModelProofs ------------------------
(***************************************************************************)
(* Proofs about H264StreamModel, for every stream of NAL units: each of    *)
(* them has one place, the access units are pictures, the GOP statistics   *)
(* are true of them, and inspect, with the same NAL units in a file,       *)
(* agrees.                                                                 *)
(***************************************************************************)
EXTENDS InspectFile, SequenceArithmetic, FiniteSetTheorems, TLAPS

-----------------------------------------------------------------------------
(* Sequences of sequences of numbers, filled from left to right.           *)

InOrder(P) ==
  \A g, h \in DOMAIN P : \A i \in DOMAIN P[g], j \in DOMAIN P[h] :
    g < h \/ (g = h /\ i < j) => P[g][i] < P[h][j]

AreBelow(P, n) == \A g \in DOMAIN P : \A i \in DOMAIN P[g] : P[g][i] < n

Members(P) == UNION {ToSet(P[g]) : g \in DOMAIN P}

Extension(P, g, n) == [P EXCEPT ![g] = Append(P[g], n)]

LEMMA AppendedElements ==
  ASSUME NEW S, NEW s \in Seq(S), NEW e \in S
  PROVE  /\ Append(s, e) \in Seq(S)
         /\ DOMAIN Append(s, e) = DOMAIN s \cup {Len(s) + 1}
         /\ \A i \in DOMAIN s : Append(s, e)[i] = s[i]
         /\ Append(s, e)[Len(s) + 1] = e
         /\ ToSet(Append(s, e)) = ToSet(s) \cup {e}
<1>1. /\ Append(s, e) \in Seq(S)
      /\ DOMAIN Append(s, e) = DOMAIN s \cup {Len(s) + 1}
      /\ \A i \in DOMAIN s : Append(s, e)[i] = s[i]
      /\ Append(s, e)[Len(s) + 1] = e
  OBVIOUS
<1>2. ToSet(Append(s, e)) = ToSet(s) \cup {e}
  <2> DEFINE t == Append(s, e)
  <2> HIDE DEF t
  <2>1. /\ DOMAIN t = DOMAIN s \cup {Len(s) + 1}
        /\ \A i \in DOMAIN s : t[i] = s[i]
        /\ t[Len(s) + 1] = e
    BY <1>1 DEF t
  <2>2. ToSet(t) = ToSet(s) \cup {e}
    BY <2>1 DEF ToSet
  <2>3. QED
    BY <2>2 DEF t
<1>3. QED
  BY <1>1, <1>2

(* A number above all others goes to the last sequence that is not empty,  *)
(* or to a later one.                                                      *)
LEMMA PutLast ==
  ASSUME NEW P \in Seq(Seq(Nat)), NEW g \in DOMAIN P, NEW n \in Nat,
         \A h \in DOMAIN P : h > g => P[h] = <<>>,
         InOrder(P), AreBelow(P, n)
  PROVE  /\ InOrder(Extension(P, g, n))
         /\ AreBelow(Extension(P, g, n), n + 1)
         /\ Members(Extension(P, g, n)) = Members(P) \cup {n}
<1> DEFINE Q == Extension(P, g, n)
<1>1. /\ DOMAIN Q = DOMAIN P
      /\ \A h \in DOMAIN P : h # g => Q[h] = P[h]
      /\ Q[g] = Append(P[g], n)
  BY DEF Extension
<1>2. /\ P[g] \in Seq(Nat)
      /\ \A h \in DOMAIN P : P[h] \in Seq(Nat)
      /\ DOMAIN P \subseteq Nat
  OBVIOUS
<1>3. /\ DOMAIN Q[g] = DOMAIN P[g] \cup {Len(P[g]) + 1}
      /\ \A i \in DOMAIN P[g] : Q[g][i] = P[g][i]
      /\ Q[g][Len(P[g]) + 1] = n
      /\ ToSet(Q[g]) = ToSet(P[g]) \cup {n}
      /\ \A i \in DOMAIN P[g] : i \in 1..Len(P[g])
      /\ Len(P[g]) \in Nat
  <2> DEFINE s == P[g]
  <2> HIDE DEF s
  <2>1. s \in Seq(Nat)
    BY <1>2 DEF s
  <2>2. /\ DOMAIN Append(s, n) = DOMAIN s \cup {Len(s) + 1}
        /\ \A i \in DOMAIN s : Append(s, n)[i] = s[i]
        /\ Append(s, n)[Len(s) + 1] = n
        /\ ToSet(Append(s, n)) = ToSet(s) \cup {n}
    BY <2>1, AppendedElements
  <2>3. /\ \A i \in DOMAIN s : i \in 1..Len(s)
        /\ Len(s) \in Nat
    BY <2>1
  <2>4. Q[g] = Append(s, n)
    BY <1>1 DEF s
  <2>5. QED
    BY <2>2, <2>3, <2>4 DEF s
<1> HIDE DEF Q
<1>4. ASSUME NEW h \in DOMAIN Q, NEW i \in DOMAIN Q[h]
      PROVE  \/ h = g /\ i = Len(P[g]) + 1 /\ Q[h][i] = n
             \/ i \in DOMAIN P[h] /\ Q[h][i] = P[h][i]
  <2>1. CASE h = g
    <3>1. i \in DOMAIN P[g] \cup {Len(P[g]) + 1}
      BY <1>3, <1>4, <2>1
    <3>2. QED
      BY <1>3, <2>1, <3>1
  <2>2. CASE h # g
    BY <1>1, <1>4, <2>2
  <2>3. QED
    BY <2>1, <2>2
<1>5. InOrder(Q)
  <2> SUFFICES ASSUME NEW h \in DOMAIN Q, NEW k \in DOMAIN Q,
                      NEW i \in DOMAIN Q[h], NEW j \in DOMAIN Q[k],
                      h < k \/ (h = k /\ i < j)
               PROVE  Q[h][i] < Q[k][j]
    BY DEF InOrder
  <2>1. h \in DOMAIN P /\ k \in DOMAIN P /\ h \in Nat /\ k \in Nat
    BY <1>1, <1>2
  <2>2. CASE i \in DOMAIN P[h] /\ Q[h][i] = P[h][i] /\ j \in DOMAIN P[k] /\ Q[k][j] = P[k][j]
    BY <2>1, <2>2 DEF InOrder
  <2>3. CASE /\ i \in DOMAIN P[h] /\ Q[h][i] = P[h][i]
             /\ k = g /\ j = Len(P[g]) + 1 /\ Q[k][j] = n
    BY <2>1, <2>3 DEF AreBelow
  <2>4. CASE h = g /\ i = Len(P[g]) + 1
    <3>1. k = g
      <4>1. ASSUME k > g PROVE FALSE
        <5>1. P[k] = <<>> /\ k # g
          BY <2>1, <4>1
        <5>2. DOMAIN Q[k] = {}
          BY <1>1, <2>1, <5>1
        <5>3. QED
          BY <5>2
      <4>2. QED
        BY <2>1, <2>4, <4>1
    <3>2. j \in DOMAIN P[g] \cup {Len(P[g]) + 1} /\ i < j
      BY <1>3, <2>1, <2>4, <3>1
    <3>3. QED
      BY <1>3, <2>4, <3>2
  <2>5. QED
    BY <1>4, <2>2, <2>3, <2>4
<1>6. AreBelow(Q, n + 1)
  <2> SUFFICES ASSUME NEW h \in DOMAIN Q, NEW i \in DOMAIN Q[h]
               PROVE  Q[h][i] < n + 1
    BY DEF AreBelow
  <2>1. CASE Q[h][i] = n
    BY <2>1
  <2>2. CASE i \in DOMAIN P[h] /\ Q[h][i] = P[h][i]
    <3>1. h \in DOMAIN P
      BY <1>1
    <3>2. P[h][i] < n /\ P[h][i] \in Nat
      BY <1>2, <2>2, <3>1 DEF AreBelow
    <3>3. QED
      BY <2>2, <3>2
  <2>3. QED
    BY <1>4, <2>1, <2>2
<1>7. Members(Q) = Members(P) \cup {n}
  <2>1. \A h \in DOMAIN P : h # g => ToSet(Q[h]) = ToSet(P[h])
    BY <1>1
  <2>2. ASSUME NEW e PROVE e \in Members(Q) <=> e \in Members(P) \cup {n}
    <3>1. e \in Members(Q) <=> \E h \in DOMAIN P : e \in ToSet(Q[h])
      BY <1>1, Zenon DEF Members
    <3>2. e \in Members(P) <=> \E h \in DOMAIN P : e \in ToSet(P[h])
      BY Zenon DEF Members
    <3>3. QED
      BY <1>3, <2>1, <3>1, <3>2
  <2>3. QED
    BY <2>2
<1>8. QED
  BY <1>5, <1>6, <1>7 DEF Q

(* An empty sequence at the end changes nothing.                           *)
LEMMA OpenPlace ==
  ASSUME NEW P \in Seq(Seq(Nat)), NEW n \in Nat
  PROVE  /\ InOrder(P) => InOrder(Append(P, <<>>))
         /\ AreBelow(P, n) => AreBelow(Append(P, <<>>), n)
         /\ Members(Append(P, <<>>)) = Members(P)
<1> DEFINE Q == Append(P, <<>>)
<1>1. /\ DOMAIN Q = DOMAIN P \cup {Len(P) + 1}
      /\ \A h \in DOMAIN P : Q[h] = P[h]
      /\ Q[Len(P) + 1] = <<>>
  BY AppendedElements
<1>2. /\ DOMAIN Q[Len(P) + 1] = {} /\ ToSet(Q[Len(P) + 1]) = {}
  BY <1>1 DEF ToSet
<1>3. \A h \in DOMAIN P : ToSet(Q[h]) = ToSet(P[h])
  BY <1>1
<1> HIDE DEF Q
<1>4. \A h \in DOMAIN Q : DOMAIN Q[h] # {} => h \in DOMAIN P /\ Q[h] = P[h]
  BY <1>1, <1>2
<1>5. InOrder(P) => InOrder(Q)
  BY <1>4, Zenon DEF InOrder
<1>6. AreBelow(P, n) => AreBelow(Q, n)
  BY <1>4, Zenon DEF AreBelow
<1>7. Members(Q) = Members(P)
  BY <1>1, <1>2, <1>3, Zenon DEF Members
<1>8. QED
  BY <1>5, <1>6, <1>7 DEF Q

-----------------------------------------------------------------------------
(* The inductive invariant, about the access units P and the NAL units p   *)
(* pushed so far.                                                          *)

SupportedVcl == {nal \in NalUnits : IsSupportedVcl(nal.type)}

ReadableSps == {nal \in NalUnits : nal.type = 7 /\ nal.sps # Malformed}

SpsRegistry == [SpsIds -> {Nothing} \cup {nal.sps : nal \in ReadableSps}]

(* What may be read in a PPS.                                              *)
IdentifiedPps == {nal \in NalUnits : nal.type = 8 /\ nal.ids # Malformed}

PpsRead ==
  (UNION {{nal.read[chroma] : chroma \in DOMAIN nal.read} : nal \in IdentifiedPps}) \ {Malformed}

PpsRegistry == [PpsIds -> {Nothing} \cup PpsRead]

SliceHeaders ==
  (UNION {{nal.read[formats] : formats \in DOMAIN nal.read} : nal \in SupportedVcl}) \ {Malformed}

SliceTypesRead == {slice.slice_type : slice \in SliceHeaders}

AccessUnit ==
  [kind : {"access_unit"}, index : Nat, nal_indices : Seq(Nat),
   vcl_nal_indices : Seq(Nat),
   slice_types_present : SUBSET SliceTypesRead,
   first_vcl : SliceHeaders]

Assembler ==
  [next_index : Nat, pending : Seq(Nat), current : AccessUnit \cup {Nothing}]

(* A diagnostic about one of the first n NAL units.                        *)
Diagnostic(n) == [nal_index : 0..(n - 1), code : {SyntaxInvalid.code, NotFound.code}]

StreamTypes ==
  /\ sps \in SpsRegistry /\ pps \in PpsRegistry
  /\ assembler \in Assembler
  /\ nal_units \in Nat
  /\ access_units \in Seq(AccessUnit)
  /\ diagnostics \in Seq(Diagnostic(nal_units))
  /\ finished \in BOOLEAN
  /\ pushed \in Seq(NalUnits)
  /\ Len(pushed) = nal_units

NalTypeOf(slice) == IF slice.idr THEN 5 ELSE 1

IsPrefixNal(p, index) == StartsAccessUnitPrefix(p[index + 1].type)

IsPicture(unit, i, p) ==
  /\ unit.index = i - 1
  /\ unit.vcl_nal_indices # <<>>
  /\ \A j \in DOMAIN unit.vcl_nal_indices :
       /\ unit.vcl_nal_indices[j] < Len(p)
       /\ p[unit.vcl_nal_indices[j] + 1].type = NalTypeOf(unit.first_vcl)
  /\ \A j \in DOMAIN unit.nal_indices :
       /\ unit.nal_indices[j] < Len(p)
       /\ IsPrefixNal(p, unit.nal_indices[j])
            => unit.nal_indices[j] < unit.vcl_nal_indices[1]

(* A NAL unit that precedes a picture came after the slices of unit and    *)
(* not after end.                                                          *)
PrefixBetween(unit, end, p) ==
  \E index \in (unit.vcl_nal_indices[Len(unit.vcl_nal_indices)] + 1)..end :
    IsPrefixNal(p, index)

Separates(unit, next, p) ==
  \/ PrefixBetween(unit, next.vcl_nal_indices[1], p)
  \/ StartsNewPrimaryCodedPicture(unit.first_vcl, next.first_vcl)

ArePictures(P, p) ==
  /\ P \in Seq(AccessUnit)
  /\ \A i \in DOMAIN P : IsPicture(P[i], i, p)
  /\ \A i \in DOMAIN P : i < Len(P) => Separates(P[i], P[i + 1], p)

PlacesOf(P, pending) ==
  [place \in 1..(Len(P) + 1) |->
     IF place <= Len(P) THEN P[place].nal_indices ELSE pending]

(* Between two pictures there is a reason to begin a new one.              *)
PictureIsEnded ==
  assembler.current = Nothing /\ access_units # <<>> /\ ~ finished =>
    PrefixBetween(access_units[Len(access_units)], nal_units - 1, pushed)

PlacesInv ==
  /\ InOrder(Places)
  /\ AreBelow(Places, nal_units)
  /\ Members(Places) = (0..(nal_units - 1)) \ Excluded

StreamInv ==
  /\ StreamTypes
  /\ assembler.next_index = Len(Pictures)
  /\ assembler.current # Nothing => assembler.pending = <<>> /\ ~ finished
  /\ PlacesInv
  /\ ArePictures(Pictures, pushed)
  /\ PictureIsEnded

-----------------------------------------------------------------------------
(* The places of one more NAL unit.                                        *)

LEMMA AccessUnitFields ==
  ASSUME NEW unit \in AccessUnit
  PROVE  /\ unit.nal_indices \in Seq(Nat) /\ unit.vcl_nal_indices \in Seq(Nat)
         /\ unit.index \in Nat /\ unit.first_vcl \in SliceHeaders
         /\ unit # Nothing
BY DEF AccessUnit, Nothing

LEMMA PlacesShape ==
  ASSUME NEW P \in Seq(AccessUnit), NEW pending \in Seq(Nat)
  PROVE  /\ PlacesOf(P, pending) \in Seq(Seq(Nat))
         /\ DOMAIN PlacesOf(P, pending) = 1..(Len(P) + 1)
         /\ \A i \in 1..Len(P) : PlacesOf(P, pending)[i] = P[i].nal_indices
         /\ PlacesOf(P, pending)[Len(P) + 1] = pending
<1>1. \A i \in 1..Len(P) : P[i].nal_indices \in Seq(Nat)
  <2>1. \A i \in 1..Len(P) : P[i] \in AccessUnit
    OBVIOUS
  <2>2. QED
    BY <2>1, AccessUnitFields
<1>2. Len(P) \in Nat
  OBVIOUS
<1>3. /\ DOMAIN PlacesOf(P, pending) = 1..(Len(P) + 1)
      /\ \A i \in 1..Len(P) : PlacesOf(P, pending)[i] = P[i].nal_indices
      /\ PlacesOf(P, pending)[Len(P) + 1] = pending
  BY <1>2 DEF PlacesOf
<1>4. \A i \in 1..(Len(P) + 1) : PlacesOf(P, pending)[i] \in Seq(Nat)
  BY <1>1, <1>2, <1>3
<1>5. PlacesOf(P, pending) \in Seq(Seq(Nat))
  BY <1>2, <1>4 DEF PlacesOf
<1>6. QED
  BY <1>3, <1>5

LEMMA SequencesEqual ==
  ASSUME NEW S, NEW s \in Seq(S), NEW t \in Seq(S), NEW n \in Nat,
         DOMAIN s = 1..n, DOMAIN t = 1..n, \A i \in 1..n : s[i] = t[i]
  PROVE  s = t
OBVIOUS

(* A sequence of sequences after Extension.                                *)
LEMMA ExtensionShape ==
  ASSUME NEW R \in Seq(Seq(Nat)), NEW last \in Nat, DOMAIN R = 1..last,
         NEW g \in 1..last, NEW n \in Nat
  PROVE  /\ Extension(R, g, n) \in Seq(Seq(Nat))
         /\ DOMAIN Extension(R, g, n) = 1..last
         /\ Extension(R, g, n)[g] = Append(R[g], n)
         /\ \A i \in 1..last : i # g => Extension(R, g, n)[i] = R[i]
<1>1. R[g] \in Seq(Nat)
  OBVIOUS
<1>2. Append(R[g], n) \in Seq(Nat)
  BY <1>1
<1> DEFINE appended == Append(R[g], n)
<1>3. appended \in Seq(Nat)
  BY <1>2
<1> HIDE DEF appended
<1>4. Extension(R, g, n) = [R EXCEPT ![g] = appended]
  BY DEF Extension, appended
<1>5. /\ [R EXCEPT ![g] = appended] \in Seq(Seq(Nat))
      /\ DOMAIN [R EXCEPT ![g] = appended] = 1..last
      /\ [R EXCEPT ![g] = appended][g] = appended
      /\ \A i \in 1..last : i # g => [R EXCEPT ![g] = appended][i] = R[i]
  BY <1>3
<1>6. QED
  BY <1>4, <1>5 DEF appended

(* The NAL unit waits, joins the last picture, or begins one.              *)
LEMMA WaitPlaces ==
  ASSUME NEW P \in Seq(AccessUnit), NEW pending \in Seq(Nat), NEW n \in Nat
  PROVE  PlacesOf(P, Append(pending, n)) = Extension(PlacesOf(P, pending), Len(P) + 1, n)
<1> DEFINE last == Len(P) + 1
           Q == PlacesOf(P, Append(pending, n))
           R == PlacesOf(P, pending)
           X == Extension(R, last, n)
<1>1. last \in Nat /\ last \in 1..last /\ \A i \in 1..last : i # last => i \in 1..Len(P)
  OBVIOUS
<1>2. Append(pending, n) \in Seq(Nat)
  OBVIOUS
<1>3. Q \in Seq(Seq(Nat)) /\ DOMAIN Q = 1..last /\ Q[last] = Append(pending, n)
  BY <1>2, PlacesShape
<1>4. \A i \in 1..Len(P) : Q[i] = P[i].nal_indices
  BY <1>2, PlacesShape
<1>5. R \in Seq(Seq(Nat)) /\ DOMAIN R = 1..last /\ R[last] = pending
  BY PlacesShape
<1>6. \A i \in 1..Len(P) : R[i] = P[i].nal_indices
  BY PlacesShape
<1> HIDE DEF Q, R, last
<1>7. /\ X \in Seq(Seq(Nat)) /\ DOMAIN X = 1..last /\ X[last] = Append(R[last], n)
      /\ \A i \in 1..last : i # last => X[i] = R[i]
  <2>1. R \in Seq(Seq(Nat))
    BY <1>5
  <2>2. DOMAIN R = 1..last
    BY <1>5
  <2>3. last \in Nat
    BY <1>1
  <2>4. last \in 1..last
    BY <1>1
  <2>5. X \in Seq(Seq(Nat))
    BY <2>1, <2>2, <2>3, <2>4, ExtensionShape
  <2>6. DOMAIN X = 1..last
    BY <2>1, <2>2, <2>3, <2>4, ExtensionShape
  <2>7. X[last] = Append(R[last], n)
    BY <2>1, <2>2, <2>3, <2>4, ExtensionShape
  <2>8. QED
    BY <2>1, <2>2, <2>3, <2>4, <2>5, <2>6, <2>7, ExtensionShape
<1>8. \A i \in 1..last : i # last => X[i] = R[i]
  BY <1>7
<1> HIDE DEF X
<1>9. \A i \in 1..last : Q[i] = X[i]
  BY <1>1, <1>3, <1>4, <1>5, <1>6, <1>7, <1>8, Zenon
<1>10. Q = X
  BY <1>1, <1>3, <1>7, <1>9, SequencesEqual
<1>11. QED
  BY <1>10 DEF Q, R, X, last

LEMMA JoinPlaces ==
  ASSUME NEW P \in Seq(AccessUnit), P # <<>>, NEW n \in Nat,
         NEW unit \in AccessUnit,
         unit.nal_indices = Append(P[Len(P)].nal_indices, n)
  PROVE  /\ [P EXCEPT ![Len(P)] = unit] \in Seq(AccessUnit)
         /\ PlacesOf([P EXCEPT ![Len(P)] = unit], <<>>)
              = Extension(PlacesOf(P, <<>>), Len(P), n)
<1> DEFINE m == Len(P)
           S == [P EXCEPT ![Len(P)] = unit]
           Q == PlacesOf(S, <<>>)
           R == PlacesOf(P, <<>>)
           X == Extension(R, m, n)
<1>1. m \in Nat /\ m \in 1..m /\ m \in 1..(m + 1) /\ m # m + 1 /\ m + 1 \in Nat
  OBVIOUS
<1>2. \A i \in 1..(m + 1) : i \in 1..m \/ i = m + 1
  BY <1>1
<1>3. /\ S \in Seq(AccessUnit) /\ Len(S) = m
      /\ S[m] = unit
      /\ \A i \in 1..m : i # m => S[i] = P[i]
  OBVIOUS
<1>4. <<>> \in Seq(Nat)
  OBVIOUS
<1>5. R \in Seq(Seq(Nat)) /\ DOMAIN R = 1..(m + 1) /\ R[m + 1] = <<>>
  BY <1>4, PlacesShape
<1>6. \A i \in 1..m : R[i] = P[i].nal_indices
  BY <1>4, PlacesShape
<1> HIDE DEF S
<1>7. Q \in Seq(Seq(Nat)) /\ DOMAIN Q = 1..(Len(S) + 1) /\ Q[Len(S) + 1] = <<>>
  BY <1>3, <1>4, PlacesShape
<1>8. \A i \in 1..Len(S) : Q[i] = S[i].nal_indices
  BY <1>3, <1>4, PlacesShape
<1> HIDE DEF Q, R
<1>9. X \in Seq(Seq(Nat)) /\ DOMAIN X = 1..(m + 1) /\ X[m] = Append(R[m], n)
  <2>1. R \in Seq(Seq(Nat))
    BY <1>5
  <2>2. DOMAIN R = 1..(m + 1)
    BY <1>5
  <2>3. m + 1 \in Nat
    BY <1>1
  <2>4. m \in 1..(m + 1)
    BY <1>1
  <2>5. X \in Seq(Seq(Nat))
    BY <2>1, <2>2, <2>3, <2>4, ExtensionShape
  <2>6. DOMAIN X = 1..(m + 1)
    BY <2>1, <2>2, <2>3, <2>4, ExtensionShape
  <2>7. X[m] = Append(R[m], n)
    BY <2>1, <2>2, <2>3, <2>4, ExtensionShape
  <2>8. QED
    BY <2>5, <2>6, <2>7
<1>10. \A i \in 1..(m + 1) : i # m => X[i] = R[i]
  BY <1>1, <1>5, ExtensionShape
<1> HIDE DEF X
<1>11. Q[m] = X[m]
  <2>1. Q[m] = unit.nal_indices
    BY <1>1, <1>3, <1>8
  <2>2. R[m] = P[m].nal_indices
    BY <1>1, <1>6
  <2>3. QED
    BY <1>9, <2>1, <2>2
<1>12. Q[m + 1] = X[m + 1]
  <2>1. Q[m + 1] = <<>>
    BY <1>3, <1>7
  <2>2. m + 1 \in 1..(m + 1)
    BY <1>1
  <2>3. QED
    BY <1>1, <1>5, <1>10, <2>1, <2>2
<1>13. ASSUME NEW i \in 1..m, i # m PROVE Q[i] = X[i]
  <2>1. i \in 1..(m + 1)
    BY <1>1
  <2>2. Q[i] = S[i].nal_indices /\ S[i] = P[i]
    BY <1>3, <1>8, <1>13
  <2>3. R[i] = P[i].nal_indices
    BY <1>6
  <2>4. QED
    BY <1>10, <1>13, <2>1, <2>2, <2>3
<1> HIDE DEF m
<1>14. \A i \in 1..(m + 1) : Q[i] = X[i]
  BY <1>2, <1>11, <1>12, <1>13, Zenon
<1>15. DOMAIN Q = 1..(m + 1)
  BY <1>3, <1>7
<1>16. Q = X
  <2>1. Q \in Seq(Seq(Nat))
    BY <1>7
  <2>2. X \in Seq(Seq(Nat))
    BY <1>9
  <2>3. DOMAIN X = 1..(m + 1)
    BY <1>9
  <2>4. m + 1 \in Nat
    BY <1>1
  <2>5. QED
    BY <1>14, <1>15, <2>1, <2>2, <2>3, <2>4, SequencesEqual
<1>17. QED
  BY <1>3, <1>16 DEF Q, R, S, X, m

LEMMA BeginPlaces ==
  ASSUME NEW P \in Seq(AccessUnit), NEW pending \in Seq(Nat), NEW n \in Nat,
         NEW unit \in AccessUnit, unit.nal_indices = Append(pending, n)
  PROVE  PlacesOf(Append(P, unit), <<>>)
           = Append(PlacesOf(P, Append(pending, n)), <<>>)
<1> DEFINE m == Len(P)
           S == Append(P, unit)
           Q == PlacesOf(S, <<>>)
           R == PlacesOf(P, Append(pending, n))
           X == Append(R, <<>>)
<1>1. /\ m \in Nat /\ m + 1 \in Nat /\ m + 2 \in Nat
      /\ \A i \in 1..(m + 2) : i \in 1..m \/ i = m + 1 \/ i = m + 2
      /\ \A i \in 1..m : i \in 1..(m + 1)
      /\ m + 1 \in 1..(m + 1)
  OBVIOUS
<1>2. /\ S \in Seq(AccessUnit) /\ Len(S) = m + 1 /\ S[m + 1] = unit
      /\ \A i \in 1..m : S[i] = P[i]
  OBVIOUS
<1>3. Append(pending, n) \in Seq(Nat) /\ <<>> \in Seq(Nat)
  OBVIOUS
<1>4. R \in Seq(Seq(Nat)) /\ DOMAIN R = 1..(m + 1) /\ R[m + 1] = Append(pending, n)
  BY <1>3, PlacesShape
<1>5. \A i \in 1..m : R[i] = P[i].nal_indices
  BY <1>3, PlacesShape
<1> HIDE DEF S
<1>6. Q \in Seq(Seq(Nat)) /\ DOMAIN Q = 1..(Len(S) + 1) /\ Q[Len(S) + 1] = <<>>
  BY <1>2, <1>3, PlacesShape
<1>7. \A i \in 1..Len(S) : Q[i] = S[i].nal_indices
  BY <1>2, <1>3, PlacesShape
<1> HIDE DEF Q, R, m
<1>8. X \in Seq(Seq(Nat)) /\ DOMAIN X = 1..(m + 2) /\ X[m + 2] = <<>>
      /\ \A i \in 1..(m + 1) : X[i] = R[i]
  <2>1. Len(R) = m + 1
    BY <1>1, <1>4
  <2>2. QED
    BY <1>1, <1>3, <1>4, <2>1
<1> HIDE DEF X
<1>9. DOMAIN Q = 1..(m + 2) /\ Q[m + 2] = <<>>
  <2>1. Len(S) + 1 = m + 2
    BY <1>1, <1>2
  <2>2. QED
    BY <1>6, <2>1
<1>10. ASSUME NEW i \in 1..m PROVE Q[i] = X[i]
  <2>1. Q[i] = P[i].nal_indices
    BY <1>1, <1>2, <1>7
  <2>2. X[i] = R[i]
    BY <1>1, <1>8
  <2>3. QED
    BY <1>5, <2>1, <2>2
<1>11. Q[m + 1] = X[m + 1]
  <2>1. Q[m + 1] = unit.nal_indices
    BY <1>1, <1>2, <1>7
  <2>2. QED
    BY <1>1, <1>4, <1>8, <2>1
<1>12. \A i \in 1..(m + 2) : Q[i] = X[i]
  BY <1>1, <1>8, <1>9, <1>10, <1>11, Zenon
<1>13. Q = X
  BY <1>1, <1>6, <1>8, <1>9, <1>12, SequencesEqual
<1>14. QED
  BY <1>13 DEF Q, R, S, X

-----------------------------------------------------------------------------
(* The access units after one more NAL unit.                               *)

LEMMA OldNals ==
  ASSUME NEW p \in Seq(NalUnits), NEW nal \in NalUnits
  PROVE  /\ \A index \in Nat : index < Len(p) => Append(p, nal)[index + 1] = p[index + 1]
         /\ Append(p, nal)[Len(p) + 1] = nal
         /\ Append(p, nal) \in Seq(NalUnits)
         /\ Len(Append(p, nal)) = Len(p) + 1
         /\ Len(p) \in Nat
OBVIOUS

LEMMA SlicesOfPicture ==
  ASSUME NEW p, Len(p) \in Nat, NEW unit \in AccessUnit, NEW i, IsPicture(unit, i, p)
  PROVE  /\ Len(unit.vcl_nal_indices) \in DOMAIN unit.vcl_nal_indices
         /\ 1 \in DOMAIN unit.vcl_nal_indices
         /\ unit.vcl_nal_indices[1] \in 0..(Len(p) - 1)
         /\ unit.vcl_nal_indices[Len(unit.vcl_nal_indices)] \in 0..(Len(p) - 1)
<1> DEFINE v == unit.vcl_nal_indices
<1>1. v \in Seq(Nat) /\ v # <<>>
  BY AccessUnitFields DEF IsPicture
<1>2. \A j \in DOMAIN v : v[j] < Len(p)
  BY DEF IsPicture
<1> HIDE DEF v
<1>3. Len(v) \in DOMAIN v /\ 1 \in DOMAIN v /\ \A j \in DOMAIN v : v[j] \in Nat
  BY <1>1
<1>4. QED
  BY <1>2, <1>3 DEF v

LEMMA PictureStays ==
  ASSUME NEW p \in Seq(NalUnits), NEW nal \in NalUnits,
         NEW unit \in AccessUnit, NEW i, IsPicture(unit, i, p)
  PROVE  IsPicture(unit, i, Append(p, nal))
<1> DEFINE q == Append(p, nal)
<1>1. /\ \A index \in Nat : index < Len(p) => q[index + 1] = p[index + 1]
      /\ Len(q) = Len(p) + 1 /\ Len(p) \in Nat
  BY OldNals
<1>2. /\ \A j \in DOMAIN unit.vcl_nal_indices : unit.vcl_nal_indices[j] \in Nat
      /\ \A j \in DOMAIN unit.nal_indices : unit.nal_indices[j] \in Nat
  BY AccessUnitFields
<1> HIDE DEF q
<1>3. ASSUME NEW j \in DOMAIN unit.vcl_nal_indices
      PROVE  /\ unit.vcl_nal_indices[j] < Len(q)
             /\ q[unit.vcl_nal_indices[j] + 1].type = NalTypeOf(unit.first_vcl)
  <2>1. unit.vcl_nal_indices[j] < Len(p)
    BY DEF IsPicture
  <2>2. q[unit.vcl_nal_indices[j] + 1] = p[unit.vcl_nal_indices[j] + 1]
    BY <1>1, <1>2, <2>1
  <2>3. QED
    BY <1>1, <1>2, <2>1, <2>2 DEF IsPicture
<1>4. ASSUME NEW j \in DOMAIN unit.nal_indices
      PROVE  /\ unit.nal_indices[j] < Len(q)
             /\ IsPrefixNal(q, unit.nal_indices[j])
                  => unit.nal_indices[j] < unit.vcl_nal_indices[1]
  <2>1. unit.nal_indices[j] < Len(p)
    BY DEF IsPicture
  <2>2. q[unit.nal_indices[j] + 1] = p[unit.nal_indices[j] + 1]
    BY <1>1, <1>2, <2>1
  <2>3. QED
    BY <1>1, <1>2, <2>1, <2>2 DEF IsPicture, IsPrefixNal
<1>5. QED
  BY <1>3, <1>4 DEF IsPicture, q

LEMMA PrefixStays ==
  ASSUME NEW p \in Seq(NalUnits), NEW nal \in NalUnits,
         NEW unit \in AccessUnit, NEW i, IsPicture(unit, i, p),
         NEW end \in Int, end < Len(p), PrefixBetween(unit, end, p)
  PROVE  /\ PrefixBetween(unit, end, Append(p, nal))
         /\ PrefixBetween(unit, Len(p), Append(p, nal))
<1> DEFINE last == unit.vcl_nal_indices[Len(unit.vcl_nal_indices)]
<1>1. last \in Nat /\ Len(p) \in Nat
  BY SlicesOfPicture, OldNals
<1> HIDE DEF last
<1>2. PICK index \in (last + 1)..end : IsPrefixNal(p, index)
  BY DEF PrefixBetween, last
<1>3. index \in Nat /\ index < Len(p) /\ index \in (last + 1)..Len(p)
  BY <1>1
<1>4. IsPrefixNal(Append(p, nal), index)
  BY <1>2, <1>3, OldNals DEF IsPrefixNal
<1>5. QED
  BY <1>2, <1>3, <1>4 DEF PrefixBetween, last

LEMMA PicturesStay ==
  ASSUME NEW p \in Seq(NalUnits), NEW nal \in NalUnits, NEW P, ArePictures(P, p)
  PROVE  ArePictures(P, Append(p, nal))
<1> DEFINE q == Append(p, nal)
<1>1. P \in Seq(AccessUnit) /\ \A i \in DOMAIN P : P[i] \in AccessUnit
  BY DEF ArePictures
<1>2. \A i \in DOMAIN P : IsPicture(P[i], i, q)
  BY <1>1, PictureStays DEF ArePictures
<1>3. ASSUME NEW i \in DOMAIN P, i < Len(P)
      PROVE  Separates(P[i], P[i + 1], q)
  <2>1. i + 1 \in DOMAIN P
    BY <1>1, <1>3
  <2>2. IsPicture(P[i], i, p) /\ IsPicture(P[i + 1], i + 1, p) /\ Separates(P[i], P[i + 1], p)
    BY <1>3, <2>1 DEF ArePictures
  <2>3. P[i] \in AccessUnit /\ P[i + 1] \in AccessUnit
    BY <1>1, <2>1
  <2>4. Len(p) \in Nat
    BY OldNals
  <2>5. P[i + 1].vcl_nal_indices[1] \in 0..(Len(p) - 1)
    BY <2>2, <2>3, <2>4, SlicesOfPicture
  <2>6. P[i + 1].vcl_nal_indices[1] \in Int /\ P[i + 1].vcl_nal_indices[1] < Len(p)
    BY <2>4, <2>5
  <2> HIDE DEF q
  <2>7. CASE PrefixBetween(P[i], P[i + 1].vcl_nal_indices[1], p)
    BY <2>2, <2>3, <2>6, <2>7, PrefixStays DEF Separates, q
  <2>8. CASE StartsNewPrimaryCodedPicture(P[i].first_vcl, P[i + 1].first_vcl)
    BY <2>8 DEF Separates
  <2>9. QED
    BY <2>2, <2>7, <2>8 DEF Separates
<1>4. QED
  BY <1>1, <1>2, <1>3 DEF ArePictures

(* The last picture gets a NAL unit.                                       *)
LEMMA PictureJoined ==
  ASSUME NEW P, NEW p, ArePictures(P, p), P # <<>>, NEW unit \in AccessUnit,
         unit.first_vcl = P[Len(P)].first_vcl,
         unit.vcl_nal_indices[1] = P[Len(P)].vcl_nal_indices[1],
         IsPicture(unit, Len(P), p)
  PROVE  ArePictures([P EXCEPT ![Len(P)] = unit], p)
<1> DEFINE m == Len(P)
           S == [P EXCEPT ![Len(P)] = unit]
<1>1. P \in Seq(AccessUnit)
  BY DEF ArePictures
<1>2. /\ S \in Seq(AccessUnit) /\ DOMAIN S = DOMAIN P /\ Len(S) = m
      /\ m \in Nat /\ m \in DOMAIN P /\ DOMAIN P = 1..m
      /\ S[m] = unit
      /\ \A i \in DOMAIN P : i # m => S[i] = P[i]
  BY <1>1
<1> HIDE DEF S, m
<1>3. ASSUME NEW i \in DOMAIN S PROVE IsPicture(S[i], i, p)
  <2>1. CASE i = m
    BY <1>2, <2>1 DEF m
  <2>2. CASE i # m
    BY <1>2, <2>2 DEF ArePictures
  <2>3. QED
    BY <2>1, <2>2
<1>4. ASSUME NEW i \in DOMAIN S, i < Len(S) PROVE Separates(S[i], S[i + 1], p)
  <2>1. i \in DOMAIN P /\ i # m /\ i + 1 \in DOMAIN P /\ S[i] = P[i] /\ i < Len(P)
    BY <1>2, <1>4 DEF m
  <2>2. Separates(P[i], P[i + 1], p)
    BY <2>1 DEF ArePictures
  <2>3. /\ S[i + 1].first_vcl = P[i + 1].first_vcl
        /\ S[i + 1].vcl_nal_indices[1] = P[i + 1].vcl_nal_indices[1]
    <3>1. CASE i + 1 = m
      BY <1>2, <3>1 DEF m
    <3>2. CASE i + 1 # m
      BY <1>2, <2>1, <3>2
    <3>3. QED
      BY <3>1, <3>2
  <2>4. QED
    BY <2>1, <2>2, <2>3, Zenon DEF Separates
<1>5. QED
  BY <1>2, <1>3, <1>4 DEF ArePictures, S

(* A picture begins, and has a reason to.                                  *)
LEMMA PictureBegun ==
  ASSUME NEW P, NEW p, ArePictures(P, p), NEW unit \in AccessUnit,
         IsPicture(unit, Len(P) + 1, p),
         P # <<>> => Separates(P[Len(P)], unit, p)
  PROVE  ArePictures(Append(P, unit), p)
<1> DEFINE m == Len(P)
           S == Append(P, unit)
<1>1. P \in Seq(AccessUnit)
  BY DEF ArePictures
<1>2. /\ S \in Seq(AccessUnit) /\ DOMAIN S = 1..(m + 1) /\ Len(S) = m + 1
      /\ m \in Nat /\ DOMAIN P = 1..m
      /\ S[m + 1] = unit
      /\ \A i \in 1..m : S[i] = P[i]
      /\ m # 0 => P # <<>>
  BY <1>1
<1> HIDE DEF S, m
<1>3. ASSUME NEW i \in DOMAIN S PROVE IsPicture(S[i], i, p)
  <2>1. CASE i = m + 1
    BY <1>2, <2>1 DEF m
  <2>2. CASE i # m + 1
    <3>1. i \in DOMAIN P /\ S[i] = P[i]
      BY <1>2, <2>2
    <3>2. QED
      BY <3>1 DEF ArePictures
  <2>3. QED
    BY <2>1, <2>2
<1>4. ASSUME NEW i \in DOMAIN S, i < Len(S) PROVE Separates(S[i], S[i + 1], p)
  <2>1. i \in 1..m /\ S[i] = P[i] /\ i \in Nat
    BY <1>2, <1>4
  <2>2. CASE i = m
    <3>1. S[i + 1] = unit /\ S[i] = P[Len(P)] /\ P # <<>>
      BY <1>2, <2>1, <2>2 DEF m
    <3>2. QED
      BY <3>1
  <2>3. CASE i # m
    <3>1. i + 1 \in 1..m /\ S[i + 1] = P[i + 1] /\ i \in DOMAIN P /\ i < Len(P)
      BY <1>2, <2>1, <2>3 DEF m
    <3>2. QED
      BY <2>1, <3>1 DEF ArePictures
  <2>4. QED
    BY <2>2, <2>3
<1>5. QED
  BY <1>2, <1>3, <1>4 DEF ArePictures, S

-----------------------------------------------------------------------------
(* What the assembler makes of a NAL unit.                                 *)

WithNal(unit, n) == [unit EXCEPT !.nal_indices = Append(@, n)]

WithSlice(unit, n, slice) ==
  [unit EXCEPT !.nal_indices = Append(@, n),
               !.vcl_nal_indices = Append(@, n),
               !.slice_types_present = @ \cup {slice.slice_type}]

LEMMA WithNalFields ==
  ASSUME NEW unit \in AccessUnit, NEW n \in Nat
  PROVE  /\ WithNal(unit, n) \in AccessUnit
         /\ WithNal(unit, n).nal_indices = Append(unit.nal_indices, n)
         /\ WithNal(unit, n).vcl_nal_indices = unit.vcl_nal_indices
         /\ WithNal(unit, n).first_vcl = unit.first_vcl
         /\ WithNal(unit, n).index = unit.index
<1> DEFINE s == Append(unit.nal_indices, n)
<1>1. s \in Seq(Nat)
  BY AccessUnitFields
<1> HIDE DEF s
<1>2. WithNal(unit, n) = [unit EXCEPT !.nal_indices = s]
  BY DEF WithNal, s
<1>3. /\ [unit EXCEPT !.nal_indices = s] \in AccessUnit
      /\ [unit EXCEPT !.nal_indices = s].nal_indices = s
      /\ [unit EXCEPT !.nal_indices = s].vcl_nal_indices = unit.vcl_nal_indices
      /\ [unit EXCEPT !.nal_indices = s].first_vcl = unit.first_vcl
      /\ [unit EXCEPT !.nal_indices = s].index = unit.index
  BY <1>1 DEF AccessUnit
<1>4. QED
  BY <1>2, <1>3 DEF s

LEMMA WithSliceFields ==
  ASSUME NEW unit \in AccessUnit, NEW n \in Nat, NEW slice \in SliceHeaders
  PROVE  /\ WithSlice(unit, n, slice) \in AccessUnit
         /\ WithSlice(unit, n, slice).nal_indices = Append(unit.nal_indices, n)
         /\ WithSlice(unit, n, slice).vcl_nal_indices = Append(unit.vcl_nal_indices, n)
         /\ WithSlice(unit, n, slice).first_vcl = unit.first_vcl
         /\ WithSlice(unit, n, slice).index = unit.index
<1>1. slice.slice_type \in SliceTypesRead
  BY DEF SliceTypesRead
<1> DEFINE s == Append(unit.nal_indices, n)
           v == Append(unit.vcl_nal_indices, n)
           types == unit.slice_types_present \cup {slice.slice_type}
           new == [unit EXCEPT !.nal_indices = s, !.vcl_nal_indices = v,
                               !.slice_types_present = types]
<1>2. s \in Seq(Nat) /\ v \in Seq(Nat)
  BY AccessUnitFields
<1>3. types \in SUBSET SliceTypesRead
  BY <1>1 DEF AccessUnit
<1>4. WithSlice(unit, n, slice) = new
  BY DEF WithSlice
<1> HIDE DEF s, v, types
<1>5. /\ new \in AccessUnit
      /\ new.nal_indices = s
      /\ new.vcl_nal_indices = v
      /\ new.first_vcl = unit.first_vcl
      /\ new.index = unit.index
  BY <1>2, <1>3 DEF AccessUnit
<1>6. QED
  BY <1>4, <1>5 DEF s, v

LEMMA NewPictureFields ==
  ASSUME NEW a \in Assembler, NEW n \in Nat, NEW slice \in SliceHeaders
  PROVE  LET r == BeginPicture(a, n, slice)
         IN  /\ r.next_index = a.next_index + 1 /\ r.pending = <<>>
             /\ r.current \in AccessUnit
             /\ r.current.nal_indices = Append(a.pending, n)
             /\ r.current.vcl_nal_indices = <<n>>
             /\ r.current.first_vcl = slice
             /\ r.current.index = a.next_index
             /\ r \in Assembler
<1>1. slice.slice_type \in SliceTypesRead
  BY DEF SliceTypesRead
<1>2. QED
  BY <1>1 DEF BeginPicture, AccessUnit, Assembler

LEMMA OtherNalOutcome ==
  ASSUME NEW a \in Assembler, NEW n \in Nat, NEW type
  PROVE  LET r == PushOtherNal(a, n, type)
         IN  \/ /\ a.current = Nothing \/ StartsAccessUnitPrefix(type)
                /\ r.assembler.next_index = a.next_index
                /\ r.assembler.pending = Append(a.pending, n)
                /\ r.assembler.current = Nothing
                /\ r.completed = a.current
                /\ r.assembler \in Assembler
             \/ /\ a.current # Nothing /\ ~ StartsAccessUnitPrefix(type)
                /\ r.assembler.next_index = a.next_index
                /\ r.assembler.pending = a.pending
                /\ r.assembler.current = WithNal(a.current, n)
                /\ r.completed = Nothing
                /\ r.assembler \in Assembler
<1>1. /\ a.pending \in Seq(Nat) /\ Append(a.pending, n) \in Seq(Nat)
      /\ a.current # Nothing => a.current \in AccessUnit
  BY DEF Assembler
<1>2. CASE StartsAccessUnitPrefix(type)
  BY <1>1, <1>2 DEF PushOtherNal, Assembled, Assembler
<1>3. CASE ~ StartsAccessUnitPrefix(type) /\ a.current = Nothing
  BY <1>1, <1>3 DEF PushOtherNal, Assembled, Assembler
<1>4. CASE ~ StartsAccessUnitPrefix(type) /\ a.current # Nothing
  <2>1. WithNal(a.current, n) \in AccessUnit
    BY <1>1, <1>4, WithNalFields
  <2>2. PushOtherNal(a, n, type)
          = Assembled([a EXCEPT !.current = WithNal(a.current, n)], Nothing)
    BY <1>4 DEF PushOtherNal, WithNal
  <2>3. QED
    BY <1>4, <2>1, <2>2 DEF Assembled, Assembler
<1>5. QED
  BY <1>2, <1>3, <1>4

LEMMA SliceOutcome ==
  ASSUME NEW a \in Assembler, NEW n \in Nat, NEW slice \in SliceHeaders
  PROVE  LET r == PushSlice(a, n, slice)
         IN  \/ /\ \/ a.current = Nothing
                   \/ StartsNewPrimaryCodedPicture(a.current.first_vcl, slice)
                /\ r.assembler = BeginPicture(a, n, slice)
                /\ r.completed = a.current
             \/ /\ a.current # Nothing
                /\ ~ StartsNewPrimaryCodedPicture(a.current.first_vcl, slice)
                /\ r.assembler.next_index = a.next_index
                /\ r.assembler.pending = a.pending
                /\ r.assembler.current = WithSlice(a.current, n, slice)
                /\ r.completed = Nothing
                /\ r.assembler \in Assembler
<1>1. CASE a.current = Nothing
  BY <1>1 DEF PushSlice, Assembled
<1>2. CASE a.current # Nothing /\ StartsNewPrimaryCodedPicture(a.current.first_vcl, slice)
  BY <1>2 DEF PushSlice, Assembled
<1>3. CASE a.current # Nothing /\ ~ StartsNewPrimaryCodedPicture(a.current.first_vcl, slice)
  <2>1. a.current \in AccessUnit
    BY <1>3 DEF Assembler
  <2>2. WithSlice(a.current, n, slice) \in AccessUnit
    BY <2>1, WithSliceFields
  <2>3. AddSlice(a, n, slice) = [a EXCEPT !.current = WithSlice(a.current, n, slice)]
    BY DEF AddSlice, WithSlice, Assembler
  <2>4. PushSlice(a, n, slice) = Assembled(AddSlice(a, n, slice), Nothing)
    BY <1>3 DEF PushSlice
  <2>5. QED
    BY <1>3, <2>2, <2>3, <2>4 DEF Assembled, Assembler
<1>4. QED
  BY <1>1, <1>2, <1>3

-----------------------------------------------------------------------------
(* What a step does to the invariant.                                      *)

LEMMA PicturesShape ==
  ASSUME StreamTypes
  PROVE  /\ assembler.current # Nothing => assembler.current \in AccessUnit
         /\ assembler.pending \in Seq(Nat)
         /\ Pictures \in Seq(AccessUnit) /\ Len(Pictures) \in Nat
         /\ Collect(access_units, assembler.current) = Pictures
         /\ assembler.current # Nothing =>
              Pictures # <<>> /\ Pictures[Len(Pictures)] = assembler.current
         /\ assembler.current = Nothing => Pictures = access_units
         /\ Places = PlacesOf(Pictures, assembler.pending)
<1>1. /\ assembler.current # Nothing => assembler.current \in AccessUnit
      /\ assembler.pending \in Seq(Nat)
      /\ access_units \in Seq(AccessUnit)
  BY DEF StreamTypes, Assembler
<1>2. Collect(access_units, assembler.current) = Pictures
  BY DEF Collect, Pictures
<1>3. Places = PlacesOf(Pictures, assembler.pending)
  BY DEF Places, PlacesOf
<1>4. CASE assembler.current = Nothing
  BY <1>1, <1>2, <1>3, <1>4 DEF Pictures
<1>5. CASE assembler.current # Nothing
  BY <1>1, <1>2, <1>3, <1>5 DEF Pictures
<1>6. QED
  BY <1>4, <1>5

(* The parts every push has in common.                                     *)
LEMMA PushTypes ==
  ASSUME StreamTypes, NEW nal \in NalUnits, Begin(nal)
  PROVE  /\ nal_units' = nal_units + 1 /\ nal_units' \in Nat
         /\ pushed' = Append(pushed, nal)
         /\ pushed' \in Seq(NalUnits) /\ Len(pushed') = nal_units'
         /\ pushed'[nal_units + 1] = nal
         /\ ~ finished /\ finished' = finished
         /\ \A index \in 0..(nal_units - 1) : pushed'[index + 1] = pushed[index + 1]
<1>1. nal_units \in Nat /\ pushed \in Seq(NalUnits) /\ Len(pushed) = nal_units
  BY DEF StreamTypes
<1>2. /\ nal_units' = nal_units + 1 /\ pushed' = Append(pushed, nal)
      /\ ~ finished /\ finished' = finished
  BY DEF Begin
<1>3. /\ Append(pushed, nal) \in Seq(NalUnits) /\ Len(Append(pushed, nal)) = nal_units + 1
      /\ Append(pushed, nal)[nal_units + 1] = nal
      /\ \A index \in 0..(nal_units - 1) : Append(pushed, nal)[index + 1] = pushed[index + 1]
  BY <1>1
<1>4. QED
  BY <1>1, <1>2, <1>3

LEMMA DiagnosedNals ==
  ASSUME StreamTypes
  PROVE  Diagnosed \subseteq 0..(nal_units - 1)
<1>1. \A i \in DOMAIN diagnostics : diagnostics[i] \in Diagnostic(nal_units)
  BY DEF StreamTypes
<1>2. QED
  BY <1>1 DEF Diagnosed, Diagnostic

LEMMA DiagnosticTypes ==
  ASSUME StreamTypes, NEW nal \in NalUnits, Begin(nal),
         \/ UNCHANGED diagnostics
         \/ \E error \in {SyntaxInvalid, NotFound} : RecordError(error)
  PROVE  /\ diagnostics' \in Seq(Diagnostic(nal_units'))
         /\ UNCHANGED diagnostics => Diagnosed' = Diagnosed
         /\ ~ UNCHANGED diagnostics => Diagnosed' = Diagnosed \cup {nal_units}
         /\ \A error \in {SyntaxInvalid, NotFound} :
              RecordError(error) => ~ UNCHANGED diagnostics
         /\ Diagnosed \subseteq 0..(nal_units - 1)
<1>1. diagnostics \in Seq(Diagnostic(nal_units)) /\ nal_units \in Nat
  BY DEF StreamTypes
<1>2. nal_units' = nal_units + 1
  BY PushTypes
<1>3. Diagnostic(nal_units) \subseteq Diagnostic(nal_units + 1)
  BY <1>1 DEF Diagnostic
<1>4. diagnostics \in Seq(Diagnostic(nal_units + 1))
  BY <1>1, <1>3
<1>5. Diagnosed \subseteq 0..(nal_units - 1)
  BY DiagnosedNals
<1>6. ASSUME NEW error \in {SyntaxInvalid, NotFound}, RecordError(error)
      PROVE  /\ diagnostics' \in Seq(Diagnostic(nal_units'))
             /\ ~ UNCHANGED diagnostics
             /\ Diagnosed' = Diagnosed \cup {nal_units}
  <2> DEFINE new == [nal_index |-> nal_units, code |-> error.code]
  <2>1. new \in Diagnostic(nal_units + 1) /\ new.nal_index = nal_units
    BY <1>1 DEF Diagnostic
  <2>2. diagnostics' = Append(diagnostics, new)
    BY <1>6 DEF RecordError
  <2> HIDE DEF new
  <2>3. /\ diagnostics' \in Seq(Diagnostic(nal_units + 1))
        /\ DOMAIN diagnostics' = DOMAIN diagnostics \cup {Len(diagnostics) + 1}
        /\ \A i \in DOMAIN diagnostics : diagnostics'[i] = diagnostics[i]
        /\ diagnostics'[Len(diagnostics) + 1] = new
        /\ Len(diagnostics) + 1 \notin DOMAIN diagnostics
    BY <1>4, <2>1, <2>2
  <2>4. Diagnosed' = Diagnosed \cup {nal_units}
    BY <2>1, <2>3 DEF Diagnosed
  <2>5. QED
    BY <1>2, <2>3, <2>4
<1>7. CASE UNCHANGED diagnostics
  BY <1>2, <1>4, <1>5, <1>6, <1>7 DEF Diagnosed
<1>8. QED
  BY <1>5, <1>6, <1>7

LEMMA ExcludedGrows ==
  ASSUME StreamTypes, NEW nal \in NalUnits, Begin(nal),
         \/ UNCHANGED diagnostics
         \/ \E error \in {SyntaxInvalid, NotFound} : RecordError(error)
  PROVE  Excluded' = IF ~ UNCHANGED diagnostics /\ nal.type \in {InvalidHeader, 1, 5}
                     THEN Excluded \cup {nal_units} ELSE Excluded
<1>1. /\ Diagnosed \subseteq 0..(nal_units - 1)
      /\ UNCHANGED diagnostics => Diagnosed' = Diagnosed
      /\ ~ UNCHANGED diagnostics => Diagnosed' = Diagnosed \cup {nal_units}
  BY DiagnosticTypes
<1>2. /\ pushed'[nal_units + 1] = nal
      /\ \A index \in 0..(nal_units - 1) : pushed'[index + 1] = pushed[index + 1]
  BY PushTypes
<1>3. Excluded' = {index \in Diagnosed' : pushed'[index + 1].type \in {InvalidHeader, 1, 5}}
  BY DEF Excluded
<1>4. \A index \in Diagnosed : pushed'[index + 1] = pushed[index + 1]
  BY <1>1, <1>2
<1>5. CASE UNCHANGED diagnostics
  BY <1>1, <1>3, <1>4, <1>5 DEF Excluded
<1>6. CASE ~ UNCHANGED diagnostics
  BY <1>1, <1>2, <1>3, <1>4, <1>6 DEF Excluded
<1>7. QED
  BY <1>5, <1>6

LEMMA PlacesGrow ==
  ASSUME StreamTypes, PlacesInv, NEW nal \in NalUnits, Begin(nal), Excluded' = Excluded,
         NEW g \in DOMAIN Places, \A h \in DOMAIN Places : h > g => Places[h] = <<>>,
         \/ Places' = Extension(Places, g, nal_units)
         \/ Places' = Append(Extension(Places, g, nal_units), <<>>)
  PROVE  PlacesInv'
<1> DEFINE n == nal_units
           Q == Extension(Places, g, n)
<1>1. n \in Nat /\ nal_units' = n + 1 /\ Excluded \subseteq 0..(n - 1)
  <2>1. Excluded \subseteq 0..(nal_units - 1)
    BY DiagnosedNals DEF Excluded
  <2>2. QED
    BY <2>1, PushTypes DEF StreamTypes
<1>2. Places \in Seq(Seq(Nat))
  BY PicturesShape, PlacesShape
<1>3. InOrder(Places) /\ AreBelow(Places, n) /\ Members(Places) = (0..(n - 1)) \ Excluded
  BY DEF PlacesInv
<1>4. InOrder(Q) /\ AreBelow(Q, n + 1) /\ Members(Q) = Members(Places) \cup {n}
  BY <1>1, <1>2, <1>3, PutLast
<1>5. Q \in Seq(Seq(Nat))
  <2>1. DOMAIN Places = 1..Len(Places) /\ Len(Places) \in Nat
    BY <1>2
  <2>2. QED
    BY <1>1, <1>2, <2>1, ExtensionShape
<1> HIDE DEF Q, n
<1>6. /\ InOrder(Places') /\ AreBelow(Places', n + 1)
      /\ Members(Places') = Members(Places) \cup {n}
  <2>1. CASE Places' = Q
    BY <1>4, <2>1
  <2>2. CASE Places' = Append(Q, <<>>)
    <3>1. n + 1 \in Nat
      BY <1>1
    <3>2. /\ InOrder(Append(Q, <<>>)) /\ AreBelow(Append(Q, <<>>), n + 1)
          /\ Members(Append(Q, <<>>)) = Members(Q)
      BY <1>4, <1>5, <3>1, OpenPlace
    <3>3. QED
      BY <1>4, <2>2, <3>2
  <2>3. QED
    BY <2>1, <2>2 DEF Q, n
<1>7. Members(Places') = (0..((n + 1) - 1)) \ Excluded
  <2>1. (0..((n + 1) - 1)) = (0..(n - 1)) \cup {n} /\ n \notin Excluded
    BY <1>1
  <2>2. QED
    BY <1>3, <1>6, <2>1
<1>8. QED
  BY <1>1, <1>6, <1>7 DEF PlacesInv

(* The NAL unit waits: no picture is open after it.                        *)
LEMMA WaitStep ==
  ASSUME StreamInv, StreamTypes', NEW nal \in NalUnits, Begin(nal), Excluded' = Excluded,
         assembler.current = Nothing \/ StartsAccessUnitPrefix(nal.type),
         assembler'.next_index = assembler.next_index,
         assembler'.pending = Append(assembler.pending, nal_units),
         assembler'.current = Nothing,
         access_units' = Collect(access_units, assembler.current)
  PROVE  StreamInv'
<1>1. /\ StreamTypes /\ PlacesInv /\ ArePictures(Pictures, pushed) /\ PictureIsEnded
      /\ assembler.next_index = Len(Pictures)
  BY DEF StreamInv
<1>2. /\ Pictures \in Seq(AccessUnit) /\ Len(Pictures) \in Nat
      /\ assembler.pending \in Seq(Nat)
      /\ access_units' = Pictures
      /\ Places = PlacesOf(Pictures, assembler.pending)
  BY <1>1, PicturesShape
<1>3. Pictures' = Pictures /\ Places' = PlacesOf(Pictures', assembler'.pending)
  <2>1. Pictures' = access_units'
    BY DEF Pictures
  <2>2. Places' = PlacesOf(Pictures', assembler'.pending)
    BY DEF Places, PlacesOf
  <2>3. QED
    BY <1>2, <2>1, <2>2
<1>4. nal_units \in Nat /\ pushed \in Seq(NalUnits) /\ Len(pushed) = nal_units
  BY <1>1 DEF StreamTypes
<1>5. PlacesInv'
  <2>1. Places' = Extension(Places, Len(Pictures) + 1, nal_units)
    BY <1>2, <1>3, <1>4, WaitPlaces
  <2>2. DOMAIN Places = 1..(Len(Pictures) + 1)
    BY <1>2, PlacesShape
  <2>3. /\ Len(Pictures) + 1 \in DOMAIN Places
        /\ \A h \in DOMAIN Places : h > Len(Pictures) + 1 => Places[h] = <<>>
    BY <1>2, <2>2
  <2>4. QED
    BY <1>1, <2>1, <2>3, PlacesGrow
<1>6. ArePictures(Pictures', pushed')
  BY <1>1, <1>3, <1>4, PushTypes, PicturesStay
<1>7. PictureIsEnded'
  <2> SUFFICES ASSUME Pictures # <<>>
               PROVE  PrefixBetween(Pictures[Len(Pictures)], nal_units' - 1, pushed')
    BY <1>2 DEF PictureIsEnded
  <2> DEFINE unit == Pictures[Len(Pictures)]
  <2>1. unit \in AccessUnit /\ Len(Pictures) \in DOMAIN Pictures
    BY <1>2
  <2>2. IsPicture(unit, Len(Pictures), pushed)
    BY <1>1, <2>1 DEF ArePictures
  <2>3. /\ pushed' = Append(pushed, nal) /\ nal_units' - 1 = Len(pushed)
        /\ pushed'[Len(pushed) + 1] = nal /\ ~ finished
    BY <1>1, <1>4, PushTypes
  <2>4. CASE assembler.current = Nothing
    <3>1. PrefixBetween(unit, nal_units - 1, pushed)
      BY <1>1, <2>3, <2>4, PicturesShape DEF PictureIsEnded
    <3>2. nal_units - 1 \in Int /\ nal_units - 1 < Len(pushed)
      BY <1>4
    <3> HIDE DEF unit
    <3>3. PrefixBetween(unit, Len(pushed), Append(pushed, nal))
      BY <1>4, <2>1, <2>2, <3>1, <3>2, PrefixStays
    <3>4. QED
      BY <2>3, <3>3 DEF unit
  <2>5. CASE StartsAccessUnitPrefix(nal.type)
    <3>1. unit.vcl_nal_indices[Len(unit.vcl_nal_indices)] \in 0..(Len(pushed) - 1)
      BY <1>4, <2>1, <2>2, SlicesOfPicture
    <3>2. Len(pushed) \in (unit.vcl_nal_indices[Len(unit.vcl_nal_indices)] + 1)..Len(pushed)
      BY <1>4, <3>1
    <3>3. IsPrefixNal(pushed', Len(pushed))
      BY <2>3, <2>5 DEF IsPrefixNal
    <3>4. QED
      BY <2>3, <3>2, <3>3 DEF PrefixBetween
  <2>6. QED
    BY <2>4, <2>5
<1>8. QED
  BY <1>1, <1>3, <1>5, <1>6, <1>7 DEF StreamInv

LEMMA LastReplaced ==
  ASSUME NEW S, NEW s \in Seq(S), NEW e \in S, NEW f \in S
  PROVE  Append(s, f) = [Append(s, e) EXCEPT ![Len(Append(s, e))] = f]
<1> DEFINE t == [Append(s, e) EXCEPT ![Len(Append(s, e))] = f]
<1>1. /\ Append(s, f) \in Seq(S) /\ DOMAIN Append(s, f) = 1..(Len(s) + 1)
      /\ \A i \in 1..(Len(s) + 1) : Append(s, f)[i] = IF i = Len(s) + 1 THEN f ELSE s[i]
      /\ Len(s) + 1 \in Nat
  OBVIOUS
<1>2. /\ t \in Seq(S) /\ DOMAIN t = 1..(Len(s) + 1)
      /\ \A i \in 1..(Len(s) + 1) : t[i] = IF i = Len(s) + 1 THEN f ELSE s[i]
  <2> DEFINE u == Append(s, e)
  <2>1. /\ u \in Seq(S) /\ DOMAIN u = 1..(Len(s) + 1) /\ Len(u) = Len(s) + 1
        /\ \A i \in 1..(Len(s) + 1) : i # Len(s) + 1 => u[i] = s[i]
    OBVIOUS
  <2> HIDE DEF u
  <2>2. t = [u EXCEPT ![Len(u)] = f]
    BY DEF u
  <2>3. QED
    BY <2>1, <2>2
<1> HIDE DEF t
<1>3. Append(s, f) = t
  BY <1>1, <1>2, SequencesEqual
<1>4. QED
  BY <1>3 DEF t

(* The NAL unit joins the open picture.                                    *)
LEMMA JoinStep ==
  ASSUME StreamInv, StreamTypes', NEW nal \in NalUnits, Begin(nal), Excluded' = Excluded,
         assembler.current # Nothing, ~ StartsAccessUnitPrefix(nal.type),
         NEW unit \in AccessUnit,
         unit.nal_indices = Append(assembler.current.nal_indices, nal_units),
         unit.first_vcl = assembler.current.first_vcl,
         unit.index = assembler.current.index,
         \/ unit.vcl_nal_indices = assembler.current.vcl_nal_indices
         \/ /\ unit.vcl_nal_indices = Append(assembler.current.vcl_nal_indices, nal_units)
            /\ nal.type = NalTypeOf(assembler.current.first_vcl),
         assembler'.next_index = assembler.next_index,
         assembler'.pending = assembler.pending,
         assembler'.current = unit,
         access_units' = access_units
  PROVE  StreamInv'
<1> DEFINE m == Len(Pictures)
           n == nal_units
           open == assembler.current
<1>1. /\ StreamTypes /\ PlacesInv /\ ArePictures(Pictures, pushed)
      /\ assembler.next_index = Len(Pictures)
      /\ assembler.pending = <<>>
  BY DEF StreamInv
<1>2. /\ Pictures \in Seq(AccessUnit) /\ m \in Nat
      /\ open \in AccessUnit
      /\ Pictures # <<>> /\ Pictures[m] = open
      /\ Places = PlacesOf(Pictures, <<>>)
  BY <1>1, PicturesShape
<1>3. n \in Nat /\ pushed \in Seq(NalUnits) /\ Len(pushed) = n /\ access_units \in Seq(AccessUnit)
  BY <1>1 DEF StreamTypes
<1>4. /\ Pictures' = [Pictures EXCEPT ![m] = unit]
      /\ Places' = PlacesOf(Pictures', <<>>)
  <2>1. unit # Nothing
    BY AccessUnitFields
  <2>2. Pictures' = Append(access_units, unit)
    BY <2>1 DEF Pictures
  <2>3. Pictures = Append(access_units, open)
    BY DEF Pictures
  <2>4. Append(access_units, unit) = [Append(access_units, open) EXCEPT
                                        ![Len(Append(access_units, open))] = unit]
    <3> HIDE DEF open
    <3>1. QED
      BY <1>2, <1>3, LastReplaced
  <2>5. Places' = PlacesOf(Pictures', assembler'.pending)
    BY DEF Places, PlacesOf
  <2>6. QED
    BY <1>1, <2>2, <2>3, <2>4, <2>5
<1>5. PlacesInv'
  <2>1. Places' = Extension(Places, m, n)
    BY <1>2, <1>3, <1>4, JoinPlaces
  <2>2. <<>> \in Seq(Nat)
    OBVIOUS
  <2>3. DOMAIN Places = 1..(m + 1) /\ Places[m + 1] = <<>>
    BY <1>2, <2>2, PlacesShape
  <2>4. m \in 1..(m + 1) /\ \A h \in 1..(m + 1) : h > m => h = m + 1
    BY <1>2
  <2>5. QED
    BY <1>1, <2>1, <2>3, <2>4, PlacesGrow
<1>6. /\ pushed' = Append(pushed, nal) /\ pushed' \in Seq(NalUnits)
      /\ Len(pushed') = n + 1 /\ pushed'[n + 1] = nal
  BY <1>1, PushTypes
<1>7. ArePictures(Pictures, pushed')
  BY <1>1, <1>3, <1>6, PicturesStay
<1>8. IsPicture(open, m, pushed')
  <2>1. m \in DOMAIN Pictures
    BY <1>2
  <2>2. QED
    BY <1>2, <1>7, <2>1 DEF ArePictures
<1>9. /\ open.vcl_nal_indices \in Seq(Nat) /\ open.nal_indices \in Seq(Nat)
      /\ open.vcl_nal_indices # <<>>
  BY <1>2, <1>8, AccessUnitFields DEF IsPicture
<1>10. /\ unit.vcl_nal_indices # <<>>
       /\ unit.vcl_nal_indices[1] = open.vcl_nal_indices[1]
       /\ \A j \in DOMAIN unit.vcl_nal_indices :
            \/ j \in DOMAIN open.vcl_nal_indices /\ unit.vcl_nal_indices[j] = open.vcl_nal_indices[j]
            \/ unit.vcl_nal_indices[j] = n /\ nal.type = NalTypeOf(open.first_vcl)
  <2>1. CASE unit.vcl_nal_indices = open.vcl_nal_indices
    BY <1>9, <2>1
  <2>2. CASE /\ unit.vcl_nal_indices = Append(open.vcl_nal_indices, n)
             /\ nal.type = NalTypeOf(open.first_vcl)
    <3> DEFINE v == open.vcl_nal_indices
               w == unit.vcl_nal_indices
    <3>1. v \in Seq(Nat) /\ v # <<>> /\ w = Append(v, n)
      BY <1>9, <2>2
    <3> HIDE DEF v, w
    <3>2. /\ w # <<>> /\ w[1] = v[1]
          /\ \A j \in DOMAIN w : (j \in DOMAIN v /\ w[j] = v[j]) \/ w[j] = n
      BY <1>3, <3>1
    <3>3. QED
      BY <2>2, <3>2 DEF v, w
  <2>3. QED
    BY <2>1, <2>2
<1>11. \A j \in DOMAIN unit.nal_indices :
            \/ j \in DOMAIN open.nal_indices /\ unit.nal_indices[j] = open.nal_indices[j]
            \/ unit.nal_indices[j] = n
  BY <1>3, <1>9
<1>12. ~ IsPrefixNal(pushed', n)
  BY <1>6 DEF IsPrefixNal
<1> HIDE DEF m, n, open
<1>13. IsPicture(unit, m, pushed')
  <2>1. ASSUME NEW j \in DOMAIN unit.vcl_nal_indices
        PROVE  /\ unit.vcl_nal_indices[j] < Len(pushed')
               /\ pushed'[unit.vcl_nal_indices[j] + 1].type = NalTypeOf(unit.first_vcl)
    <3>1. CASE j \in DOMAIN open.vcl_nal_indices /\ unit.vcl_nal_indices[j] = open.vcl_nal_indices[j]
      BY <1>8, <3>1 DEF IsPicture, open
    <3>2. CASE unit.vcl_nal_indices[j] = n /\ nal.type = NalTypeOf(open.first_vcl)
      BY <1>3, <1>6, <3>2 DEF open
    <3>3. QED
      BY <1>10, <3>1, <3>2
  <2>2. ASSUME NEW j \in DOMAIN unit.nal_indices
        PROVE  /\ unit.nal_indices[j] < Len(pushed')
               /\ IsPrefixNal(pushed', unit.nal_indices[j])
                    => unit.nal_indices[j] < unit.vcl_nal_indices[1]
    <3>1. CASE j \in DOMAIN open.nal_indices /\ unit.nal_indices[j] = open.nal_indices[j]
      BY <1>8, <1>10, <3>1 DEF IsPicture
    <3>2. CASE unit.nal_indices[j] = n
      BY <1>3, <1>6, <1>12, <3>2
    <3>3. QED
      BY <1>11, <3>1, <3>2
  <2>3. unit.index = m - 1
    BY <1>8 DEF IsPicture, open
  <2>4. QED
    BY <1>10, <2>1, <2>2, <2>3 DEF IsPicture
<1>14. ArePictures(Pictures', pushed')
  BY <1>2, <1>4, <1>7, <1>10, <1>13, PictureJoined DEF m, open
<1>15. /\ assembler'.next_index = Len(Pictures') /\ assembler'.current # Nothing
       /\ assembler'.pending = <<>> /\ ~ finished'
  <2>1. Len([Pictures EXCEPT ![m] = unit]) = m
    BY <1>2 DEF m
  <2>2. QED
    BY <1>1, <1>4, <2>1, PushTypes, AccessUnitFields DEF m
<1>16. QED
  BY <1>5, <1>14, <1>15 DEF StreamInv, PictureIsEnded

(* The NAL unit is a slice that begins a picture.                          *)
LEMMA BeginStep ==
  ASSUME StreamInv, StreamTypes', NEW nal \in NalUnits, Begin(nal), Excluded' = Excluded,
         NEW slice \in SliceHeaders, nal.type = NalTypeOf(slice),
         \/ assembler.current = Nothing
         \/ StartsNewPrimaryCodedPicture(assembler.current.first_vcl, slice),
         assembler' = BeginPicture(assembler, nal_units, slice),
         access_units' = Collect(access_units, assembler.current)
  PROVE  StreamInv'
<1> DEFINE m == Len(Pictures)
           n == nal_units
           unit == assembler'.current
           pending == assembler.pending
<1>1. /\ StreamTypes /\ PlacesInv /\ ArePictures(Pictures, pushed) /\ PictureIsEnded
      /\ assembler.next_index = Len(Pictures)
  BY DEF StreamInv
<1>2. /\ Pictures \in Seq(AccessUnit) /\ m \in Nat
      /\ pending \in Seq(Nat)
      /\ access_units' = Pictures
      /\ Places = PlacesOf(Pictures, pending)
  BY <1>1, PicturesShape
<1>3. n \in Nat /\ pushed \in Seq(NalUnits) /\ Len(pushed) = n /\ assembler \in Assembler
  BY <1>1 DEF StreamTypes
<1>4. /\ assembler'.next_index = m + 1 /\ assembler'.pending = <<>>
      /\ unit \in AccessUnit
      /\ unit.nal_indices = Append(pending, n)
      /\ unit.vcl_nal_indices = <<n>>
      /\ unit.first_vcl = slice
      /\ unit.index = m
  BY <1>1, <1>3, NewPictureFields
<1>5. /\ pushed' = Append(pushed, nal) /\ pushed' \in Seq(NalUnits)
      /\ Len(pushed') = n + 1 /\ pushed'[n + 1] = nal
      /\ ~ finished /\ ~ finished'
  BY <1>1, PushTypes
<1>6. unit # Nothing
  BY <1>4, AccessUnitFields
<1>7. Pictures' = Append(Pictures, unit) /\ Places' = PlacesOf(Pictures', <<>>)
  <2>1. Places' = PlacesOf(Pictures', assembler'.pending)
    BY DEF Places, PlacesOf
  <2>2. QED
    BY <1>2, <1>4, <1>6, <2>1 DEF Pictures
<1>8. PlacesInv'
  <2> HIDE DEF unit
  <2>1. Places' = Append(Extension(Places, m + 1, n), <<>>)
    <3>1. Places' = Append(PlacesOf(Pictures, Append(pending, n)), <<>>)
      BY <1>2, <1>3, <1>4, <1>7, BeginPlaces
    <3>2. PlacesOf(Pictures, Append(pending, n)) = Extension(Places, m + 1, n)
      BY <1>2, <1>3, WaitPlaces
    <3>3. QED
      BY <3>1, <3>2
  <2>2. DOMAIN Places = 1..(m + 1)
    BY <1>2, PlacesShape
  <2>3. /\ m + 1 \in DOMAIN Places
        /\ \A h \in DOMAIN Places : h > m + 1 => Places[h] = <<>>
    BY <1>2, <2>2
  <2>4. QED
    BY <1>1, <2>1, <2>3, PlacesGrow
<1>9. ArePictures(Pictures, pushed')
  BY <1>1, <1>3, <1>5, PicturesStay
<1>10. \A i \in DOMAIN pending : pending[i] \in Nat /\ pending[i] < n
  <2>1. m + 1 \in DOMAIN Places /\ Places[m + 1] = pending
    BY <1>2, PlacesShape
  <2>2. AreBelow(Places, n)
    BY <1>1 DEF PlacesInv
  <2>3. QED
    BY <1>2, <2>1, <2>2 DEF AreBelow
<1>11. \A j \in DOMAIN unit.nal_indices :
         (unit.nal_indices[j] \in Nat /\ unit.nal_indices[j] < n) \/ unit.nal_indices[j] = n
  <2>1. /\ DOMAIN Append(pending, n) = DOMAIN pending \cup {Len(pending) + 1}
        /\ \A i \in DOMAIN pending : Append(pending, n)[i] = pending[i]
        /\ Append(pending, n)[Len(pending) + 1] = n
    BY <1>2, <1>3, AppendedElements
  <2> HIDE DEF pending, n, unit
  <2>2. QED
    BY <1>4, <1>10, <2>1
<1>12. ~ IsPrefixNal(pushed', n)
  BY <1>5 DEF IsPrefixNal, StartsAccessUnitPrefix, NalTypeOf
<1>13. /\ unit.vcl_nal_indices # <<>> /\ unit.vcl_nal_indices[1] = n
       /\ \A j \in DOMAIN unit.vcl_nal_indices : unit.vcl_nal_indices[j] = n
  BY <1>4
<1>14. unit.vcl_nal_indices[1] = Len(pushed)
  BY <1>3, <1>13
<1>15. Pictures # <<>> => Separates(Pictures[m], unit, pushed')
  <2> SUFFICES ASSUME Pictures # <<>> PROVE Separates(Pictures[m], unit, pushed')
    OBVIOUS
  <2>1. CASE assembler.current = Nothing
    <3> DEFINE before == Pictures[m]
    <3>1. before \in AccessUnit /\ m \in DOMAIN Pictures
      BY <1>2
    <3>2. IsPicture(before, m, pushed)
      BY <1>1, <3>1 DEF ArePictures
    <3>3. PrefixBetween(before, n - 1, pushed)
      BY <1>1, <1>5, <2>1, PicturesShape DEF PictureIsEnded
    <3>4. n - 1 \in Int /\ n - 1 < Len(pushed)
      BY <1>3
    <3> HIDE DEF before
    <3>5. PrefixBetween(before, Len(pushed), Append(pushed, nal))
      BY <1>3, <3>1, <3>2, <3>3, <3>4, PrefixStays
    <3>6. QED
      BY <1>5, <1>14, <3>5 DEF Separates, before
  <2>2. CASE assembler.current # Nothing
    <3>1. Pictures[m] = assembler.current
      BY <1>1, <2>2, PicturesShape
    <3>2. QED
      BY <1>4, <2>2, <3>1 DEF Separates
  <2>3. QED
    BY <2>1, <2>2
<1> HIDE DEF m, n, unit
<1>16. IsPicture(unit, m + 1, pushed')
  <2>1. ASSUME NEW j \in DOMAIN unit.vcl_nal_indices
        PROVE  /\ unit.vcl_nal_indices[j] < Len(pushed')
               /\ pushed'[unit.vcl_nal_indices[j] + 1].type = NalTypeOf(unit.first_vcl)
    BY <1>3, <1>4, <1>5, <1>13 DEF n
  <2>2. ASSUME NEW j \in DOMAIN unit.nal_indices
        PROVE  /\ unit.nal_indices[j] < Len(pushed')
               /\ IsPrefixNal(pushed', unit.nal_indices[j])
                    => unit.nal_indices[j] < unit.vcl_nal_indices[1]
    BY <1>3, <1>5, <1>11, <1>12, <1>13
  <2>3. unit.index = (m + 1) - 1
    BY <1>2, <1>4
  <2>4. QED
    BY <1>13, <2>1, <2>2, <2>3 DEF IsPicture
<1>17. ArePictures(Pictures', pushed')
  BY <1>4, <1>7, <1>9, <1>15, <1>16, PictureBegun DEF m
<1>18. assembler'.next_index = Len(Pictures')
  BY <1>2, <1>4, <1>7 DEF m
<1>19. QED
  BY <1>4, <1>5, <1>6, <1>8, <1>17, <1>18 DEF StreamInv, PictureIsEnded, unit

-----------------------------------------------------------------------------
(* The actions.                                                            *)

LEMMA SliceIsRead ==
  ASSUME StreamTypes, NEW nal \in NalUnits, IsSupportedVcl(nal.type),
         ~ IsError(ReadSlice(nal, sps, pps))
  PROVE  /\ ReadSlice(nal, sps, pps) \in SliceHeaders
         /\ nal.type = NalTypeOf(ReadSlice(nal, sps, pps))
<1> DEFINE picture == Find(pps, nal.pps_id)
           sequence == Find(sps, picture.sps_id)
           formats == <<sequence.format, picture.format>>
           reading == nal.read[formats]
<1>1. /\ nal.pps_id # NoId /\ picture # Nothing /\ sequence # Nothing
      /\ reading # Malformed
      /\ ReadSlice(nal, sps, pps) = reading
  BY DEF ReadSlice, IsError
<1>2. /\ sequence \in {Nothing} \cup {set.sps : set \in ReadableSps}
      /\ picture \in {Nothing} \cup PpsRead
  BY DEF StreamTypes, Find, SpsRegistry, PpsRegistry
<1>3. PICK set \in ReadableSps : sequence = set.sps
  BY <1>1, <1>2
<1>4. PICK unit \in IdentifiedPps :
        \E chroma \in DOMAIN unit.read :
          picture = unit.read[chroma] /\ unit.read[chroma] # Malformed
  BY <1>1, <1>2 DEF PpsRead
<1>5. PICK chroma \in DOMAIN unit.read :
        picture = unit.read[chroma] /\ unit.read[chroma] # Malformed
  BY <1>4
<1>6. nal \in SupportedVcl
  BY DEF SupportedVcl
<1>7. formats \in DOMAIN nal.read /\ (reading.idr <=> nal.type = 5)
  <2> HIDE DEF sequence, picture
  <2>1. nal \in {other \in NalUnits : IsSupportedVcl(other.type)}
    OBVIOUS
  <2>2. /\ set \in {other \in NalUnits : other.type = 7 /\ other.sps # Malformed}
        /\ sequence.format = set.sps.format
    BY <1>3 DEF ReadableSps
  <2>3. unit \in {other \in NalUnits : other.type = 8 /\ other.ids # Malformed}
    BY DEF IdentifiedPps
  <2>4. <<set.sps.format, unit.read[chroma].format>> \in DOMAIN nal.read
    BY <1>5, <2>1, <2>2, <2>3, StreamModelAssumption
  <2>5. formats \in DOMAIN nal.read
    BY <1>5, <2>2, <2>4
  <2>6. \A pair \in DOMAIN nal.read :
          nal.read[pair] # Malformed => (nal.read[pair].idr <=> nal.type = 5)
    BY <2>1, StreamModelAssumption
  <2> HIDE DEF formats
  <2>7. QED
    BY <1>1, <2>5, <2>6
<1> HIDE DEF formats
<1>8. reading \in SliceHeaders
  BY <1>1, <1>6, <1>7 DEF SliceHeaders
<1>9. nal.type = NalTypeOf(reading)
  BY <1>7 DEF NalTypeOf, IsSupportedVcl
<1>10. QED
  BY <1>1, <1>8, <1>9

(* A PPS that could be read with the SPS at hand is one of the readings.   *)
LEMMA PpsIsRead ==
  ASSUME StreamTypes, NEW nal \in NalUnits, nal.type = 8, ~ IsError(ReadPps(nal, sps))
  PROVE  ReadPps(nal, sps) \in PpsRead
<1> DEFINE referenced == Find(sps, nal.ids.sps_id)
<1>1. /\ nal.ids # Malformed /\ referenced # Nothing
      /\ nal.read[referenced.chroma] # Malformed
      /\ ReadPps(nal, sps) = nal.read[referenced.chroma]
  BY DEF ReadPps, IsError
<1>2. PICK set \in ReadableSps : referenced = set.sps
  BY <1>1 DEF StreamTypes, Find, SpsRegistry
<1> HIDE DEF referenced
<1>3. nal \in {other \in NalUnits : other.type = 8 /\ other.ids # Malformed}
  BY <1>1
<1>4. set \in {other \in NalUnits : other.type = 7 /\ other.sps # Malformed}
  BY DEF ReadableSps
<1>5. referenced.chroma \in DOMAIN nal.read
  BY <1>2, <1>3, <1>4, StreamModelAssumption
<1>6. QED
  BY <1>1, <1>3, <1>5 DEF PpsRead, IdentifiedPps

(* What the assembler does to its types.                                   *)
LEMMA CollectTypes ==
  ASSUME StreamTypes, NEW completed \in {assembler.current, Nothing}
  PROVE  Collect(access_units, completed) \in Seq(AccessUnit)
<1>1. /\ assembler.current # Nothing => assembler.current \in AccessUnit
      /\ access_units \in Seq(AccessUnit)
  BY DEF StreamTypes, Assembler
<1>2. QED
  BY <1>1 DEF Collect

(* A NAL unit that has no place.                                           *)
LEMMA ExclusionStep ==
  ASSUME StreamInv, NEW nal \in NalUnits, Begin(nal),
         NEW error \in {SyntaxInvalid, NotFound}, RecordError(error),
         nal.type \in {InvalidHeader, 1, 5},
         UNCHANGED <<sps, pps, assembler, access_units>>
  PROVE  StreamInv'
<1>1. /\ StreamTypes /\ PlacesInv /\ ArePictures(Pictures, pushed) /\ PictureIsEnded
      /\ assembler.next_index = Len(Pictures)
      /\ assembler.current # Nothing => assembler.pending = <<>> /\ ~ finished
  BY DEF StreamInv
<1>2. /\ nal_units \in Nat /\ nal_units' = nal_units + 1 /\ nal_units' \in Nat
      /\ pushed \in Seq(NalUnits) /\ Len(pushed) = nal_units
      /\ pushed' = Append(pushed, nal)
      /\ pushed' \in Seq(NalUnits) /\ Len(pushed') = nal_units'
      /\ ~ finished /\ finished' = finished
  BY <1>1, PushTypes DEF StreamTypes
<1>3. /\ diagnostics' \in Seq(Diagnostic(nal_units'))
      /\ Excluded' = Excluded \cup {nal_units}
      /\ Excluded \subseteq 0..(nal_units - 1)
  BY <1>1, DiagnosticTypes, ExcludedGrows DEF Excluded
<1>4. StreamTypes'
  BY <1>1, <1>2, <1>3 DEF StreamTypes
<1>5. Pictures' = Pictures /\ Places' = Places
  BY DEF Pictures, Places
<1>6. PlacesInv'
  <2>1. (0..(nal_units' - 1)) \ Excluded' = (0..(nal_units - 1)) \ Excluded
    BY <1>2, <1>3
  <2>2. AreBelow(Places, nal_units')
    <3>1. Places \in Seq(Seq(Nat))
      BY <1>1, PicturesShape, PlacesShape
    <3>2. \A g \in DOMAIN Places : \A i \in DOMAIN Places[g] : Places[g][i] \in Nat
      <4>1. \A g \in DOMAIN Places : Places[g] \in Seq(Nat)
        BY <3>1
      <4>2. QED
        BY <4>1
    <3>3. AreBelow(Places, nal_units)
      BY <1>1 DEF PlacesInv
    <3>4. QED
      BY <1>2, <3>2, <3>3 DEF AreBelow
  <2>3. QED
    BY <1>1, <1>5, <2>1, <2>2 DEF PlacesInv
<1>7. ArePictures(Pictures, pushed')
  BY <1>1, <1>2, PicturesStay
<1>8. PictureIsEnded'
  <2> SUFFICES ASSUME assembler.current = Nothing, access_units # <<>>
               PROVE  PrefixBetween(access_units[Len(access_units)], nal_units' - 1, pushed')
    BY DEF PictureIsEnded
  <2> DEFINE unit == access_units[Len(access_units)]
  <2>1. Pictures = access_units /\ access_units \in Seq(AccessUnit)
    BY <1>1, PicturesShape
  <2>2. unit \in AccessUnit /\ Len(access_units) \in DOMAIN access_units
    BY <2>1
  <2>3. IsPicture(unit, Len(access_units), pushed)
    BY <1>1, <2>1, <2>2 DEF ArePictures
  <2>4. PrefixBetween(unit, nal_units - 1, pushed)
    BY <1>1, <1>2 DEF PictureIsEnded
  <2>5. nal_units - 1 \in Int /\ nal_units - 1 < Len(pushed) /\ nal_units' - 1 = Len(pushed)
    BY <1>2
  <2> HIDE DEF unit
  <2>6. PrefixBetween(unit, Len(pushed), Append(pushed, nal))
    BY <1>2, <2>2, <2>3, <2>4, <2>5, PrefixStays
  <2>7. QED
    BY <1>2, <2>5, <2>6 DEF unit
<1>9. QED
  BY <1>1, <1>2, <1>4, <1>5, <1>6, <1>7, <1>8 DEF StreamInv

(* A NAL unit that goes to the assembler without a slice header.           *)
LEMMA OtherNalStep ==
  ASSUME StreamInv, NEW nal \in NalUnits, Begin(nal), AcceptNonVcl(nal),
         nal.type \notin {InvalidHeader, 1, 5},
         \/ UNCHANGED diagnostics
         \/ \E error \in {SyntaxInvalid, NotFound} : RecordError(error),
         sps' \in SpsRegistry, pps' \in PpsRegistry
  PROVE  StreamInv'
<1> DEFINE r == PushOtherNal(assembler, nal_units, nal.type)
<1>1. /\ StreamTypes /\ assembler \in Assembler /\ nal_units \in Nat
      /\ access_units \in Seq(AccessUnit) /\ finished \in BOOLEAN
  BY DEF StreamInv, StreamTypes
<1>2. assembler' = r.assembler /\ access_units' = Collect(access_units, r.completed)
  BY DEF AcceptNonVcl, Accept
<1>3. Excluded' = Excluded /\ diagnostics' \in Seq(Diagnostic(nal_units'))
  BY <1>1, ExcludedGrows, DiagnosticTypes
<1>4. /\ nal_units' \in Nat /\ pushed' \in Seq(NalUnits) /\ Len(pushed') = nal_units'
      /\ finished' = finished
  BY <1>1, PushTypes
<1> HIDE DEF r
<1>5. CASE /\ assembler.current = Nothing \/ StartsAccessUnitPrefix(nal.type)
           /\ r.assembler.next_index = assembler.next_index
           /\ r.assembler.pending = Append(assembler.pending, nal_units)
           /\ r.assembler.current = Nothing
           /\ r.completed = assembler.current
           /\ r.assembler \in Assembler
  <2>1. access_units' \in Seq(AccessUnit)
    BY <1>1, <1>2, <1>5, CollectTypes
  <2>2. StreamTypes'
    BY <1>1, <1>2, <1>3, <1>4, <1>5, <2>1 DEF StreamTypes
  <2>3. QED
    BY <1>2, <1>3, <1>5, <2>2, WaitStep
<1>6. CASE /\ assembler.current # Nothing /\ ~ StartsAccessUnitPrefix(nal.type)
           /\ r.assembler.next_index = assembler.next_index
           /\ r.assembler.pending = assembler.pending
           /\ r.assembler.current = WithNal(assembler.current, nal_units)
           /\ r.completed = Nothing
           /\ r.assembler \in Assembler
  <2>1. access_units' = access_units
    BY <1>2, <1>6 DEF Collect
  <2>2. StreamTypes'
    BY <1>1, <1>2, <1>3, <1>4, <1>6, <2>1 DEF StreamTypes
  <2>3. assembler.current \in AccessUnit
    BY <1>1, <1>6, PicturesShape
  <2> DEFINE unit == WithNal(assembler.current, nal_units)
  <2>4. /\ unit \in AccessUnit
        /\ unit.nal_indices = Append(assembler.current.nal_indices, nal_units)
        /\ unit.vcl_nal_indices = assembler.current.vcl_nal_indices
        /\ unit.first_vcl = assembler.current.first_vcl
        /\ unit.index = assembler.current.index
    BY <1>1, <2>3, WithNalFields
  <2>5. assembler'.current = unit
    BY <1>2, <1>6
  <2> HIDE DEF unit
  <2>6. QED
    BY <1>2, <1>3, <1>6, <2>1, <2>2, <2>4, <2>5, JoinStep
<1>7. QED
  BY <1>1, <1>5, <1>6, OtherNalOutcome DEF r

(* A slice that could be read.                                             *)
LEMMA SliceStep ==
  ASSUME StreamInv, NEW nal \in NalUnits, Begin(nal),
         NEW slice \in SliceHeaders, nal.type = NalTypeOf(slice),
         Accept(PushSlice(assembler, nal_units, slice)),
         UNCHANGED <<diagnostics, sps, pps>>
  PROVE  StreamInv'
<1> DEFINE r == PushSlice(assembler, nal_units, slice)
<1>1. /\ StreamTypes /\ assembler \in Assembler /\ nal_units \in Nat
      /\ access_units \in Seq(AccessUnit) /\ finished \in BOOLEAN
      /\ sps \in SpsRegistry /\ pps \in PpsRegistry
  BY DEF StreamInv, StreamTypes
<1>2. assembler' = r.assembler /\ access_units' = Collect(access_units, r.completed)
  BY DEF Accept
<1>3. Excluded' = Excluded /\ diagnostics' \in Seq(Diagnostic(nal_units'))
  BY <1>1, ExcludedGrows, DiagnosticTypes
<1>4. /\ nal_units' \in Nat /\ pushed' \in Seq(NalUnits) /\ Len(pushed') = nal_units'
      /\ finished' = finished
  BY <1>1, PushTypes
<1>5. ~ StartsAccessUnitPrefix(nal.type)
  BY DEF NalTypeOf, StartsAccessUnitPrefix
<1> HIDE DEF r
<1>6. CASE /\ \/ assembler.current = Nothing
              \/ StartsNewPrimaryCodedPicture(assembler.current.first_vcl, slice)
           /\ r.assembler = BeginPicture(assembler, nal_units, slice)
           /\ r.completed = assembler.current
  <2>1. access_units' \in Seq(AccessUnit)
    BY <1>1, <1>2, <1>6, CollectTypes
  <2>2. assembler' \in Assembler
    BY <1>1, <1>2, <1>6, NewPictureFields
  <2>3. StreamTypes'
    BY <1>1, <1>3, <1>4, <2>1, <2>2 DEF StreamTypes
  <2>4. QED
    BY <1>2, <1>3, <1>6, <2>3, BeginStep
<1>7. CASE /\ assembler.current # Nothing
           /\ ~ StartsNewPrimaryCodedPicture(assembler.current.first_vcl, slice)
           /\ r.assembler.next_index = assembler.next_index
           /\ r.assembler.pending = assembler.pending
           /\ r.assembler.current = WithSlice(assembler.current, nal_units, slice)
           /\ r.completed = Nothing
           /\ r.assembler \in Assembler
  <2>1. access_units' = access_units
    BY <1>2, <1>7 DEF Collect
  <2>2. StreamTypes'
    BY <1>1, <1>2, <1>3, <1>4, <1>7, <2>1 DEF StreamTypes
  <2>3. assembler.current \in AccessUnit
    BY <1>1, <1>7, PicturesShape
  <2> DEFINE unit == WithSlice(assembler.current, nal_units, slice)
  <2>4. /\ unit \in AccessUnit
        /\ unit.nal_indices = Append(assembler.current.nal_indices, nal_units)
        /\ unit.vcl_nal_indices = Append(assembler.current.vcl_nal_indices, nal_units)
        /\ unit.first_vcl = assembler.current.first_vcl
        /\ unit.index = assembler.current.index
    BY <1>1, <2>3, WithSliceFields
  <2>5. assembler'.current = unit
    BY <1>2, <1>7
  <2>6. nal.type = NalTypeOf(assembler.current.first_vcl)
    BY <1>7 DEF StartsNewPrimaryCodedPicture, NalTypeOf
  <2> HIDE DEF unit
  <2>7. QED
    BY <1>2, <1>3, <1>5, <1>7, <2>1, <2>2, <2>4, <2>5, <2>6, JoinStep
<1>8. QED
  BY <1>1, <1>6, <1>7, SliceOutcome DEF r

LEMMA StreamInitInv == Init => StreamInv
<1> SUFFICES ASSUME Init PROVE StreamInv
  OBVIOUS
<1>1. StreamTypes
  <2>1. NewAssembler \in Assembler
    BY DEF NewAssembler, Assembler
  <2>2. /\ sps = [id \in SpsIds |-> Nothing] /\ pps = [id \in PpsIds |-> Nothing]
        /\ assembler = NewAssembler /\ nal_units = 0
        /\ access_units = <<>> /\ diagnostics = <<>> /\ finished = FALSE /\ pushed = <<>>
    BY DEF Init
  <2>3. sps \in SpsRegistry /\ pps \in PpsRegistry
    BY <2>2 DEF SpsRegistry, PpsRegistry
  <2>4. /\ access_units \in Seq(AccessUnit) /\ diagnostics \in Seq(Diagnostic(nal_units))
        /\ pushed \in Seq(NalUnits) /\ Len(pushed) = nal_units
    BY <2>2
  <2>5. assembler \in Assembler /\ nal_units \in Nat /\ finished \in BOOLEAN
    BY <2>1, <2>2
  <2>6. QED
    BY <2>3, <2>4, <2>5, Zenon DEF StreamTypes
<1>2. Pictures = <<>> /\ assembler.next_index = 0 /\ assembler.pending = <<>>
      /\ assembler.current = Nothing /\ nal_units = 0 /\ access_units = <<>>
  BY DEF Init, NewAssembler, Pictures
<1>3. Places = PlacesOf(Pictures, assembler.pending)
  BY <1>1, PicturesShape
<1>4. DOMAIN Places = 1..1 /\ Places[1] = <<>>
  BY <1>2, <1>3 DEF PlacesOf
<1>5. \A g \in DOMAIN Places : DOMAIN Places[g] = {} /\ ToSet(Places[g]) = {}
  BY <1>4 DEF ToSet
<1>6. Excluded = {} /\ (0..(nal_units - 1)) = {}
  BY <1>2 DEF Init, Excluded, Diagnosed
<1>7. PlacesInv
  BY <1>5, <1>6 DEF PlacesInv, InOrder, AreBelow, Members
<1>8. ArePictures(Pictures, pushed)
  BY <1>2 DEF ArePictures
<1>9. QED
  BY <1>1, <1>2, <1>7, <1>8 DEF StreamInv, PictureIsEnded

LEMMA FinishInv == StreamInv /\ Finish => StreamInv'
<1> SUFFICES ASSUME StreamInv, Finish PROVE StreamInv'
  OBVIOUS
<1>1. /\ StreamTypes /\ PlacesInv /\ ArePictures(Pictures, pushed)
      /\ assembler.next_index = Len(Pictures)
  BY DEF StreamInv
<1>2. /\ assembler \in Assembler
      /\ access_units' = Collect(access_units, assembler.current)
      /\ assembler' = [assembler EXCEPT !.current = Nothing]
      /\ finished' = TRUE
      /\ UNCHANGED <<sps, pps, nal_units, diagnostics, pushed>>
  BY <1>1 DEF Finish, Accept, FinishAssembler, Assembled, parameterVars, StreamTypes
<1>3. /\ assembler' \in Assembler
      /\ assembler'.pending = assembler.pending /\ assembler'.current = Nothing
      /\ assembler'.next_index = assembler.next_index
  BY <1>2 DEF Assembler
<1>4. access_units' = Pictures /\ access_units' \in Seq(AccessUnit)
  BY <1>1, <1>2, PicturesShape
<1>5. StreamTypes'
  BY <1>1, <1>2, <1>3, <1>4 DEF StreamTypes
<1>6. Pictures' = Pictures
  BY <1>3, <1>4 DEF Pictures
<1>7. Places' = Places
  BY <1>3, <1>6 DEF Places
<1>8. Excluded' = Excluded
  BY <1>2 DEF Excluded, Diagnosed
<1>9. QED
  BY <1>1, <1>2, <1>3, <1>5, <1>6, <1>7, <1>8
     DEF StreamInv, PlacesInv, PictureIsEnded

LEMMA PushInv ==
  ASSUME StreamInv, NEW nal \in NalUnits, Push(nal)
  PROVE  StreamInv'
<1>1. StreamTypes /\ sps \in SpsRegistry /\ pps \in PpsRegistry
  BY DEF StreamInv, StreamTypes
<1>2. CASE PushInvalid(nal)
  BY <1>2, ExclusionStep DEF PushInvalid, parameterVars
<1>3. CASE PushSps(nal)
  <2>1. sps' \in SpsRegistry
    <3>1. CASE nal.sps = Malformed
      BY <1>1, <1>3, <3>1 DEF PushSps
    <3>2. CASE nal.sps # Malformed
      <4>1. nal.sps \in {set.sps : set \in ReadableSps}
        BY <1>3, <3>2 DEF PushSps, ReadableSps
      <4>2. sps' = Store(sps, nal.sps.id, nal.sps)
        BY <1>3, <3>2 DEF PushSps
      <4>3. QED
        BY <1>1, <4>1, <4>2 DEF Store, SpsRegistry
    <3>3. QED
      BY <3>1, <3>2
  <2>2. /\ Begin(nal) /\ AcceptNonVcl(nal) /\ nal.type \notin {InvalidHeader, 1, 5}
        /\ \/ UNCHANGED diagnostics
           \/ \E error \in {SyntaxInvalid, NotFound} : RecordError(error)
        /\ pps' = pps
    BY <1>3 DEF PushSps, InvalidHeader
  <2>3. QED
    BY <1>1, <2>1, <2>2, OtherNalStep
<1>4. CASE PushPps(nal)
  <2>1. /\ Begin(nal) /\ AcceptNonVcl(nal) /\ nal.type \notin {InvalidHeader, 1, 5}
        /\ \/ UNCHANGED diagnostics
           \/ \E error \in {SyntaxInvalid, NotFound} : RecordError(error)
        /\ sps' = sps
    BY <1>4 DEF PushPps, InvalidHeader, IsError
  <2> DEFINE reading == ReadPps(nal, sps)
  <2>2. pps' \in PpsRegistry
    <3>1. CASE IsError(reading)
      BY <1>1, <1>4, <3>1 DEF PushPps
    <3>2. CASE ~ IsError(reading)
      <4>1. reading \in PpsRead
        BY <1>1, <1>4, <3>2, PpsIsRead DEF PushPps
      <4>2. pps' = Store(pps, reading.id, reading)
        BY <1>4, <3>2 DEF PushPps
      <4> HIDE DEF reading
      <4>3. QED
        BY <1>1, <4>1, <4>2 DEF Store, PpsRegistry
    <3>3. QED
      BY <3>1, <3>2
  <2>3. QED
    BY <1>1, <2>1, <2>2, OtherNalStep
<1>5. CASE PushVcl(nal)
  <2> DEFINE reading == ReadSlice(nal, sps, pps)
  <2>1. Begin(nal) /\ IsSupportedVcl(nal.type) /\ sps' = sps /\ pps' = pps
    BY <1>5 DEF PushVcl, parameterVars
  <2>2. CASE IsError(reading)
    <3>1. /\ RecordError(reading) /\ UNCHANGED <<assembler, access_units>>
          /\ reading \in {SyntaxInvalid, NotFound}
      BY <1>5, <2>2 DEF PushVcl, IsError
    <3>2. nal.type \in {InvalidHeader, 1, 5}
      BY <2>1 DEF IsSupportedVcl
    <3> HIDE DEF reading
    <3>3. QED
      BY <2>1, <3>1, <3>2, ExclusionStep
  <2>3. CASE ~ IsError(reading)
    <3>1. reading \in SliceHeaders /\ nal.type = NalTypeOf(reading)
      BY <1>1, <2>1, <2>3, SliceIsRead
    <3>2. Accept(PushSlice(assembler, nal_units, reading)) /\ UNCHANGED diagnostics
      BY <1>5, <2>3 DEF PushVcl
    <3> HIDE DEF reading
    <3>3. QED
      BY <2>1, <3>1, <3>2, SliceStep
  <2>4. QED
    BY <2>2, <2>3
<1>6. CASE PushOther(nal)
  <2>1. /\ Begin(nal) /\ AcceptNonVcl(nal) /\ nal.type \notin {InvalidHeader, 1, 5}
        /\ UNCHANGED diagnostics /\ sps' = sps /\ pps' = pps
    BY <1>6 DEF PushOther, parameterVars
  <2>2. QED
    BY <1>1, <2>1, OtherNalStep
<1>7. QED
  BY <1>2, <1>3, <1>4, <1>5, <1>6 DEF Push

LEMMA StreamStutter == StreamInv /\ UNCHANGED vars => StreamInv'
<1> SUFFICES ASSUME StreamInv, UNCHANGED vars PROVE StreamInv'
  OBVIOUS
<1>1. UNCHANGED <<sps, pps, assembler, nal_units, access_units, diagnostics,
                 finished, pushed>>
  BY DEF vars, parameterVars
<1>2. Pictures' = Pictures /\ Places' = Places /\ Excluded' = Excluded
  BY <1>1 DEF Pictures, Places, Excluded, Diagnosed
<1>3. QED
  BY <1>1, <1>2 DEF StreamInv, StreamTypes, PlacesInv, PictureIsEnded

(* The inductive invariant holds.                                          *)
THEOREM StreamInvariance == Spec => []StreamInv
<1>1. StreamInv /\ [Next]_vars => StreamInv'
  BY FinishInv, PushInv, StreamStutter DEF Next
<1>2. QED
  BY <1>1, StreamInitInv, PTL DEF Spec

(* Every NAL unit of the stream belongs to one access unit, waits for the  *)
(* next one, or is excluded by a diagnostic, and the order is kept.        *)
THEOREM NalPlacesCorrect == Spec => []EveryNalHasOnePlace
<1>1. StreamInv => EveryNalHasOnePlace
  BY DEF StreamInv, PlacesInv, InOrder, Members, EveryNalHasOnePlace
<1>2. QED
  BY <1>1, StreamInvariance, PTL

(* The access units are pictures: no slice of another kind, nothing that   *)
(* belongs before the first slice behind it, and no end without a reason.  *)
THEOREM PicturesCorrect == Spec => []AccessUnitsArePictures
<1>1. ASSUME StreamInv PROVE AccessUnitsArePictures
  <2> SUFFICES ASSUME NEW i \in DOMAIN Pictures
               PROVE  LET unit == Pictures[i]
                          next == Pictures[i + 1]
                          Prefix(index) == StartsAccessUnitPrefix(pushed[index + 1].type)
                          types == {pushed[index + 1].type : index \in ToSet(unit.vcl_nal_indices)}
                      IN  /\ unit.index = i - 1
                          /\ types = {IF unit.first_vcl.idr THEN 5 ELSE 1}
                          /\ \A index \in ToSet(unit.nal_indices) :
                               Prefix(index) => index < Head(unit.vcl_nal_indices)
                          /\ i < Len(Pictures) =>
                               \/ \E index \in (Last(unit.vcl_nal_indices) + 1)..Head(next.vcl_nal_indices) :
                                    Prefix(index)
                               \/ StartsNewPrimaryCodedPicture(unit.first_vcl, next.first_vcl)
    BY DEF AccessUnitsArePictures
  <2> DEFINE unit == Pictures[i]
             next == Pictures[i + 1]
  <2>1. StreamTypes /\ ArePictures(Pictures, pushed) /\ Len(pushed) \in Nat
    BY <1>1 DEF StreamInv, StreamTypes
  <2>2. /\ Pictures \in Seq(AccessUnit) /\ unit \in AccessUnit
        /\ IsPicture(unit, i, pushed)
        /\ i < Len(Pictures) =>
             /\ i + 1 \in DOMAIN Pictures
             /\ next \in AccessUnit
             /\ IsPicture(next, i + 1, pushed)
             /\ Separates(unit, next, pushed)
    BY <2>1 DEF ArePictures
  <2>3. /\ unit.vcl_nal_indices \in Seq(Nat) /\ unit.nal_indices \in Seq(Nat)
        /\ unit.vcl_nal_indices # <<>>
        /\ 1 \in DOMAIN unit.vcl_nal_indices
    BY <2>1, <2>2, AccessUnitFields, SlicesOfPicture DEF IsPicture
  <2> HIDE DEF unit, next
  <2>4. Head(unit.vcl_nal_indices) = unit.vcl_nal_indices[1]
    BY <2>3
  <2>5. unit.index = i - 1
    BY <2>2 DEF IsPicture
  <2>6. {pushed[index + 1].type : index \in ToSet(unit.vcl_nal_indices)}
          = {IF unit.first_vcl.idr THEN 5 ELSE 1}
    <3>1. \A j \in DOMAIN unit.vcl_nal_indices :
            pushed[unit.vcl_nal_indices[j] + 1].type = NalTypeOf(unit.first_vcl)
      BY <2>2 DEF IsPicture
    <3>2. {pushed[index + 1].type : index \in ToSet(unit.vcl_nal_indices)}
            = {NalTypeOf(unit.first_vcl)}
      BY <2>3, <3>1 DEF ToSet
    <3>3. QED
      BY <3>2 DEF NalTypeOf
  <2>7. \A index \in ToSet(unit.nal_indices) :
          StartsAccessUnitPrefix(pushed[index + 1].type) => index < Head(unit.vcl_nal_indices)
    BY <2>2, <2>4 DEF IsPicture, IsPrefixNal, ToSet
  <2>8. i < Len(Pictures) =>
          \/ \E index \in (Last(unit.vcl_nal_indices) + 1)..Head(next.vcl_nal_indices) :
               StartsAccessUnitPrefix(pushed[index + 1].type)
          \/ StartsNewPrimaryCodedPicture(unit.first_vcl, next.first_vcl)
    <3> SUFFICES ASSUME i < Len(Pictures)
                 PROVE  \/ \E index \in (Last(unit.vcl_nal_indices) + 1)..Head(next.vcl_nal_indices) :
                             StartsAccessUnitPrefix(pushed[index + 1].type)
                        \/ StartsNewPrimaryCodedPicture(unit.first_vcl, next.first_vcl)
      OBVIOUS
    <3>1. Head(next.vcl_nal_indices) = next.vcl_nal_indices[1]
      BY <2>2, AccessUnitFields DEF IsPicture
    <3>2. QED
      BY <2>2, <3>1 DEF Separates, PrefixBetween, IsPrefixNal, Last
  <2>9. QED
    BY <2>5, <2>6, <2>7, <2>8 DEF unit, next
<1>2. QED
  BY <1>1, StreamInvariance, PTL

-----------------------------------------------------------------------------
(* The loop of analyze_gop, by recursion on its turns.                     *)

LoopState ==
  [gop : [access_unit_count : Nat,
          kinds : [AccessUnitKind -> Nat],
          idr_access_unit_indices : Seq(Nat),
          idr_intervals : Seq(Int),
          leading_non_idr_access_units : Nat],
   previous : Int]

LoopStart == [gop |-> NoGop, previous |-> -1]

(* The state after each of the first n turns.                              *)
IsLoop(f, units, n) ==
  f = [turns \in 0..n |-> IF turns = 0 THEN LoopStart
                          ELSE CountAccessUnit(f[turns - 1], units[turns])]

Loop(units, n) == CHOOSE f : IsLoop(f, units, n)

(* There is such a function for every number of turns.                     *)
LEMMA LoopExists ==
  ASSUME NEW units, NEW n \in Nat
  PROVE  IsLoop(Loop(units, n), units, n)
<1> DEFINE Lengths == {k \in Nat : \E f : IsLoop(f, units, k)}
<1>1. 0 \in Lengths
  <2> DEFINE f == [turns \in 0..0 |-> LoopStart]
  <2>1. IsLoop(f, units, 0)
    BY DEF IsLoop
  <2>2. QED
    BY <2>1
<1>2. ASSUME NEW k \in Nat, k \in Lengths PROVE k + 1 \in Lengths
  <2>1. PICK f : IsLoop(f, units, k)
    BY <1>2
  <2> DEFINE g == [turns \in 0..(k + 1) |->
                     IF turns = k + 1 THEN CountAccessUnit(f[k], units[k + 1])
                     ELSE f[turns]]
  <2>2. \A i \in 0..k : g[i] = f[i]
    OBVIOUS
  <2>3. \A i \in 0..k : f[i] = IF i = 0 THEN LoopStart
                               ELSE CountAccessUnit(f[i - 1], units[i])
    BY <2>1 DEF IsLoop
  <2>4. ASSUME NEW i \in 0..(k + 1)
        PROVE  g[i] = IF i = 0 THEN LoopStart
                      ELSE CountAccessUnit(g[i - 1], units[i])
    <3>1. CASE i = k + 1
      <4>1. g[i - 1] = f[k] /\ g[i] = CountAccessUnit(f[k], units[i]) /\ i # 0
        BY <2>2, <3>1, i - 1 \in 0..k
      <4> HIDE DEF g
      <4>2. QED
        BY <4>1
    <3>2. CASE i # k + 1
      <4>1. i \in 0..k /\ (i # 0 => i - 1 \in 0..k)
        BY <3>2
      <4> HIDE DEF g
      <4>2. QED
        BY <2>2, <2>3, <4>1
    <3>3. QED
      BY <3>1, <3>2
  <2>5. IsLoop(g, units, k + 1)
    <3>1. g = [i \in 0..(k + 1) |-> g[i]]
      OBVIOUS
    <3> HIDE DEF g
    <3>2. QED
      BY <2>4, <3>1 DEF IsLoop
  <2>6. QED
    BY <2>5
<1>3. Nat \subseteq Lengths
  <2> HIDE DEF Lengths
  <2>1. QED
    BY <1>1, <1>2, InductionOnSet
<1>4. QED
  BY <1>3 DEF Loop

LEMMA LoopTurns ==
  ASSUME NEW units, NEW n \in Nat
  PROVE  /\ Loop(units, n)[0] = LoopStart
         /\ \A i \in 0..(n - 1) :
              Loop(units, n)[i + 1] = CountAccessUnit(Loop(units, n)[i], units[i + 1])
<1> DEFINE f == Loop(units, n)
<1>1. IsLoop(f, units, n)
  BY LoopExists
<1> HIDE DEF f
<1>2. \A i \in 0..n : f[i] = IF i = 0 THEN LoopStart
                             ELSE CountAccessUnit(f[i - 1], units[i])
  BY <1>1 DEF IsLoop
<1>3. f[0] = LoopStart
  BY <1>2
<1>4. ASSUME NEW i \in 0..(n - 1)
      PROVE  f[i + 1] = CountAccessUnit(f[i], units[i + 1])
  <2>1. i + 1 \in 0..n /\ i + 1 # 0 /\ (i + 1) - 1 = i
    OBVIOUS
  <2>2. QED
    BY <1>2, <2>1
<1>5. QED
  BY <1>3, <1>4 DEF f

LEMMA GopOfLoop ==
  ASSUME NEW S, NEW units \in Seq(S)
  PROVE  LET last == Loop(units, Len(units))[Len(units)]
         IN  AnalyzeGop(units)
               = IF last.previous = -1
                 THEN [last.gop EXCEPT !.leading_non_idr_access_units = Len(units)]
                 ELSE last.gop
BY DEF AnalyzeGop, Loop, IsLoop, LoopStart

-----------------------------------------------------------------------------
(* What the loop has counted and listed after n turns.                     *)

OfKind(units, n, kind) == {i \in 1..n : ClassifyAccessUnit(units[i]) = kind}

ListsIdrs(listed, units, n) ==
  /\ \A j \in DOMAIN listed : listed[j] < n /\ units[listed[j] + 1].first_vcl.idr
  /\ \A i \in 1..n : units[i].first_vcl.idr => \E j \in DOMAIN listed : listed[j] = i - 1
  /\ \A i, j \in DOMAIN listed : i < j => listed[i] < listed[j]

AreIntervals(intervals, listed) ==
  /\ Len(intervals) = IF listed = <<>> THEN 0 ELSE Len(listed) - 1
  /\ \A j \in DOMAIN intervals : intervals[j] = listed[j + 1] - listed[j]

Counted(loop, units, n) ==
  /\ loop \in LoopState
  /\ loop.gop.access_unit_count = n
  /\ \A kind \in AccessUnitKind : loop.gop.kinds[kind] = Cardinality(OfKind(units, n, kind))
  /\ ListsIdrs(loop.gop.idr_access_unit_indices, units, n)
  /\ AreIntervals(loop.gop.idr_intervals, loop.gop.idr_access_unit_indices)
  /\ loop.previous = IF loop.gop.idr_access_unit_indices = <<>> THEN -1
                     ELSE loop.gop.idr_access_unit_indices[Len(loop.gop.idr_access_unit_indices)]
  /\ loop.gop.leading_non_idr_access_units
       = IF loop.gop.idr_access_unit_indices = <<>> THEN 0
         ELSE loop.gop.idr_access_unit_indices[1]

(* An access unit has one of the kinds.                                    *)
LEMMA KindOfAccessUnit ==
  ASSUME NEW unit \in AccessUnit
  PROVE  ClassifyAccessUnit(unit) \in AccessUnitKind
<1> DEFINE types == unit.slice_types_present
<1>1. types \subseteq SliceTypesRead
  BY DEF AccessUnit
<1>2. SliceTypesRead \subseteq SliceTypes
  BY StreamModelAssumption DEF SliceTypesRead, SliceHeaders, SupportedVcl
<1>3. CASE Cardinality(types) = 1
  <2>1. types # {}
    BY <1>3, FS_EmptySet
  <2>2. (CHOOSE type \in types : TRUE) \in types
    BY <2>1
  <2>3. QED
    BY <1>1, <1>2, <1>3, <2>2 DEF ClassifyAccessUnit, AccessUnitKind
<1>4. CASE Cardinality(types) # 1
  BY <1>4 DEF ClassifyAccessUnit, AccessUnitKind
<1>5. QED
  BY <1>3, <1>4

(* One more access unit counts for its own kind.                           *)
LEMMA OneMoreOfKind ==
  ASSUME NEW units, NEW n \in Nat, NEW kind
  PROVE  Cardinality(OfKind(units, n + 1, kind))
           = IF ClassifyAccessUnit(units[n + 1]) = kind
             THEN Cardinality(OfKind(units, n, kind)) + 1
             ELSE Cardinality(OfKind(units, n, kind))
<1> DEFINE before == OfKind(units, n, kind)
           after == OfKind(units, n + 1, kind)
<1>1. IsFiniteSet(before)
  <2>1. IsFiniteSet(1..n) /\ before \subseteq 1..n
    BY FS_Interval DEF OfKind
  <2>2. QED
    BY <2>1, FS_Subset
<1>2. n + 1 \notin before
  BY DEF OfKind
<1>3. CASE ClassifyAccessUnit(units[n + 1]) = kind
  <2>1. after = before \cup {n + 1}
    BY <1>3 DEF OfKind
  <2> HIDE DEF before, after
  <2>2. Cardinality(after) = Cardinality(before) + 1
    BY <1>1, <1>2, <2>1, FS_AddElement
  <2>3. QED
    BY <1>3, <2>2 DEF before, after
<1>4. CASE ClassifyAccessUnit(units[n + 1]) # kind
  <2>1. after = before
    BY <1>4 DEF OfKind
  <2>2. QED
    BY <1>4, <2>1
<1>5. QED
  BY <1>3, <1>4

(* What one turn does to the fields.                                       *)
LEMMA TurnFields ==
  ASSUME NEW loop \in LoopState, NEW unit,
         ClassifyAccessUnit(unit) \in AccessUnitKind, unit.index \in Nat
  PROVE  LET r == CountAccessUnit(loop, unit)
             position == loop.gop.access_unit_count
         IN  /\ r \in LoopState
             /\ r.gop.access_unit_count = position + 1
             /\ r.gop.kinds = [loop.gop.kinds EXCEPT ![ClassifyAccessUnit(unit)] = @ + 1]
             /\ ~ unit.first_vcl.idr =>
                  /\ r.previous = loop.previous
                  /\ r.gop.idr_access_unit_indices = loop.gop.idr_access_unit_indices
                  /\ r.gop.idr_intervals = loop.gop.idr_intervals
                  /\ r.gop.leading_non_idr_access_units = loop.gop.leading_non_idr_access_units
             /\ unit.first_vcl.idr =>
                  /\ r.previous = position
                  /\ r.gop.idr_access_unit_indices
                       = Append(loop.gop.idr_access_unit_indices, unit.index)
                  /\ r.gop.idr_intervals
                       = IF loop.previous = -1 THEN loop.gop.idr_intervals
                         ELSE Append(loop.gop.idr_intervals, position - loop.previous)
                  /\ r.gop.leading_non_idr_access_units
                       = IF loop.previous = -1 THEN position
                         ELSE loop.gop.leading_non_idr_access_units
<1> DEFINE gopType == [access_unit_count : Nat,
                       kinds : [AccessUnitKind -> Nat],
                       idr_access_unit_indices : Seq(Nat),
                       idr_intervals : Seq(Int),
                       leading_non_idr_access_units : Nat]
           kind == ClassifyAccessUnit(unit)
           position == loop.gop.access_unit_count
           counted == [loop.gop EXCEPT !.access_unit_count = @ + 1, !.kinds[kind] = @ + 1]
           indices == Append(loop.gop.idr_access_unit_indices, unit.index)
           leading == IF loop.previous = -1 THEN position
                      ELSE loop.gop.leading_non_idr_access_units
           intervals == IF loop.previous = -1 THEN loop.gop.idr_intervals
                        ELSE Append(loop.gop.idr_intervals, position - loop.previous)
           listing == [counted EXCEPT !.idr_access_unit_indices = indices,
                                      !.leading_non_idr_access_units = leading,
                                      !.idr_intervals = intervals]
<1>1. loop.gop \in gopType /\ loop.previous \in Int /\ position \in Nat
  BY DEF LoopState
<1>2. [loop.gop.kinds EXCEPT ![kind] = @ + 1] \in [AccessUnitKind -> Nat]
  <2>1. loop.gop.kinds \in [AccessUnitKind -> Nat] /\ kind \in AccessUnitKind
    BY <1>1
  <2> HIDE DEF kind
  <2>2. QED
    BY <2>1
<1>3. /\ counted \in gopType
      /\ counted.access_unit_count = position + 1
      /\ counted.kinds = [loop.gop.kinds EXCEPT ![kind] = @ + 1]
      /\ counted.idr_access_unit_indices = loop.gop.idr_access_unit_indices
      /\ counted.idr_intervals = loop.gop.idr_intervals
      /\ counted.leading_non_idr_access_units = loop.gop.leading_non_idr_access_units
  <2> DEFINE kinds == [loop.gop.kinds EXCEPT ![kind] = @ + 1]
  <2>1. counted = [loop.gop EXCEPT !.access_unit_count = position + 1, !.kinds = kinds]
    BY <1>1
  <2> HIDE DEF kind, kinds, counted
  <2>2. kinds \in [AccessUnitKind -> Nat] /\ position + 1 \in Nat
    BY <1>1, <1>2 DEF kinds
  <2>3. /\ counted \in gopType
        /\ counted.access_unit_count = position + 1
        /\ counted.kinds = kinds
        /\ counted.idr_access_unit_indices = loop.gop.idr_access_unit_indices
        /\ counted.idr_intervals = loop.gop.idr_intervals
        /\ counted.leading_non_idr_access_units = loop.gop.leading_non_idr_access_units
    <3> HIDE DEF position
    <3>1. QED
      BY <1>1, <2>1, <2>2
  <2>4. QED
    BY <2>3 DEF kinds
<1>4. indices \in Seq(Nat) /\ intervals \in Seq(Int) /\ leading \in Nat
  BY <1>1
<1>5. /\ listing \in gopType
      /\ listing.access_unit_count = position + 1
      /\ listing.kinds = [loop.gop.kinds EXCEPT ![kind] = @ + 1]
      /\ listing.idr_access_unit_indices = indices
      /\ listing.idr_intervals = intervals
      /\ listing.leading_non_idr_access_units = leading
  <2> HIDE DEF counted, indices, intervals, leading, kind
  <2>1. QED
    BY <1>3, <1>4
<1>6. CountAccessUnit(loop, unit)
        = IF ~ unit.first_vcl.idr THEN [loop EXCEPT !.gop = counted]
          ELSE [previous |-> position, gop |-> listing]
  BY DEF CountAccessUnit
<1>7. CASE ~ unit.first_vcl.idr
  <2> HIDE DEF counted, listing
  <2>1. CountAccessUnit(loop, unit) = [loop EXCEPT !.gop = counted]
    BY <1>6, <1>7
  <2>2. loop \in [gop : gopType, previous : Int]
    BY DEF LoopState
  <2>3. /\ CountAccessUnit(loop, unit) \in [gop : gopType, previous : Int]
        /\ CountAccessUnit(loop, unit).gop = counted
        /\ CountAccessUnit(loop, unit).previous = loop.previous
    <3> HIDE DEF gopType
    <3>1. QED
      BY <1>3, <2>1, <2>2
  <2>4. QED
    BY <1>3, <1>7, <2>3 DEF LoopState
<1>8. CASE unit.first_vcl.idr
  <2> HIDE DEF counted, listing
  <2>1. CountAccessUnit(loop, unit) = [previous |-> position, gop |-> listing]
    BY <1>6, <1>8
  <2>3. /\ CountAccessUnit(loop, unit) \in [gop : gopType, previous : Int]
        /\ CountAccessUnit(loop, unit).gop = listing
        /\ CountAccessUnit(loop, unit).previous = position
    <3> HIDE DEF gopType
    <3>1. QED
      BY <1>1, <1>5, <2>1
  <2>4. QED
    BY <1>5, <1>8, <2>3 DEF LoopState
<1>9. QED
  BY <1>7, <1>8

LEMMA AppendedLength ==
  ASSUME NEW S, NEW s \in Seq(S), NEW e \in S
  PROVE  Len(Append(s, e)) = Len(s) + 1 /\ Append(s, e) # <<>>
<1>1. Len(Append(s, e)) = Len(s) + 1
  OBVIOUS
<1>2. Len(s) + 1 # 0
  <2>1. Len(s) \in Nat
    OBVIOUS
  <2>2. QED
    BY <2>1
<1>3. Append(s, e) # <<>>
  <2> DEFINE t == Append(s, e)
  <2>1. Len(t) # 0
    BY <1>1, <1>2
  <2> HIDE DEF t
  <2>2. t # <<>>
    BY <2>1
  <2>3. QED
    BY <2>2 DEF t
<1>4. QED
  BY <1>1, <1>3

LEMMA IdrListed ==
  ASSUME NEW units, NEW n \in Nat, NEW listed \in Seq(Nat), NEW intervals \in Seq(Int),
         ListsIdrs(listed, units, n), AreIntervals(intervals, listed),
         units[n + 1].first_vcl.idr
  PROVE  /\ ListsIdrs(Append(listed, n), units, n + 1)
         /\ AreIntervals(IF listed = <<>> THEN intervals
                         ELSE Append(intervals, n - listed[Len(listed)]),
                         Append(listed, n))
<1> DEFINE longer == Append(listed, n)
           last == Len(listed) + 1
<1>1. /\ longer \in Seq(Nat) /\ Len(longer) = last /\ Len(listed) \in Nat
      /\ DOMAIN longer = 1..last /\ DOMAIN listed = 1..(last - 1)
      /\ \A j \in 1..(last - 1) : longer[j] = listed[j] /\ listed[j] \in Nat
      /\ longer[last] = n /\ longer # <<>>
  <2>1. /\ longer \in Seq(Nat)
        /\ DOMAIN longer = DOMAIN listed \cup {last}
        /\ \A j \in DOMAIN listed : longer[j] = listed[j]
        /\ longer[last] = n
    BY AppendedElements
  <2>2. Len(longer) = last /\ longer # <<>>
    BY AppendedLength
  <2>3. /\ Len(listed) \in Nat /\ DOMAIN listed = 1..Len(listed)
        /\ \A j \in DOMAIN listed : listed[j] \in Nat
    OBVIOUS
  <2>4. last - 1 = Len(listed)
    BY <2>3
  <2> HIDE DEF longer, last
  <2>5. DOMAIN longer = 1..last
    BY <2>1, <2>2
  <2>6. \A j \in 1..(last - 1) : longer[j] = listed[j] /\ listed[j] \in Nat
    BY <2>1, <2>3, <2>4
  <2>7. QED
    BY <2>1, <2>2, <2>3, <2>4, <2>5, <2>6
<1>2. listed = <<>> <=> last = 1
  OBVIOUS
<1> HIDE DEF longer
<1>3. ListsIdrs(longer, units, n + 1)
  <2>1. ASSUME NEW j \in DOMAIN longer
        PROVE  longer[j] < n + 1 /\ units[longer[j] + 1].first_vcl.idr
    <3>1. CASE j = last
      <4>1. longer[j] = n
        BY <1>1, <3>1
      <4>2. QED
        BY <4>1
    <3>2. CASE j # last
      <4>1. j \in DOMAIN listed /\ longer[j] = listed[j] /\ listed[j] \in Nat
        BY <1>1, <3>2
      <4>2. listed[j] < n /\ units[listed[j] + 1].first_vcl.idr
        BY <4>1 DEF ListsIdrs
      <4>3. QED
        BY <4>1, <4>2
    <3>3. QED
      BY <3>1, <3>2
  <2>2. ASSUME NEW i \in 1..(n + 1), units[i].first_vcl.idr
        PROVE  \E j \in DOMAIN longer : longer[j] = i - 1
    <3>1. CASE i = n + 1
      <4>1. last \in DOMAIN longer /\ longer[last] = i - 1
        BY <1>1, <3>1
      <4>2. QED
        BY <4>1
    <3>2. CASE i # n + 1
      <4>1. PICK j \in DOMAIN listed : listed[j] = i - 1
        BY <2>2, <3>2 DEF ListsIdrs
      <4>2. j \in DOMAIN longer /\ longer[j] = i - 1
        BY <1>1, <4>1
      <4>3. QED
        BY <4>2
    <3>3. QED
      BY <3>1, <3>2
  <2>3. ASSUME NEW i \in DOMAIN longer, NEW j \in DOMAIN longer, i < j
        PROVE  longer[i] < longer[j]
    <3>1. i \in DOMAIN listed /\ longer[i] = listed[i] /\ i \in 1..(last - 1)
      BY <1>1, <2>3
    <3>2. CASE j = last
      <4>1. longer[j] = n /\ listed[i] < n
        BY <1>1, <3>1, <3>2 DEF ListsIdrs
      <4>2. QED
        BY <3>1, <4>1
    <3>3. CASE j # last
      <4>1. j \in DOMAIN listed /\ longer[j] = listed[j]
        BY <1>1, <3>3
      <4>2. listed[i] < listed[j]
        BY <2>3, <3>1, <4>1 DEF ListsIdrs
      <4>3. QED
        BY <3>1, <4>1, <4>2
    <3>4. QED
      BY <3>2, <3>3
  <2>4. QED
    BY <2>1, <2>2, <2>3 DEF ListsIdrs
<1>4. CASE listed = <<>>
  BY <1>1, <1>2, <1>3, <1>4 DEF AreIntervals, longer
<1>5. CASE listed # <<>>
  <2> DEFINE distance == n - listed[Len(listed)]
             more == Append(intervals, distance)
  <2>1. /\ distance \in Int /\ last > 1 /\ Len(intervals) = last - 2
        /\ distance = longer[last] - longer[last - 1]
    BY <1>1, <1>2, <1>5 DEF AreIntervals
  <2>2. /\ Len(more) = last - 1 /\ DOMAIN more = 1..(last - 1)
        /\ \A j \in 1..(last - 2) : more[j] = intervals[j]
        /\ more[last - 1] = distance
    <3> HIDE DEF distance
    <3>1. QED
      BY <2>1
  <2> HIDE DEF more, distance
  <2>3. ASSUME NEW j \in DOMAIN more
        PROVE  more[j] = longer[j + 1] - longer[j]
    <3>1. CASE j = last - 1
      BY <1>1, <2>1, <2>2, <3>1
    <3>2. CASE j # last - 1
      <4>1. j \in 1..(last - 2) /\ j + 1 \in 1..(last - 1) /\ j \in 1..(last - 1)
        BY <1>1, <2>2, <3>2
      <4>2. j \in DOMAIN intervals
        BY <2>1, <4>1
      <4>3. intervals[j] = listed[j + 1] - listed[j]
        BY <4>2 DEF AreIntervals
      <4>4. QED
        BY <1>1, <2>2, <4>1, <4>3
    <3>3. QED
      BY <3>1, <3>2
  <2>4. AreIntervals(more, longer)
    BY <1>1, <2>1, <2>2, <2>3 DEF AreIntervals
  <2>5. QED
    BY <1>3, <1>5, <2>4 DEF longer, more, distance
<1>6. QED
  BY <1>4, <1>5

(* Each turn counts and lists one more access unit.                        *)
LEMMA CountedTurn ==
  ASSUME NEW units \in Seq(AccessUnit), NEW n \in Nat, n < Len(units),
         units[n + 1].index = n, NEW loop, Counted(loop, units, n)
  PROVE  Counted(CountAccessUnit(loop, units[n + 1]), units, n + 1)
<1> DEFINE unit == units[n + 1]
           r == CountAccessUnit(loop, unit)
           listed == loop.gop.idr_access_unit_indices
           intervals == loop.gop.idr_intervals
<1>1. /\ unit \in AccessUnit /\ unit.index = n /\ loop \in LoopState
      /\ loop.gop.access_unit_count = n
  BY DEF Counted
<1>2. /\ listed \in Seq(Nat) /\ intervals \in Seq(Int)
      /\ loop.gop.kinds \in [AccessUnitKind -> Nat]
  BY <1>1 DEF LoopState
<1>3. ClassifyAccessUnit(unit) \in AccessUnitKind
  BY <1>1, KindOfAccessUnit
<1>4. /\ r \in LoopState
      /\ r.gop.access_unit_count = n + 1
      /\ r.gop.kinds = [loop.gop.kinds EXCEPT ![ClassifyAccessUnit(unit)] = @ + 1]
  BY <1>1, <1>3, TurnFields
<1>5. ~ unit.first_vcl.idr =>
        /\ r.previous = loop.previous
        /\ r.gop.idr_access_unit_indices = listed
        /\ r.gop.idr_intervals = intervals
        /\ r.gop.leading_non_idr_access_units = loop.gop.leading_non_idr_access_units
  BY <1>1, <1>3, TurnFields
<1>6. unit.first_vcl.idr =>
        /\ r.previous = n
        /\ r.gop.idr_access_unit_indices = Append(listed, n)
        /\ r.gop.idr_intervals
             = IF loop.previous = -1 THEN intervals
               ELSE Append(intervals, n - loop.previous)
        /\ r.gop.leading_non_idr_access_units
             = IF loop.previous = -1 THEN n
               ELSE loop.gop.leading_non_idr_access_units
  <2>1. LET s == CountAccessUnit(loop, unit)
            position == loop.gop.access_unit_count
        IN  unit.first_vcl.idr =>
              /\ s.previous = position
              /\ s.gop.idr_access_unit_indices
                   = Append(loop.gop.idr_access_unit_indices, unit.index)
              /\ s.gop.idr_intervals
                   = IF loop.previous = -1 THEN loop.gop.idr_intervals
                     ELSE Append(loop.gop.idr_intervals, position - loop.previous)
              /\ s.gop.leading_non_idr_access_units
                   = IF loop.previous = -1 THEN position
                     ELSE loop.gop.leading_non_idr_access_units
    BY <1>1, <1>3, TurnFields, Zenon
  <2>2. QED
    BY <1>1, <2>1, Zenon
<1>7. ASSUME NEW kind \in AccessUnitKind
      PROVE  r.gop.kinds[kind] = Cardinality(OfKind(units, n + 1, kind))
  <2>1. loop.gop.kinds[kind] = Cardinality(OfKind(units, n, kind))
    BY DEF Counted
  <2>2. Cardinality(OfKind(units, n + 1, kind))
          = IF ClassifyAccessUnit(unit) = kind
            THEN Cardinality(OfKind(units, n, kind)) + 1
            ELSE Cardinality(OfKind(units, n, kind))
    BY OneMoreOfKind
  <2> DEFINE k == ClassifyAccessUnit(unit)
             before == Cardinality(OfKind(units, n, kind))
             kinds == r.gop.kinds
  <2>3. kinds = [loop.gop.kinds EXCEPT ![k] = @ + 1]
    BY <1>4
  <2> HIDE DEF k, before, kinds
  <2>4. kinds[kind] = IF k = kind THEN before + 1 ELSE before
    BY <1>2, <2>1, <2>3 DEF before
  <2>5. QED
    BY <2>2, <2>4 DEF k, before, kinds
<1>8. /\ ListsIdrs(listed, units, n)
      /\ AreIntervals(intervals, listed)
      /\ loop.previous = IF listed = <<>> THEN -1 ELSE listed[Len(listed)]
      /\ loop.gop.leading_non_idr_access_units = IF listed = <<>> THEN 0 ELSE listed[1]
  BY DEF Counted
<1> HIDE DEF r, listed, intervals
<1>9. CASE ~ unit.first_vcl.idr
  <2>1. ListsIdrs(listed, units, n + 1)
    <3>1. \A j \in DOMAIN listed : listed[j] \in Nat
      BY <1>2
    <3>2. ASSUME NEW i \in 1..(n + 1), units[i].first_vcl.idr
          PROVE  \E j \in DOMAIN listed : listed[j] = i - 1
      <4>1. i \in 1..n
        BY <1>9, <3>2
      <4>2. QED
        BY <1>8, <3>2, <4>1 DEF ListsIdrs
    <3>3. QED
      BY <1>8, <3>1, <3>2 DEF ListsIdrs
  <2>2. /\ r.gop.idr_access_unit_indices = listed
        /\ r.gop.idr_intervals = intervals
        /\ r.previous = loop.previous
        /\ r.gop.leading_non_idr_access_units = loop.gop.leading_non_idr_access_units
    BY <1>5, <1>9
  <2>3. ListsIdrs(r.gop.idr_access_unit_indices, units, n + 1)
    BY <2>1, <2>2
  <2>4. AreIntervals(r.gop.idr_intervals, r.gop.idr_access_unit_indices)
    BY <1>8, <2>2
  <2>5. r.previous = IF r.gop.idr_access_unit_indices = <<>> THEN -1
                     ELSE r.gop.idr_access_unit_indices[Len(r.gop.idr_access_unit_indices)]
    BY <1>8, <2>2
  <2>6. r.gop.leading_non_idr_access_units
          = IF r.gop.idr_access_unit_indices = <<>> THEN 0
            ELSE r.gop.idr_access_unit_indices[1]
    BY <1>8, <2>2
  <2>7. Counted(r, units, n + 1)
    BY <1>4, <1>7, <2>3, <2>4, <2>5, <2>6, Zenon DEF Counted
  <2>8. QED
    BY <2>7 DEF r
<1>10. CASE unit.first_vcl.idr
  <2> DEFINE longer == Append(listed, n)
             more == IF listed = <<>> THEN intervals
                     ELSE Append(intervals, n - listed[Len(listed)])
  <2>1. ListsIdrs(longer, units, n + 1) /\ AreIntervals(more, longer)
    BY <1>2, <1>8, <1>10, IdrListed
  <2>2. loop.previous = -1 <=> listed = <<>>
    <3>1. listed # <<>> => listed[Len(listed)] \in Nat
      BY <1>2
    <3>2. QED
      BY <1>8, <3>1
  <2>3. /\ longer # <<>> /\ longer[Len(longer)] = n
        /\ longer[1] = IF listed = <<>> THEN n ELSE listed[1]
    <3>1. listed = <<>> \/ 1 \in DOMAIN listed
      BY <1>2
    <3>2. /\ Len(longer) = Len(listed) + 1 /\ longer[Len(listed) + 1] = n
          /\ \A j \in DOMAIN listed : longer[j] = listed[j]
          /\ Len(listed) \in Nat /\ (listed = <<>> => Len(listed) = 0)
      BY <1>2
    <3> HIDE DEF longer
    <3>3. longer # <<>>
      BY <3>2
    <3>4. QED
      BY <3>1, <3>2, <3>3
  <2>4. /\ r.gop.idr_access_unit_indices = longer
        /\ r.gop.idr_intervals = more
        /\ r.previous = n
        /\ r.gop.leading_non_idr_access_units
             = IF listed = <<>> THEN n ELSE listed[1]
    BY <1>6, <1>8, <1>10, <2>2
  <2> HIDE DEF longer, more
  <2>5. ListsIdrs(r.gop.idr_access_unit_indices, units, n + 1)
    BY <2>1, <2>4
  <2>6. AreIntervals(r.gop.idr_intervals, r.gop.idr_access_unit_indices)
    BY <2>1, <2>4
  <2>7. r.previous = IF r.gop.idr_access_unit_indices = <<>> THEN -1
                     ELSE r.gop.idr_access_unit_indices[Len(r.gop.idr_access_unit_indices)]
    BY <2>3, <2>4
  <2>8. r.gop.leading_non_idr_access_units
          = IF r.gop.idr_access_unit_indices = <<>> THEN 0
            ELSE r.gop.idr_access_unit_indices[1]
    BY <2>3, <2>4
  <2>9. Counted(r, units, n + 1)
    BY <1>4, <1>7, <2>5, <2>6, <2>7, <2>8, Zenon DEF Counted
  <2>10. QED
    BY <2>9 DEF r
<1>11. QED
  BY <1>9, <1>10

LEMMA NothingCounted ==
  ASSUME NEW units
  PROVE  Counted(LoopStart, units, 0)
<1>1. LoopStart \in LoopState
  BY DEF LoopStart, LoopState, NoGop
<1>2. /\ LoopStart.gop.access_unit_count = 0
      /\ \A kind \in AccessUnitKind : LoopStart.gop.kinds[kind] = 0
      /\ LoopStart.gop.idr_access_unit_indices = <<>>
      /\ LoopStart.gop.idr_intervals = <<>>
      /\ LoopStart.gop.leading_non_idr_access_units = 0
      /\ LoopStart.previous = -1
  BY DEF LoopStart, NoGop
<1>3. \A kind : Cardinality(OfKind(units, 0, kind)) = 0
  <2>1. \A kind : OfKind(units, 0, kind) = {}
    BY DEF OfKind
  <2>2. QED
    BY <2>1, FS_EmptySet
<1>4. ListsIdrs(<<>>, units, 0) /\ AreIntervals(<<>>, <<>>)
  BY DEF ListsIdrs, AreIntervals
<1>5. QED
  BY <1>1, <1>2, <1>3, <1>4 DEF Counted

LEMMA LoopCounts ==
  ASSUME NEW units \in Seq(AccessUnit),
         \A i \in 1..Len(units) : units[i].index = i - 1
  PROVE  Counted(Loop(units, Len(units))[Len(units)], units, Len(units))
<1> DEFINE f == Loop(units, Len(units))
           Turns == {n \in Nat : n <= Len(units) => Counted(f[n], units, n)}
<1>1. /\ f[0] = LoopStart
      /\ \A i \in 0..(Len(units) - 1) : f[i + 1] = CountAccessUnit(f[i], units[i + 1])
  BY LoopTurns
<1> HIDE DEF f
<1>2. 0 \in Turns
  BY <1>1, NothingCounted
<1>3. ASSUME NEW n \in Nat, n \in Turns PROVE n + 1 \in Turns
  <2>1. SUFFICES ASSUME n + 1 <= Len(units)
                 PROVE  Counted(f[n + 1], units, n + 1)
    OBVIOUS
  <2>2. n < Len(units) /\ units[n + 1].index = n /\ Counted(f[n], units, n)
    BY <1>3, <2>1
  <2>3. f[n + 1] = CountAccessUnit(f[n], units[n + 1])
    BY <1>1, <2>2
  <2>4. QED
    BY <2>2, <2>3, CountedTurn
<1>4. Nat \subseteq Turns
  <2> HIDE DEF Turns
  <2>1. QED
    BY <1>2, <1>3, InductionOnSet
<1>5. QED
  BY <1>4 DEF f

-----------------------------------------------------------------------------
(* The statistics once the stream is finished.                             *)

StatisticsOf(g, units) ==
  LET listed == g.idr_access_unit_indices
      intervals == g.idr_intervals
      Kind(i) == ClassifyAccessUnit(units[i])
  IN  /\ g.access_unit_count = Len(units)
      /\ \A i \in DOMAIN units : Kind(i) \in AccessUnitKind
      /\ \A kind \in AccessUnitKind :
           g.kinds[kind] = Cardinality({i \in DOMAIN units : Kind(i) = kind})
      /\ \A i, j \in DOMAIN listed : i < j => listed[i] < listed[j]
      /\ ToSet(listed) = {i - 1 : i \in {k \in DOMAIN units : units[k].first_vcl.idr}}
      /\ g.leading_non_idr_access_units = IF listed = <<>> THEN Len(units) ELSE listed[1]
      /\ Len(intervals) = IF listed = <<>> THEN 0 ELSE Len(listed) - 1
      /\ \A j \in DOMAIN intervals : intervals[j] = listed[j + 1] - listed[j]

LEMMA GopOfUnits ==
  ASSUME NEW units \in Seq(AccessUnit),
         \A i \in 1..Len(units) : units[i].index = i - 1
  PROVE  StatisticsOf(AnalyzeGop(units), units)
<1> DEFINE last == Loop(units, Len(units))[Len(units)]
           g == AnalyzeGop(units)
           listed == last.gop.idr_access_unit_indices
           intervals == last.gop.idr_intervals
<1>1. Counted(last, units, Len(units))
  BY LoopCounts
<1>2. g = IF last.previous = -1
          THEN [last.gop EXCEPT !.leading_non_idr_access_units = Len(units)]
          ELSE last.gop
  BY GopOfLoop
<1> HIDE DEF last, g
<1>3. /\ last \in LoopState /\ listed \in Seq(Nat) /\ Len(units) \in Nat
  BY <1>1 DEF Counted, LoopState
<1>4. last.previous = -1 <=> listed = <<>>
  <2>1. listed # <<>> => listed[Len(listed)] \in Nat
    BY <1>3
  <2>2. last.previous = IF listed = <<>> THEN -1 ELSE listed[Len(listed)]
    BY <1>1 DEF Counted
  <2>3. QED
    BY <2>1, <2>2
<1>5. /\ g.access_unit_count = last.gop.access_unit_count
      /\ g.kinds = last.gop.kinds
      /\ g.idr_access_unit_indices = listed
      /\ g.idr_intervals = intervals
      /\ g.leading_non_idr_access_units
           = IF listed = <<>> THEN Len(units) ELSE last.gop.leading_non_idr_access_units
  BY <1>2, <1>3, <1>4 DEF LoopState
<1>6. /\ last.gop.access_unit_count = Len(units)
      /\ \A kind \in AccessUnitKind :
           last.gop.kinds[kind] = Cardinality(OfKind(units, Len(units), kind))
      /\ ListsIdrs(listed, units, Len(units))
      /\ AreIntervals(intervals, listed)
      /\ last.gop.leading_non_idr_access_units = IF listed = <<>> THEN 0 ELSE listed[1]
  BY <1>1 DEF Counted
<1> HIDE DEF listed, intervals
<1>7. ASSUME NEW i \in DOMAIN units
      PROVE  ClassifyAccessUnit(units[i]) \in AccessUnitKind
  BY KindOfAccessUnit
<1>8. \A kind : OfKind(units, Len(units), kind)
                  = {i \in DOMAIN units : ClassifyAccessUnit(units[i]) = kind}
  BY DEF OfKind
<1>9. ToSet(listed) = {i - 1 : i \in {k \in DOMAIN units : units[k].first_vcl.idr}}
  <2>1. \A j \in DOMAIN listed : listed[j] \in Nat
    BY <1>3
  <2>2. ASSUME NEW j \in DOMAIN listed
        PROVE  \E i \in {k \in DOMAIN units : units[k].first_vcl.idr} : listed[j] = i - 1
    <3> DEFINE i == listed[j] + 1
    <3>1. i \in 1..Len(units) /\ units[i].first_vcl.idr /\ listed[j] = i - 1
      BY <1>3, <1>6, <2>1 DEF ListsIdrs
    <3>2. i \in DOMAIN units
      BY <3>1
    <3> HIDE DEF i
    <3>3. QED
      BY <3>1, <3>2
  <2>3. ASSUME NEW i \in DOMAIN units, units[i].first_vcl.idr
        PROVE  \E j \in DOMAIN listed : listed[j] = i - 1
    BY <1>6, <2>3 DEF ListsIdrs
  <2>4. QED
    BY <2>2, <2>3 DEF ToSet
<1>10. g.leading_non_idr_access_units = IF listed = <<>> THEN Len(units) ELSE listed[1]
  BY <1>5, <1>6
<1>11. \A i, j \in DOMAIN listed : i < j => listed[i] < listed[j]
  BY <1>6 DEF ListsIdrs
<1>12. \A kind \in AccessUnitKind :
         g.kinds[kind] = Cardinality({i \in DOMAIN units : ClassifyAccessUnit(units[i]) = kind})
  BY <1>5, <1>6, <1>8
<1>13. /\ Len(intervals) = IF listed = <<>> THEN 0 ELSE Len(listed) - 1
       /\ \A j \in DOMAIN intervals : intervals[j] = listed[j + 1] - listed[j]
  BY <1>6 DEF AreIntervals
<1>14. QED
  BY <1>5, <1>6, <1>7, <1>9, <1>10, <1>11, <1>12, <1>13, Zenon DEF StatisticsOf, g

(* When the stream is finished, the GOP statistics are exact: kinds, IDR   *)
(* pictures, the distances between them and those before the first.        *)
THEOREM GopCorrect == Spec => []GopIsConsistent
<1> DEFINE GopInv == finished => StatisticsOf(gop, access_units)
<1>1. Init => GopInv
  BY DEF Init
<1>2. StreamInv /\ StreamInv' /\ GopInv /\ [Next]_vars => GopInv'
  <2> SUFFICES ASSUME StreamInv, StreamInv', GopInv, [Next]_vars PROVE GopInv'
    OBVIOUS
  <2>1. CASE Finish
    <3>1. gop' = AnalyzeGop(access_units') /\ finished' = TRUE
      BY <2>1 DEF Finish
    <3>2. assembler'.current = Nothing
      <4>1. assembler \in Assembler
        BY DEF StreamInv, StreamTypes
      <4>2. assembler' = [assembler EXCEPT !.current = Nothing]
        BY <2>1 DEF Finish, Accept, FinishAssembler, Assembled
      <4>3. QED
        BY <4>1, <4>2 DEF Assembler
    <3>3. access_units' \in Seq(AccessUnit) /\ ArePictures(access_units', pushed')
      BY <3>2 DEF StreamInv, StreamTypes, Pictures
    <3>4. \A i \in 1..Len(access_units') : access_units'[i].index = i - 1
      BY <3>3 DEF ArePictures, IsPicture
    <3>5. StatisticsOf(AnalyzeGop(access_units'), access_units')
      BY <3>3, <3>4, GopOfUnits
    <3>6. QED
      BY <3>1, <3>5
  <2>2. CASE \E nal \in NalUnits : Push(nal)
    <3>1. finished' = finished /\ ~ finished
      BY <2>2 DEF Push, PushInvalid, PushSps, PushPps, PushVcl, PushOther, Begin
    <3>2. QED
      BY <3>1
  <2>3. CASE UNCHANGED vars
    BY <2>3 DEF vars
  <2>4. QED
    BY <2>1, <2>2, <2>3 DEF Next
<1>3. GopInv => GopIsConsistent
  BY DEF StatisticsOf, GopIsConsistent
<1> HIDE DEF GopInv
<1>4. QED
  BY <1>1, <1>2, <1>3, StreamInvariance, PTL DEF Spec

-----------------------------------------------------------------------------
(* The first and the last of some positions of a file.                     *)

(* Min of a set of positions is the first of them.                         *)
LEMMA FirstPosition ==
  ASSUME NEW S \in SUBSET Nat, S # {}
  PROVE  Min(S) \in S /\ \A i \in S : Min(S) <= i
<1> DEFINE Below == {n \in Nat : \A i \in S : n <= i}
<1>1. SUFFICES ASSUME ~ \E x \in S : \A i \in S : x <= i PROVE FALSE
  BY DEF Min
<1>2. 0 \in Below
  OBVIOUS
<1>3. ASSUME NEW n \in Nat, n \in Below PROVE n + 1 \in Below
  <2>1. n \notin S
    BY <1>1, <1>3
  <2>2. QED
    BY <1>3, <2>1
<1>4. Nat \subseteq Below
  <2> HIDE DEF Below
  <2>1. QED
    BY <1>2, <1>3, InductionOnSet
<1>5. PICK x \in S : x \in Nat
  OBVIOUS
<1>6. x + 1 \in Below
  BY <1>4, <1>5
<1>7. QED
  BY <1>5, <1>6

(* Max of a set of positions up to n is the last of them.                  *)
LEMMA LastPosition ==
  ASSUME NEW n \in Nat, NEW S \in SUBSET (0..n), S # {}
  PROVE  Max(S) \in S /\ \A i \in S : i <= Max(S)
<1> DEFINE T == {n - i : i \in S}
<1>1. T \in SUBSET Nat /\ T # {}
  <2>1. \A i \in S : n - i \in Nat
    OBVIOUS
  <2>2. QED
    BY <2>1
<1>2. Min(T) \in T /\ \A i \in T : Min(T) <= i
  BY <1>1, FirstPosition
<1>3. PICK x \in S : Min(T) = n - x
  BY <1>2
<1>4. ASSUME NEW i \in S PROVE x >= i
  <2>1. n - i \in T
    OBVIOUS
  <2>2. n - x <= n - i
    BY <1>2, <1>3, <2>1
  <2>3. x \in Int /\ i \in Int
    OBVIOUS
  <2> HIDE DEF T
  <2>4. QED
    BY <2>2, <2>3
<1>5. QED
  BY <1>4 DEF Max

-----------------------------------------------------------------------------
(* A NAL unit at the end of a file changes nothing of what inspect reads   *)
(* before it, as long as no PPS there waits for an SPS.                    *)

(* inspect reads the first n NAL units without an error, and every PPS     *)
(* among them with an SPS that precedes it.                                *)
ReadsInOrder(nals, n) ==
  \A i \in 1..n :
    /\ nals[i].type # InvalidHeader
    /\ nals[i].type = 7 => nals[i].sps # Malformed
    /\ nals[i].type = 8 =>
         /\ \E j \in 1..(i - 1) : nals[j].type = 7 /\ nals[j].sps.id = nals[i].ids.sps_id
         /\ ~ IsError(InspectPps(nals, i))
    /\ nals[i].type \in {1, 5} => ~ IsError(InspectSlice(nals, i))

(* The SPS and the PPS with an id before position p.                       *)
SpsBefore(nals, p, id) == {i \in Indices(nals, {7}) : i < p /\ nals[i].sps.id = id}

PpsBefore(nals, p, id) == {i \in Indices(nals, {8}) : i < p /\ InspectPps(nals, i).id = id}

LatestSps(nals, p, id) ==
  IF SpsBefore(nals, p, id) = {} THEN Nothing ELSE nals[Max(SpsBefore(nals, p, id))].sps

LatestPps(nals, p, id) ==
  IF PpsBefore(nals, p, id) = {} THEN Nothing
  ELSE InspectPps(nals, Max(PpsBefore(nals, p, id)))

(* The parameter sets active before p are the latest of each id.           *)
LEMMA ActiveAreLatest ==
  ASSUME NEW nals, NEW p
  PROVE  /\ ActiveSps(nals, p) = [id \in SpsIds |-> LatestSps(nals, p, id)]
         /\ ActivePps(nals, p) = [id \in PpsIds |-> LatestPps(nals, p, id)]
BY DEF ActiveSps, ActivePps, LatestSps, LatestPps, SpsBefore, PpsBefore

(* A PPS with an SPS of its id before it is read with the latest of these. *)
LEMMA ContextOfPps ==
  ASSUME NEW S, NEW nals \in Seq(S), NEW p \in 1..Len(nals), NEW id,
         nals[p].type = 8, SpsBefore(nals, p, id) # {}
  PROVE  FindSpsContext(nals, p, id) = nals[Max(SpsBefore(nals, p, id))].sps
<1> DEFINE events == {i \in Indices(nals, {7}) : nals[i].sps.id = id}
           preceding == {i \in events : i <= p}
<1>1. preceding = SpsBefore(nals, p, id)
  <2>1. ASSUME NEW i \in preceding PROVE i \in SpsBefore(nals, p, id)
    <3>1. i \in Indices(nals, {7}) /\ nals[i].sps.id = id /\ i <= p
      OBVIOUS
    <3>2. i # p /\ i \in Nat
      BY <3>1 DEF Indices
    <3>3. QED
      BY <3>1, <3>2 DEF SpsBefore
  <2>2. ASSUME NEW i \in SpsBefore(nals, p, id) PROVE i \in preceding
    <3>1. i \in Indices(nals, {7}) /\ nals[i].sps.id = id /\ i < p /\ i \in Nat
      BY DEF SpsBefore, Indices
    <3>2. QED
      BY <3>1
  <2> HIDE DEF preceding
  <2>3. QED
    BY <2>1, <2>2
<1>2. FindSpsContext(nals, p, id)
        = IF events = {} THEN Nothing
          ELSE IF preceding # {} THEN nals[Max(preceding)].sps
          ELSE nals[Min(events)].sps
  BY DEF FindSpsContext
<1>3. preceding # {} => events # {}
  OBVIOUS
<1> HIDE DEF events, preceding
<1>4. QED
  BY <1>1, <1>2, <1>3

(* The SPS before p do not depend on a NAL unit behind p.                  *)
LEMMA SpsBeforeStay ==
  ASSUME NEW S, NEW nals \in Seq(S), NEW nal \in S, NEW p \in 1..(Len(nals) + 1), NEW id
  PROVE  /\ SpsBefore(Append(nals, nal), p, id) = SpsBefore(nals, p, id)
         /\ SpsBefore(nals, p, id) # {} => Max(SpsBefore(nals, p, id)) \in DOMAIN nals
<1> DEFINE long == Append(nals, nal)
           old == SpsBefore(nals, p, id)
<1>1. /\ DOMAIN long = DOMAIN nals \cup {Len(nals) + 1}
      /\ \A i \in DOMAIN nals : long[i] = nals[i]
      /\ DOMAIN nals = 1..Len(nals) /\ Len(nals) \in Nat
  BY AppendedElements
<1> HIDE DEF long
<1>2. SpsBefore(long, p, id) = old
  <2>1. ASSUME NEW i \in Nat, i < p PROVE i \in DOMAIN long <=> i \in DOMAIN nals
    BY <1>1, <2>1
  <2>2. \A i \in SpsBefore(long, p, id) : i \in Nat /\ i < p /\ i \in DOMAIN long
    BY <1>1 DEF SpsBefore, Indices
  <2>3. \A i \in old : i \in Nat /\ i < p /\ i \in DOMAIN nals
    BY <1>1 DEF SpsBefore, Indices
  <2>4. ASSUME NEW i \in SpsBefore(long, p, id) PROVE i \in old
    <3>1. i \in DOMAIN nals /\ long[i] = nals[i]
      BY <1>1, <2>1, <2>2
    <3>2. QED
      BY <3>1 DEF SpsBefore, Indices
  <2>5. ASSUME NEW i \in old PROVE i \in SpsBefore(long, p, id)
    <3>1. i \in DOMAIN nals /\ i \in DOMAIN long /\ long[i] = nals[i]
      BY <1>1, <2>3
    <3>2. QED
      BY <3>1 DEF SpsBefore, Indices
  <2> HIDE DEF old
  <2>6. QED
    BY <2>4, <2>5
<1>3. ASSUME old # {} PROVE Max(old) \in DOMAIN nals
  <2>1. old \subseteq DOMAIN nals /\ old \in SUBSET (0..Len(nals))
    BY <1>1 DEF SpsBefore, Indices
  <2> HIDE DEF old
  <2>2. Max(old) \in old
    BY <1>1, <1>3, <2>1, LastPosition
  <2>3. QED
    BY <1>1, <2>1, <2>2
<1>4. QED
  BY <1>2, <1>3 DEF long

(* A PPS with an SPS before it reads the same when the file goes on.       *)
LEMMA PpsStays ==
  ASSUME NEW S, NEW nals \in Seq(S), NEW nal \in S, NEW p \in 1..Len(nals),
         nals[p].type = 8, SpsBefore(nals, p, nals[p].ids.sps_id) # {}
  PROVE  InspectPps(Append(nals, nal), p) = InspectPps(nals, p)
<1> DEFINE long == Append(nals, nal)
           id == nals[p].ids.sps_id
           before == SpsBefore(nals, p, id)
<1>1. /\ long \in Seq(S) /\ p \in 1..Len(long) /\ long[p] = nals[p]
      /\ p \in 1..(Len(nals) + 1)
      /\ \A i \in DOMAIN nals : long[i] = nals[i]
  OBVIOUS
<1>2. SpsBefore(long, p, id) = before /\ before # {} /\ long[Max(before)] = nals[Max(before)]
  <2>1. /\ SpsBefore(long, p, id) = SpsBefore(nals, p, id)
        /\ SpsBefore(nals, p, id) # {} => Max(SpsBefore(nals, p, id)) \in DOMAIN nals
    BY <1>1, SpsBeforeStay
  <2> HIDE DEF long
  <2>2. QED
    BY <1>1, <2>1
<1>3. FindSpsContext(nals, p, id) = nals[Max(before)].sps
  BY ContextOfPps
<1> HIDE DEF long, before
<1>4. FindSpsContext(long, p, id) = long[Max(before)].sps
  BY <1>1, <1>2, ContextOfPps
<1>5. FindSpsContext(long, p, id) = FindSpsContext(nals, p, id)
  BY <1>2, <1>3, <1>4
<1>6. QED
  BY <1>1, <1>5 DEF InspectPps, long

(* Every PPS that is read in order has an SPS before it.                   *)
LEMMA SpsOfPps ==
  ASSUME NEW S, NEW nals \in Seq(S), NEW n \in 0..Len(nals), ReadsInOrder(nals, n),
         NEW p \in 1..n, nals[p].type = 8
  PROVE  SpsBefore(nals, p, nals[p].ids.sps_id) # {}
<1>1. PICK j \in 1..(p - 1) : nals[j].type = 7 /\ nals[j].sps.id = nals[p].ids.sps_id
  BY DEF ReadsInOrder
<1>2. j \in DOMAIN nals /\ j < p
  OBVIOUS
<1>3. j \in SpsBefore(nals, p, nals[p].ids.sps_id)
  BY <1>1, <1>2 DEF SpsBefore, Indices
<1>4. QED
  BY <1>3

(* The PPS before p, and the readings of the latest, stay the same.        *)
LEMMA PpsBeforeStay ==
  ASSUME NEW S, NEW nals \in Seq(S), NEW nal \in S, NEW p \in 1..(Len(nals) + 1),
         ReadsInOrder(nals, p - 1), NEW id
  PROVE  /\ PpsBefore(Append(nals, nal), p, id) = PpsBefore(nals, p, id)
         /\ PpsBefore(nals, p, id) # {} =>
              InspectPps(Append(nals, nal), Max(PpsBefore(nals, p, id)))
                = InspectPps(nals, Max(PpsBefore(nals, p, id)))
<1> DEFINE long == Append(nals, nal)
           old == PpsBefore(nals, p, id)
<1>1. /\ DOMAIN long = DOMAIN nals \cup {Len(nals) + 1}
      /\ \A i \in DOMAIN nals : long[i] = nals[i]
      /\ DOMAIN nals = 1..Len(nals) /\ Len(nals) \in Nat
  BY AppendedElements
<1>2. ASSUME NEW i \in Indices(nals, {8}), i < p
      PROVE  InspectPps(long, i) = InspectPps(nals, i)
  <2>1. i \in 1..Len(nals) /\ nals[i].type = 8 /\ i \in 1..(p - 1) /\ p - 1 \in 0..Len(nals)
    BY <1>1, <1>2 DEF Indices
  <2>2. SpsBefore(nals, i, nals[i].ids.sps_id) # {}
    BY <2>1, SpsOfPps
  <2>3. QED
    BY <2>1, <2>2, PpsStays
<1> HIDE DEF long
<1>3. ASSUME NEW i \in Nat, i < p
      PROVE  i \in Indices(long, {8}) <=> i \in Indices(nals, {8})
  BY <1>1, <1>3 DEF Indices
<1>4. PpsBefore(long, p, id) = old
  <2>1. Indices(long, {8}) \subseteq Nat /\ Indices(nals, {8}) \subseteq Nat
    BY <1>1 DEF Indices
  <2>2. ASSUME NEW i \in PpsBefore(long, p, id) PROVE i \in old
    <3>1. i \in Indices(long, {8}) /\ i < p /\ InspectPps(long, i).id = id
      BY DEF PpsBefore
    <3>2. i \in Indices(nals, {8})
      BY <1>3, <2>1, <3>1
    <3>3. InspectPps(nals, i).id = id
      BY <1>2, <3>1, <3>2
    <3>4. QED
      BY <3>1, <3>2, <3>3 DEF PpsBefore
  <2>3. ASSUME NEW i \in old PROVE i \in PpsBefore(long, p, id)
    <3>1. i \in Indices(nals, {8}) /\ i < p /\ InspectPps(nals, i).id = id
      BY DEF PpsBefore
    <3>2. i \in Indices(long, {8})
      BY <1>3, <2>1, <3>1
    <3>3. InspectPps(long, i).id = id
      BY <1>2, <3>1
    <3>4. QED
      BY <3>1, <3>2, <3>3 DEF PpsBefore
  <2> HIDE DEF old
  <2>4. QED
    BY <2>2, <2>3
<1>5. ASSUME old # {} PROVE InspectPps(long, Max(old)) = InspectPps(nals, Max(old))
  <2>1. old \in SUBSET (0..Len(nals)) /\ \A i \in old : i \in Indices(nals, {8}) /\ i < p
    BY <1>1 DEF PpsBefore, Indices
  <2> HIDE DEF old
  <2>2. Max(old) \in old
    BY <1>1, <1>5, <2>1, LastPosition
  <2>3. QED
    BY <1>2, <2>1, <2>2
<1>6. QED
  BY <1>4, <1>5 DEF long

(* So do the parameter sets active before p,                               *)
LEMMA ActiveSetsStay ==
  ASSUME NEW S, NEW nals \in Seq(S), NEW nal \in S, NEW p \in 1..(Len(nals) + 1)
  PROVE  /\ ActiveSps(Append(nals, nal), p) = ActiveSps(nals, p)
         /\ ReadsInOrder(nals, p - 1) =>
              ActivePps(Append(nals, nal), p) = ActivePps(nals, p)
<1> DEFINE long == Append(nals, nal)
<1>1. \A f : /\ ActiveSps(f, p) = [id \in SpsIds |-> LatestSps(f, p, id)]
             /\ ActivePps(f, p) = [id \in PpsIds |-> LatestPps(f, p, id)]
  BY ActiveAreLatest
<1>2. \A i \in DOMAIN nals : long[i] = nals[i]
  BY AppendedElements
<1>3. ASSUME NEW id PROVE LatestSps(long, p, id) = LatestSps(nals, p, id)
  <2>1. /\ SpsBefore(long, p, id) = SpsBefore(nals, p, id)
        /\ SpsBefore(nals, p, id) # {} => Max(SpsBefore(nals, p, id)) \in DOMAIN nals
    BY SpsBeforeStay
  <2> HIDE DEF long
  <2>2. QED
    BY <1>2, <2>1 DEF LatestSps
<1>4. ASSUME ReadsInOrder(nals, p - 1), NEW id
      PROVE  LatestPps(long, p, id) = LatestPps(nals, p, id)
  <2>1. /\ PpsBefore(long, p, id) = PpsBefore(nals, p, id)
        /\ PpsBefore(nals, p, id) # {} =>
             InspectPps(long, Max(PpsBefore(nals, p, id)))
               = InspectPps(nals, Max(PpsBefore(nals, p, id)))
    BY <1>4, PpsBeforeStay
  <2> HIDE DEF long
  <2>2. QED
    BY <2>1 DEF LatestPps
<1> HIDE DEF long
<1>5. ActiveSps(long, p) = ActiveSps(nals, p)
  BY <1>1, <1>3
<1>6. ASSUME ReadsInOrder(nals, p - 1) PROVE ActivePps(long, p) = ActivePps(nals, p)
  BY <1>1, <1>4, <1>6
<1>7. QED
  BY <1>5, <1>6 DEF long

(* the slice that is read with them,                                       *)
LEMMA SliceStays ==
  ASSUME NEW S, NEW nals \in Seq(S), NEW nal \in S, NEW p \in 1..Len(nals),
         ReadsInOrder(nals, p - 1)
  PROVE  InspectSlice(Append(nals, nal), p) = InspectSlice(nals, p)
<1> DEFINE long == Append(nals, nal)
<1>1. long[p] = nals[p] /\ p \in 1..(Len(nals) + 1)
  OBVIOUS
<1>2. ActiveSps(long, p) = ActiveSps(nals, p) /\ ActivePps(long, p) = ActivePps(nals, p)
  BY <1>1, ActiveSetsStay
<1> HIDE DEF long
<1>3. InspectSlice(long, p) = InspectSlice(nals, p)
  BY <1>1, <1>2 DEF InspectSlice
<1>4. QED
  BY <1>3 DEF long

(* and what is read in order.                                              *)
LEMMA OrderStays ==
  ASSUME NEW S, NEW nals \in Seq(S), NEW nal \in S, NEW n \in 0..Len(nals),
         ReadsInOrder(nals, n)
  PROVE  ReadsInOrder(Append(nals, nal), n)
<1> DEFINE long == Append(nals, nal)
<1>1. \A i \in 1..n : long[i] = nals[i]
  OBVIOUS
<1>2. ASSUME NEW i \in 1..n PROVE i \in 1..Len(nals) /\ ReadsInOrder(nals, i - 1)
  BY DEF ReadsInOrder
<1>3. ASSUME NEW i \in 1..n, nals[i].type = 8 PROVE InspectPps(long, i) = InspectPps(nals, i)
  <2>1. SpsBefore(nals, i, nals[i].ids.sps_id) # {}
    BY <1>3, SpsOfPps
  <2>2. QED
    BY <1>2, <1>3, <2>1, PpsStays
<1>4. ASSUME NEW i \in 1..n PROVE InspectSlice(long, i) = InspectSlice(nals, i)
  BY <1>2, SliceStays
<1> HIDE DEF long
<1>5. ASSUME NEW i \in 1..n, nals[i].type = 8
      PROVE  \E j \in 1..(i - 1) : long[j].type = 7 /\ long[j].sps.id = long[i].ids.sps_id
  <2>1. PICK j \in 1..(i - 1) : nals[j].type = 7 /\ nals[j].sps.id = nals[i].ids.sps_id
    BY <1>5 DEF ReadsInOrder
  <2>2. j \in 1..n
    OBVIOUS
  <2>3. QED
    BY <1>1, <2>1, <2>2
<1>6. ReadsInOrder(long, n)
  BY <1>1, <1>3, <1>4, <1>5 DEF ReadsInOrder
<1>7. QED
  BY <1>6 DEF long

-----------------------------------------------------------------------------
(* One NAL unit more, read by inspect and by the registry.                 *)

(* Behind an SPS, it is the latest of its id.                              *)
LEMMA NextSps ==
  ASSUME NEW S, NEW nals \in Seq(S), NEW p \in 1..Len(nals), NEW id
  PROVE  LatestSps(nals, p + 1, id)
           = IF nals[p].type = 7 /\ nals[p].sps.id = id THEN nals[p].sps
             ELSE LatestSps(nals, p, id)
<1> DEFINE old == SpsBefore(nals, p, id)
           new == SpsBefore(nals, p + 1, id)
<1>1. DOMAIN nals \subseteq Nat /\ p \in DOMAIN nals /\ p \in Nat
  OBVIOUS
<1>2. \A i \in Nat : i < p + 1 <=> i < p \/ i = p
  BY <1>1
<1>3. new = IF nals[p].type = 7 /\ nals[p].sps.id = id THEN old \cup {p} ELSE old
  BY <1>1, <1>2 DEF SpsBefore, Indices
<1>4. new \in SUBSET (0..p) /\ \A i \in new : i <= p
  BY <1>1 DEF SpsBefore, Indices
<1> HIDE DEF old, new
<1>5. CASE nals[p].type = 7 /\ nals[p].sps.id = id
  <2>1. p \in new /\ new # {}
    BY <1>3, <1>5
  <2>2. Max(new) \in new /\ \A i \in new : i <= Max(new)
    BY <1>1, <1>4, <2>1, LastPosition
  <2>3. p <= Max(new) /\ Max(new) <= p /\ Max(new) \in 0..p
    BY <1>4, <2>1, <2>2
  <2> DEFINE latest == Max(new)
  <2> HIDE DEF latest
  <2>4. Max(new) = p
    <3>1. p <= latest /\ latest <= p /\ latest \in 0..p
      BY <2>3 DEF latest
    <3>2. latest = p
      BY <1>1, <3>1
    <3>3. QED
      BY <3>2 DEF latest
  <2>5. QED
    BY <1>5, <2>1, <2>4 DEF LatestSps, new
<1>6. CASE ~ (nals[p].type = 7 /\ nals[p].sps.id = id)
  BY <1>3, <1>6 DEF LatestSps, new, old
<1>7. QED
  BY <1>5, <1>6

(* Behind a PPS, it is the latest of its id.                               *)
LEMMA NextPps ==
  ASSUME NEW S, NEW nals \in Seq(S), NEW p \in 1..Len(nals), NEW id
  PROVE  LatestPps(nals, p + 1, id)
           = IF nals[p].type = 8 /\ InspectPps(nals, p).id = id THEN InspectPps(nals, p)
             ELSE LatestPps(nals, p, id)
<1> DEFINE old == PpsBefore(nals, p, id)
           new == PpsBefore(nals, p + 1, id)
<1>1. DOMAIN nals \subseteq Nat /\ p \in DOMAIN nals /\ p \in Nat
  OBVIOUS
<1>2. \A i \in Nat : i < p + 1 <=> i < p \/ i = p
  BY <1>1
<1>3. new = IF nals[p].type = 8 /\ InspectPps(nals, p).id = id THEN old \cup {p} ELSE old
  BY <1>1, <1>2 DEF PpsBefore, Indices
<1>4. new \in SUBSET (0..p) /\ \A i \in new : i <= p
  BY <1>1 DEF PpsBefore, Indices
<1> HIDE DEF old, new
<1>5. CASE nals[p].type = 8 /\ InspectPps(nals, p).id = id
  <2>1. p \in new /\ new # {}
    BY <1>3, <1>5
  <2>2. Max(new) \in new /\ \A i \in new : i <= Max(new)
    BY <1>1, <1>4, <2>1, LastPosition
  <2>3. p <= Max(new) /\ Max(new) <= p /\ Max(new) \in 0..p
    BY <1>4, <2>1, <2>2
  <2> DEFINE latest == Max(new)
  <2> HIDE DEF latest
  <2>4. Max(new) = p
    <3>1. p <= latest /\ latest <= p /\ latest \in 0..p
      BY <2>3 DEF latest
    <3>2. latest = p
      BY <1>1, <3>1
    <3>3. QED
      BY <3>2 DEF latest
  <2>5. QED
    BY <1>5, <2>1, <2>4 DEF LatestPps, new
<1>6. CASE ~ (nals[p].type = 8 /\ InspectPps(nals, p).id = id)
  BY <1>3, <1>6 DEF LatestPps, new, old
<1>7. QED
  BY <1>5, <1>6

(* From one position to the next, the active sets change as the registry   *)
(* does when it stores the NAL unit in between.                            *)
LEMMA NextActiveSets ==
  ASSUME NEW S, NEW nals \in Seq(S), NEW p \in 1..Len(nals)
  PROVE  /\ ActiveSps(nals, p + 1)
              = IF nals[p].type = 7 THEN Store(ActiveSps(nals, p), nals[p].sps.id, nals[p].sps)
                ELSE ActiveSps(nals, p)
         /\ ActivePps(nals, p + 1)
              = IF nals[p].type = 8
                THEN Store(ActivePps(nals, p), InspectPps(nals, p).id, InspectPps(nals, p))
                ELSE ActivePps(nals, p)
<1>1. /\ ActiveSps(nals, p) = [id \in SpsIds |-> LatestSps(nals, p, id)]
      /\ ActiveSps(nals, p + 1) = [id \in SpsIds |-> LatestSps(nals, p + 1, id)]
      /\ ActivePps(nals, p) = [id \in PpsIds |-> LatestPps(nals, p, id)]
      /\ ActivePps(nals, p + 1) = [id \in PpsIds |-> LatestPps(nals, p + 1, id)]
  BY ActiveAreLatest
<1>2. /\ \A id : LatestSps(nals, p + 1, id)
                   = IF nals[p].type = 7 /\ nals[p].sps.id = id THEN nals[p].sps
                     ELSE LatestSps(nals, p, id)
      /\ \A id : LatestPps(nals, p + 1, id)
                   = IF nals[p].type = 8 /\ InspectPps(nals, p).id = id THEN InspectPps(nals, p)
                     ELSE LatestPps(nals, p, id)
  BY NextSps, NextPps
<1>3. ActiveSps(nals, p + 1)
        = IF nals[p].type = 7 THEN Store(ActiveSps(nals, p), nals[p].sps.id, nals[p].sps)
          ELSE ActiveSps(nals, p)
  BY <1>1, <1>2 DEF Store
<1>4. ActivePps(nals, p + 1)
        = IF nals[p].type = 8
          THEN Store(ActivePps(nals, p), InspectPps(nals, p).id, InspectPps(nals, p))
          ELSE ActivePps(nals, p)
  BY <1>1, <1>2 DEF Store
<1>5. QED
  BY <1>3, <1>4

(* The registry finds for a PPS the SPS that inspect finds, when it finds  *)
(* one at all.                                                             *)
LEMMA PpsReadAlike ==
  ASSUME NEW S, NEW nals \in Seq(S), NEW p \in 1..Len(nals), nals[p].type = 8,
         ~ IsError(ReadPps(nals[p], ActiveSps(nals, p)))
  PROVE  /\ \E j \in 1..(p - 1) : nals[j].type = 7 /\ nals[j].sps.id = nals[p].ids.sps_id
         /\ InspectPps(nals, p) = ReadPps(nals[p], ActiveSps(nals, p))
<1> DEFINE id == nals[p].ids.sps_id
           active == ActiveSps(nals, p)
           referenced == Find(active, id)
<1>1. nals[p].ids # Malformed /\ referenced # Nothing
  BY DEF ReadPps, IsError
<1>2. active = [sps_id \in SpsIds |-> LatestSps(nals, p, sps_id)]
  BY ActiveAreLatest
<1> HIDE DEF active
<1>3. id \in SpsIds /\ referenced = LatestSps(nals, p, id)
  BY <1>1, <1>2 DEF Find
<1>4. SpsBefore(nals, p, id) # {} /\ referenced = nals[Max(SpsBefore(nals, p, id))].sps
  BY <1>1, <1>3 DEF LatestSps
<1>5. PICK j \in SpsBefore(nals, p, id) : TRUE
  BY <1>4
<1>6. j \in 1..(p - 1) /\ nals[j].type = 7 /\ nals[j].sps.id = id
  BY <1>5 DEF SpsBefore, Indices
<1>7. FindSpsContext(nals, p, id) = referenced
  BY <1>4, ContextOfPps
<1> HIDE DEF referenced
<1>8. InspectPps(nals, p) = ReadPps(nals[p], active)
  BY <1>1, <1>7 DEF InspectPps, ReadPps, referenced
<1>9. QED
  BY <1>6, <1>8 DEF active

(* One more slice makes one more of them.                                  *)
LEMMA SlicesCounted ==
  ASSUME NEW S, NEW nals \in Seq(S), NEW nal \in S
  PROVE  /\ Cardinality(Indices(nals, {1, 5})) \in Nat
         /\ Cardinality(Indices(Append(nals, nal), {1, 5}))
              = Cardinality(Indices(nals, {1, 5})) + (IF nal.type \in {1, 5} THEN 1 ELSE 0)
<1> DEFINE long == Append(nals, nal)
           old == Indices(nals, {1, 5})
           new == Indices(long, {1, 5})
<1>1. /\ DOMAIN long = DOMAIN nals \cup {Len(nals) + 1}
      /\ \A i \in DOMAIN nals : long[i] = nals[i]
      /\ long[Len(nals) + 1] = nal
      /\ DOMAIN nals = 1..Len(nals) /\ Len(nals) \in Nat
  BY AppendedElements
<1> HIDE DEF long
<1>2. new = IF nal.type \in {1, 5} THEN old \cup {Len(nals) + 1} ELSE old
  <2>1. Len(nals) + 1 \notin DOMAIN nals
    BY <1>1
  <2>2. ASSUME NEW i \in DOMAIN long
        PROVE  i \in new <=> i \in old \/ (i = Len(nals) + 1 /\ nal.type \in {1, 5})
    BY <1>1, <2>1 DEF Indices
  <2>3. new \subseteq DOMAIN long /\ old \subseteq DOMAIN long
    BY <1>1 DEF Indices
  <2> HIDE DEF new, old
  <2>4. Len(nals) + 1 \in DOMAIN long
    BY <1>1
  <2>5. QED
    BY <2>2, <2>3, <2>4
<1>3. old \subseteq 1..Len(nals) /\ Len(nals) + 1 \notin old
  BY <1>1 DEF Indices
<1> HIDE DEF old, new
<1>4. IsFiniteSet(old)
  <2>1. IsFiniteSet(1..Len(nals))
    BY <1>1, FS_Interval
  <2>2. QED
    BY <1>3, <2>1, FS_Subset
<1>5. Cardinality(old) \in Nat /\ Cardinality(old \cup {Len(nals) + 1}) = Cardinality(old) + 1
  BY <1>3, <1>4, FS_CardinalityType, FS_AddElement
<1>6. Cardinality(new) = Cardinality(old) + (IF nal.type \in {1, 5} THEN 1 ELSE 0)
  BY <1>2, <1>5
<1>7. QED
  BY <1>5, <1>6 DEF old, new, long

-----------------------------------------------------------------------------
(* The access-unit pass of inspect, by recursion on the NAL units.         *)

PassStart == [assembler |-> NewAssembler, access_units |-> <<>>]

IsPass(f, nals, n) ==
  f = [p \in 0..n |-> IF p = 0 THEN PassStart ELSE AssembleNext(nals, f[p - 1], p)]

Pass(nals, n) == CHOOSE f : IsPass(f, nals, n)

(* There is such a function for every number of NAL units.                 *)
LEMMA PassExists ==
  ASSUME NEW nals, NEW n \in Nat
  PROVE  IsPass(Pass(nals, n), nals, n)
<1> DEFINE Lengths == {k \in Nat : \E f : IsPass(f, nals, k)}
<1>1. 0 \in Lengths
  <2> DEFINE f == [p \in 0..0 |-> PassStart]
  <2>1. IsPass(f, nals, 0)
    BY DEF IsPass
  <2>2. QED
    BY <2>1
<1>2. ASSUME NEW k \in Nat, k \in Lengths PROVE k + 1 \in Lengths
  <2>1. PICK f : IsPass(f, nals, k)
    BY <1>2
  <2> DEFINE g == [p \in 0..(k + 1) |->
                     IF p = k + 1 THEN AssembleNext(nals, f[k], k + 1) ELSE f[p]]
  <2>2. \A i \in 0..k : g[i] = f[i]
    OBVIOUS
  <2>3. \A i \in 0..k : f[i] = IF i = 0 THEN PassStart ELSE AssembleNext(nals, f[i - 1], i)
    BY <2>1 DEF IsPass
  <2>4. ASSUME NEW i \in 0..(k + 1)
        PROVE  g[i] = IF i = 0 THEN PassStart ELSE AssembleNext(nals, g[i - 1], i)
    <3>1. CASE i = k + 1
      <4>1. g[i - 1] = f[k] /\ g[i] = AssembleNext(nals, f[k], i) /\ i # 0
        BY <2>2, <3>1, i - 1 \in 0..k
      <4> HIDE DEF g
      <4>2. QED
        BY <4>1
    <3>2. CASE i # k + 1
      <4>1. i \in 0..k /\ (i # 0 => i - 1 \in 0..k)
        BY <3>2
      <4> HIDE DEF g
      <4>2. QED
        BY <2>2, <2>3, <4>1
    <3>3. QED
      BY <3>1, <3>2
  <2>5. IsPass(g, nals, k + 1)
    <3>1. g = [i \in 0..(k + 1) |-> g[i]]
      OBVIOUS
    <3> HIDE DEF g
    <3>2. QED
      BY <2>4, <3>1 DEF IsPass
  <2>6. QED
    BY <2>5
<1>3. Nat \subseteq Lengths
  <2> HIDE DEF Lengths
  <2>1. QED
    BY <1>1, <1>2, InductionOnSet
<1>4. QED
  BY <1>3 DEF Pass

(* The first step of the pass, and each further one.                       *)
LEMMA PassSteps ==
  ASSUME NEW nals, NEW n \in Nat
  PROVE  /\ Pass(nals, n)[0] = PassStart
         /\ \A p \in 1..n : Pass(nals, n)[p] = AssembleNext(nals, Pass(nals, n)[p - 1], p)
<1> DEFINE f == Pass(nals, n)
<1>1. IsPass(f, nals, n)
  BY PassExists
<1> HIDE DEF f
<1>2. \A p \in 0..n : f[p] = IF p = 0 THEN PassStart ELSE AssembleNext(nals, f[p - 1], p)
  BY <1>1 DEF IsPass
<1>3. f[0] = PassStart /\ \A p \in 1..n : f[p] = AssembleNext(nals, f[p - 1], p)
  BY <1>2
<1>4. QED
  BY <1>3 DEF f

(* What inspect has assembled from all of the NAL units.                   *)
AssembledFrom(nals) == Pass(nals, Len(nals))[Len(nals)]

(* The access units of inspect are what the pass ends with.                *)
LEMMA AccessUnitsAssembled ==
  ASSUME NEW nals
  PROVE  InspectAccessUnits(nals)
           = Collect(AssembledFrom(nals).access_units,
                     FinishAssembler(AssembledFrom(nals).assembler).completed)
BY DEF InspectAccessUnits, AssembledFrom, Pass, IsPass, PassStart

(* A NAL unit behind what is read in order is one more step of the pass.   *)
LEMMA NextAssembled ==
  ASSUME NEW S, NEW nals \in Seq(S), NEW nal \in S, ReadsInOrder(nals, Len(nals))
  PROVE  AssembledFrom(Append(nals, nal))
           = AssembleNext(Append(nals, nal), AssembledFrom(nals), Len(nals) + 1)
<1> DEFINE long == Append(nals, nal)
           n == Len(nals)
           f == Pass(nals, n)
           g == Pass(long, n + 1)
           Same == {p \in Nat : p <= n => g[p] = f[p]}
<1>1. n \in Nat /\ Len(long) = n + 1 /\ \A p \in 1..n : long[p] = nals[p]
  OBVIOUS
<1>2. ASSUME NEW p \in 1..n PROVE InspectSlice(long, p) = InspectSlice(nals, p)
  <2>1. ReadsInOrder(nals, p - 1)
    BY DEF ReadsInOrder
  <2>2. QED
    BY <2>1, SliceStays
<1> HIDE DEF long, n
<1>3. \A p \in 1..n : \A result : AssembleNext(long, result, p) = AssembleNext(nals, result, p)
  BY <1>1, <1>2 DEF AssembleNext
<1>4. /\ f[0] = PassStart /\ \A p \in 1..n : f[p] = AssembleNext(nals, f[p - 1], p)
      /\ g[0] = PassStart /\ \A p \in 1..(n + 1) : g[p] = AssembleNext(long, g[p - 1], p)
  BY <1>1, PassSteps
<1> HIDE DEF f, g
<1>5. 0 \in Same
  BY <1>4
<1>6. ASSUME NEW p \in Nat, p \in Same PROVE p + 1 \in Same
  <2>1. SUFFICES ASSUME p + 1 <= n PROVE g[p + 1] = f[p + 1]
    OBVIOUS
  <2>2. p + 1 \in 1..n /\ p + 1 \in 1..(n + 1) /\ (p + 1) - 1 = p /\ g[p] = f[p]
    BY <1>1, <1>6, <2>1
  <2>3. QED
    BY <1>3, <1>4, <2>2
<1>7. Nat \subseteq Same
  <2> HIDE DEF Same
  <2>1. QED
    BY <1>5, <1>6, InductionOnSet
<1>8. g[n] = f[n]
  BY <1>1, <1>7
<1>9. g[n + 1] = AssembleNext(long, g[n], n + 1)
  <2>1. n + 1 \in 1..(n + 1) /\ (n + 1) - 1 = n
    BY <1>1
  <2>2. QED
    BY <1>4, <2>1
<1>10. AssembledFrom(long) = g[n + 1] /\ AssembledFrom(nals) = f[n]
  BY <1>1 DEF AssembledFrom, f, g, n
<1>11. QED
  BY <1>8, <1>9, <1>10 DEF long, n

-----------------------------------------------------------------------------
(* As long as there are no diagnostics, the stream model is where inspect  *)
(* is after the same NAL units; from the first one on, inspect has read    *)
(* the NAL units before it without an error, and will, whatever follows.   *)

InspectedAlike ==
  /\ ReadsInOrder(pushed, Len(pushed))
  /\ sps = ActiveSps(pushed, Len(pushed) + 1)
  /\ pps = ActivePps(pushed, Len(pushed) + 1)
  /\ slices = Cardinality(Indices(pushed, {1, 5}))

AssembledAlike ==
  IF finished
  THEN access_units = InspectAccessUnits(pushed) /\ gop = AnalyzeGop(access_units)
  ELSE assembler = AssembledFrom(pushed).assembler
       /\ access_units = AssembledFrom(pushed).access_units

AgreeInv ==
  IF diagnostics = <<>> THEN InspectedAlike /\ AssembledAlike
  ELSE /\ diagnostics[1].nal_index \in 0..Len(pushed)
       /\ ReadsInOrder(pushed, diagnostics[1].nal_index)

(* Both begin with nothing.                                                *)
LEMMA AgreeAtStart == Init => AgreeInv
<1> SUFFICES ASSUME Init PROVE AgreeInv
  OBVIOUS
<1>1. /\ pushed = <<>> /\ diagnostics = <<>> /\ slices = 0 /\ ~ finished
      /\ sps = [id \in SpsIds |-> Nothing] /\ pps = [id \in PpsIds |-> Nothing]
      /\ assembler = NewAssembler /\ access_units = <<>>
  BY DEF Init
<1>2. Len(pushed) = 0 /\ DOMAIN pushed = {}
  BY <1>1
<1>3. ReadsInOrder(pushed, Len(pushed))
  BY <1>2 DEF ReadsInOrder
<1>4. \A types : Indices(pushed, types) = {}
  BY <1>2 DEF Indices
<1>5. /\ \A id : SpsBefore(pushed, Len(pushed) + 1, id) = {}
      /\ \A id : PpsBefore(pushed, Len(pushed) + 1, id) = {}
  BY <1>4 DEF SpsBefore, PpsBefore
<1>6. /\ sps = ActiveSps(pushed, Len(pushed) + 1)
      /\ pps = ActivePps(pushed, Len(pushed) + 1)
  BY <1>1, <1>5, ActiveAreLatest DEF LatestSps, LatestPps
<1>7. slices = Cardinality(Indices(pushed, {1, 5}))
  BY <1>1, <1>4, FS_EmptySet
<1>8. AssembledFrom(pushed) = PassStart
  BY <1>2, PassSteps DEF AssembledFrom
<1>9. AssembledAlike
  BY <1>1, <1>8 DEF AssembledAlike, PassStart
<1>10. QED
  BY <1>1, <1>3, <1>6, <1>7, <1>9 DEF AgreeInv, InspectedAlike

(* Both end with the access unit at hand and the GOP statistics of all.    *)
LEMMA AgreeWhenFinished == AgreeInv /\ Finish => AgreeInv'
<1> SUFFICES ASSUME AgreeInv, Finish PROVE AgreeInv'
  OBVIOUS
<1>1. /\ UNCHANGED <<sps, pps, slices, diagnostics, pushed>> /\ ~ finished /\ finished'
      /\ access_units' = Collect(access_units, FinishAssembler(assembler).completed)
      /\ gop' = AnalyzeGop(access_units')
  BY DEF Finish, Accept, parameterVars
<1>2. CASE diagnostics = <<>>
  <2>1. InspectedAlike /\ assembler = AssembledFrom(pushed).assembler
        /\ access_units = AssembledFrom(pushed).access_units
    BY <1>1, <1>2 DEF AgreeInv, AssembledAlike
  <2>2. access_units' = InspectAccessUnits(pushed)
    BY <1>1, <2>1, AccessUnitsAssembled
  <2>3. InspectedAlike' /\ AssembledAlike'
    BY <1>1, <2>1, <2>2 DEF InspectedAlike, AssembledAlike
  <2>4. QED
    BY <1>1, <1>2, <2>3 DEF AgreeInv
<1>3. CASE diagnostics # <<>>
  BY <1>1, <1>3 DEF AgreeInv
<1>4. QED
  BY <1>2, <1>3

(* After an earlier diagnostic, and with the first one.                    *)
LEMMA AgreeWhenDiagnosed ==
  ASSUME StreamInv, AgreeInv, NEW nal \in NalUnits, Begin(nal),
         \/ diagnostics # <<>> /\ UNCHANGED diagnostics
         \/ \E error : RecordError(error)
  PROVE  AgreeInv'
<1>1. /\ pushed \in Seq(NalUnits) /\ Len(pushed) = nal_units
      /\ diagnostics \in Seq(Diagnostic(nal_units)) /\ nal_units \in Nat
  BY DEF StreamInv, StreamTypes
<1>2. pushed' = Append(pushed, nal) /\ Len(pushed') = Len(pushed) + 1
  BY <1>1 DEF Begin
<1>3. PICK n \in 0..Len(pushed) :
        /\ ReadsInOrder(pushed, n)
        /\ diagnostics' # <<>> /\ diagnostics'[1].nal_index = n
  <2>1. CASE diagnostics # <<>>
    <3>1. ASSUME NEW error, RecordError(error)
          PROVE  diagnostics' # <<>> /\ diagnostics'[1] = diagnostics[1]
      <4> DEFINE e == [nal_index |-> nal_units, code |-> error.code]
                 All == Diagnostic(nal_units) \cup {e}
      <4>1. diagnostics \in Seq(All) /\ e \in All /\ 1 \in DOMAIN diagnostics
        BY <1>1, <2>1
      <4>2. diagnostics' = Append(diagnostics, e)
        BY <3>1 DEF RecordError
      <4> HIDE DEF e, All
      <4>3. /\ DOMAIN diagnostics' = DOMAIN diagnostics \cup {Len(diagnostics) + 1}
            /\ \A i \in DOMAIN diagnostics : diagnostics'[i] = diagnostics[i]
        BY <4>1, <4>2, AppendedElements
      <4>4. QED
        BY <4>1, <4>3
    <3>2. diagnostics' # <<>> /\ diagnostics'[1] = diagnostics[1]
      BY <2>1, <3>1
    <3>3. QED
      BY <2>1, <3>2 DEF AgreeInv
  <2>2. CASE diagnostics = <<>>
    <3>1. PICK error : diagnostics' = <<[nal_index |-> nal_units, code |-> error.code]>>
      BY <2>2 DEF RecordError
    <3>2. ReadsInOrder(pushed, Len(pushed))
      BY <2>2 DEF AgreeInv, InspectedAlike
    <3>3. QED
      BY <1>1, <3>1, <3>2
  <2>3. QED
    BY <2>1, <2>2
<1>4. ReadsInOrder(pushed', n)
  BY <1>1, <1>2, <1>3, OrderStays
<1>5. n \in 0..Len(pushed')
  BY <1>1, <1>2
<1>6. QED
  BY <1>3, <1>4, <1>5 DEF AgreeInv

(* What a NAL unit without a diagnostic has to do.                         *)
LEMMA AgreeWhenRead ==
  ASSUME StreamInv, AgreeInv, diagnostics = <<>>, UNCHANGED diagnostics,
         NEW nal \in NalUnits, Begin(nal),
         nal.type # InvalidHeader,
         nal.type = 7 => nal.sps # Malformed,
         sps' = IF nal.type = 7 THEN Store(sps, nal.sps.id, nal.sps) ELSE sps,
         nal.type = 8 => ~ IsError(ReadPps(nal, sps)),
         pps' = IF nal.type = 8 THEN Store(pps, ReadPps(nal, sps).id, ReadPps(nal, sps)) ELSE pps,
         nal.type \in {1, 5} => ~ IsError(ReadSlice(nal, sps, pps)),
         slices' = (IF nal.type \in {1, 5} THEN slices + 1 ELSE slices),
         Accept(IF nal.type \in {1, 5}
                THEN PushSlice(assembler, nal_units, ReadSlice(nal, sps, pps))
                ELSE PushOtherNal(assembler, nal_units, nal.type))
  PROVE  AgreeInv'
<1> DEFINE n == Len(pushed)
           long == Append(pushed, nal)
<1>1. /\ pushed \in Seq(NalUnits) /\ n = nal_units /\ n \in Nat
      /\ pushed' = long /\ finished' = finished /\ ~ finished
  BY DEF StreamInv, StreamTypes, Begin
<1>2. /\ ReadsInOrder(pushed, n) /\ sps = ActiveSps(pushed, n + 1)
      /\ pps = ActivePps(pushed, n + 1) /\ slices = Cardinality(Indices(pushed, {1, 5}))
      /\ assembler = AssembledFrom(pushed).assembler
      /\ access_units = AssembledFrom(pushed).access_units
  BY <1>1 DEF AgreeInv, InspectedAlike, AssembledAlike
<1>3. /\ long \in Seq(NalUnits) /\ Len(long) = n + 1 /\ long[n + 1] = nal
      /\ \A i \in 1..n : long[i] = pushed[i]
      /\ n + 1 \in 1..Len(long) /\ n + 1 \in 1..(n + 1) /\ n \in 0..n
  BY <1>1
<1>4. sps = ActiveSps(long, n + 1) /\ pps = ActivePps(long, n + 1)
  <2>1. (n + 1) - 1 = n
    BY <1>1
  <2>2. /\ ActiveSps(long, n + 1) = ActiveSps(pushed, n + 1)
        /\ ReadsInOrder(pushed, (n + 1) - 1) =>
             ActivePps(long, n + 1) = ActivePps(pushed, n + 1)
    BY <1>1, <1>3, ActiveSetsStay
  <2>3. QED
    BY <1>2, <2>1, <2>2
<1>5. ReadsInOrder(long, n)
  BY <1>1, <1>2, <1>3, OrderStays
<1>6. slices' = Cardinality(Indices(long, {1, 5}))
  BY <1>1, <1>2, SlicesCounted
<1>7. AssembledFrom(long) = AssembleNext(long, AssembledFrom(pushed), n + 1)
  BY <1>1, <1>2, NextAssembled
<1> HIDE DEF n, long
<1>8. ASSUME nal.type = 8
      PROVE  /\ \E j \in 1..n : long[j].type = 7 /\ long[j].sps.id = nal.ids.sps_id
             /\ InspectPps(long, n + 1) = ReadPps(nal, sps)
  <2>1. (n + 1) - 1 = n
    BY <1>1
  <2>2. /\ \E j \in 1..((n + 1) - 1) :
             long[j].type = 7 /\ long[j].sps.id = long[n + 1].ids.sps_id
        /\ InspectPps(long, n + 1) = ReadPps(long[n + 1], ActiveSps(long, n + 1))
    BY <1>3, <1>4, <1>8, PpsReadAlike
  <2>3. QED
    BY <1>3, <1>4, <2>1, <2>2
<1>9. InspectSlice(long, n + 1) = ReadSlice(nal, sps, pps)
  BY <1>3, <1>4 DEF InspectSlice
<1>10. ReadsInOrder(long, n + 1)
  <2> SUFFICES ASSUME NEW i \in 1..(n + 1)
               PROVE  /\ long[i].type # InvalidHeader
                      /\ long[i].type = 7 => long[i].sps # Malformed
                      /\ long[i].type = 8 =>
                           /\ \E j \in 1..(i - 1) :
                                long[j].type = 7 /\ long[j].sps.id = long[i].ids.sps_id
                           /\ ~ IsError(InspectPps(long, i))
                      /\ long[i].type \in {1, 5} => ~ IsError(InspectSlice(long, i))
    BY DEF ReadsInOrder
  <2>1. CASE i \in 1..n
    BY <1>5, <2>1 DEF ReadsInOrder
  <2>2. CASE i = n + 1
    <3>1. i - 1 = n
      BY <1>1, <2>2
    <3>2. QED
      BY <1>3, <1>8, <1>9, <2>2, <3>1
  <2>3. i \in 1..n \/ i = n + 1
    BY <1>1
  <2>4. QED
    BY <2>1, <2>2, <2>3
<1>11. /\ sps' = ActiveSps(long, (n + 1) + 1)
       /\ pps' = ActivePps(long, (n + 1) + 1)
  BY <1>3, <1>4, <1>8, NextActiveSets
<1>12. InspectedAlike'
  <2>1. Len(pushed') = n + 1
    BY <1>1, <1>3
  <2>2. QED
    BY <1>1, <1>6, <1>10, <1>11, <2>1 DEF InspectedAlike
<1>13. /\ assembler' = AssembledFrom(long).assembler
       /\ access_units' = AssembledFrom(long).access_units
  <2> DEFINE step == IF nal.type \in {1, 5}
                     THEN PushSlice(assembler, nal_units, ReadSlice(nal, sps, pps))
                     ELSE PushOtherNal(assembler, nal_units, nal.type)
  <2>1. (n + 1) - 1 = nal_units
    BY <1>1
  <2>2. AssembledFrom(long) = [assembler |-> step.assembler,
                               access_units |-> Collect(access_units, step.completed)]
    BY <1>2, <1>3, <1>7, <1>9, <2>1 DEF AssembleNext, IsSupportedVcl
  <2>3. assembler' = step.assembler /\ access_units' = Collect(access_units, step.completed)
    BY DEF Accept
  <2> HIDE DEF step
  <2>4. QED
    BY <2>2, <2>3
<1>14. AssembledAlike'
  BY <1>1, <1>13 DEF AssembledAlike
<1>15. QED
  BY <1>12, <1>14 DEF AgreeInv

(* Every NAL unit is read alike or leaves a diagnostic.                    *)
LEMMA AgreeStep ==
  ASSUME StreamInv, AgreeInv, NEW nal \in NalUnits, Push(nal)
  PROVE  AgreeInv'
<1> DEFINE Diagnosing == \/ diagnostics # <<>> /\ UNCHANGED diagnostics
                         \/ \E error : RecordError(error)
<1>1. ASSUME Begin(nal), Diagnosing PROVE AgreeInv'
  BY <1>1, AgreeWhenDiagnosed
<1>2. ASSUME RecordError(SyntaxInvalid) \/ RecordError(NotFound) PROVE Diagnosing
  BY <1>2
<1>3. CASE PushInvalid(nal)
  BY <1>1, <1>2, <1>3 DEF PushInvalid
<1>4. CASE PushSps(nal)
  <2>1. /\ Begin(nal) /\ nal.type = 7 /\ AcceptNonVcl(nal) /\ pps' = pps /\ slices' = slices
    BY <1>4 DEF PushSps
  <2>2. CASE nal.sps = Malformed
    BY <1>1, <1>2, <1>4, <2>1, <2>2 DEF PushSps
  <2>3. CASE nal.sps # Malformed
    <3>1. sps' = Store(sps, nal.sps.id, nal.sps) /\ UNCHANGED diagnostics
      BY <1>4, <2>3 DEF PushSps
    <3>2. CASE diagnostics # <<>>
      BY <1>1, <2>1, <3>1, <3>2
    <3>3. CASE diagnostics = <<>>
      <4>1. nal.type # InvalidHeader /\ nal.type # 8 /\ nal.type \notin {1, 5}
        BY <2>1 DEF InvalidHeader
      <4>2. Accept(PushOtherNal(assembler, nal_units, nal.type))
        BY <2>1 DEF AcceptNonVcl
      <4>3. QED
        BY <2>1, <2>3, <3>1, <3>3, <4>1, <4>2, AgreeWhenRead
    <3>4. QED
      BY <3>2, <3>3
  <2>4. QED
    BY <2>2, <2>3
<1>5. CASE PushPps(nal)
  <2>1. /\ Begin(nal) /\ nal.type = 8 /\ AcceptNonVcl(nal) /\ sps' = sps /\ slices' = slices
    BY <1>5 DEF PushPps
  <2>2. CASE IsError(ReadPps(nal, sps))
    BY <1>1, <1>2, <1>5, <2>1, <2>2 DEF PushPps, IsError
  <2>3. CASE ~ IsError(ReadPps(nal, sps))
    <3>1. pps' = Store(pps, ReadPps(nal, sps).id, ReadPps(nal, sps)) /\ UNCHANGED diagnostics
      BY <1>5, <2>3 DEF PushPps
    <3>2. CASE diagnostics # <<>>
      BY <1>1, <2>1, <3>1, <3>2
    <3>3. CASE diagnostics = <<>>
      <4>1. nal.type # InvalidHeader /\ nal.type # 7 /\ nal.type \notin {1, 5}
        BY <2>1 DEF InvalidHeader
      <4>2. Accept(PushOtherNal(assembler, nal_units, nal.type))
        BY <2>1 DEF AcceptNonVcl
      <4>3. QED
        BY <2>1, <2>3, <3>1, <3>3, <4>1, <4>2, AgreeWhenRead
    <3>4. QED
      BY <3>2, <3>3
  <2>4. QED
    BY <2>2, <2>3
<1>6. CASE PushVcl(nal)
  <2>1. Begin(nal) /\ nal.type \in {1, 5} /\ sps' = sps /\ pps' = pps
    BY <1>6 DEF PushVcl, IsSupportedVcl, parameterVars
  <2>2. CASE IsError(ReadSlice(nal, sps, pps))
    BY <1>1, <1>2, <1>6, <2>1, <2>2 DEF PushVcl, IsError
  <2>3. CASE ~ IsError(ReadSlice(nal, sps, pps))
    <3>1. /\ slices' = slices + 1 /\ UNCHANGED diagnostics
          /\ Accept(PushSlice(assembler, nal_units, ReadSlice(nal, sps, pps)))
      BY <1>6, <2>3 DEF PushVcl
    <3>2. CASE diagnostics # <<>>
      BY <1>1, <2>1, <3>1, <3>2
    <3>3. CASE diagnostics = <<>>
      <4>1. nal.type # InvalidHeader /\ nal.type # 7 /\ nal.type # 8
        BY <2>1 DEF InvalidHeader
      <4>2. QED
        BY <2>1, <2>3, <3>1, <3>3, <4>1, AgreeWhenRead
    <3>4. QED
      BY <3>2, <3>3
  <2>4. QED
    BY <2>2, <2>3
<1>7. CASE PushOther(nal)
  <2>1. /\ Begin(nal) /\ AcceptNonVcl(nal) /\ nal.type \notin {InvalidHeader, 1, 5, 7, 8}
        /\ sps' = sps /\ pps' = pps /\ slices' = slices /\ UNCHANGED diagnostics
    BY <1>7 DEF PushOther, parameterVars
  <2>2. CASE diagnostics # <<>>
    BY <1>1, <2>1, <2>2
  <2>3. CASE diagnostics = <<>>
    <3>1. Accept(PushOtherNal(assembler, nal_units, nal.type))
      BY <2>1 DEF AcceptNonVcl
    <3>2. QED
      BY <2>1, <2>3, <3>1, AgreeWhenRead
  <2>4. QED
    BY <2>2, <2>3
<1>8. QED
  BY <1>3, <1>4, <1>5, <1>6, <1>7 DEF Push

(* What inspect has read in order has no error.                            *)
LEMMA NoErrorInOrder ==
  ASSUME NEW n \in Nat, n <= Len(pushed), pushed \in Seq(NalUnits), ReadsInOrder(pushed, n)
  PROVE  /\ InspectError(pushed) # 0 => n <= InspectError(pushed) - 1
         /\ n = Len(pushed) => InspectError(pushed) = 0
<1> DEFINE Errors == {HeaderErrors(pushed), SpsErrors(pushed), PpsErrors(pushed),
                      SliceErrors(pushed)}
           error == InspectError(pushed)
<1>1. ASSUME NEW i \in UNION Errors PROVE i \in DOMAIN pushed /\ i \notin 1..n
  BY DEF ReadsInOrder, HeaderErrors, SpsErrors, PpsErrors, SliceErrors, Indices
<1>2. ASSUME NEW E \in Errors, E # {} PROVE Min(E) \in E
  <2>1. E \in SUBSET Nat
    BY <1>1
  <2>2. QED
    BY <1>2, <2>1, FirstPosition
<1>3. error = 0 \/ error \in UNION Errors
  BY <1>2 DEF InspectError
<1> HIDE DEF Errors, error
<1>4. ASSUME error # 0 PROVE error \in 1..Len(pushed) /\ error \notin 1..n
  BY <1>1, <1>3, <1>4
<1>5. QED
  BY <1>4 DEF error

(* inspect and the stream model agree about every stream: without          *)
(* diagnostics, their parameter sets, access units and GOP are the same;   *)
(* and where inspect gives up, the stream model has had a diagnostic.      *)
THEOREM StreamsAgreeWithFiles == Spec => []CleanStreamsAgree
<1>1. ASSUME StreamInv, AgreeInv, [Next]_vars PROVE AgreeInv'
  <2>1. CASE UNCHANGED vars
    BY <1>1, <2>1 DEF vars, parameterVars, AgreeInv, InspectedAlike, AssembledAlike
  <2>2. QED
    BY <1>1, <2>1, AgreeWhenFinished, AgreeStep DEF Next
<1>2. ASSUME StreamInv, AgreeInv PROVE CleanStreamsAgree
  <2> SUFFICES ASSUME finished PROVE CleanStreamsAgree
    BY DEF CleanStreamsAgree
  <2>1. /\ pushed \in Seq(NalUnits) /\ Len(pushed) \in Nat
        /\ diagnostics \in Seq(Diagnostic(nal_units))
    BY <1>2 DEF StreamInv, StreamTypes
  <2>2. CASE diagnostics = <<>>
    <3>1. InspectedAlike /\ AssembledAlike
      BY <1>2, <2>2 DEF AgreeInv
    <3>2. InspectError(pushed) = 0
      BY <2>1, <3>1, NoErrorInOrder DEF InspectedAlike
    <3>3. QED
      BY <3>1, <3>2 DEF CleanStreamsAgree, InspectedAlike, AssembledAlike
  <2>3. CASE diagnostics # <<>>
    <3> DEFINE n == diagnostics[1].nal_index
    <3>1. n \in 0..Len(pushed) /\ ReadsInOrder(pushed, n)
      BY <1>2, <2>3 DEF AgreeInv
    <3>2. n \in Diagnosed
      <4>1. 1 \in DOMAIN diagnostics
        BY <2>1, <2>3
      <4>2. QED
        BY <4>1 DEF Diagnosed
    <3> HIDE DEF n
    <3>3. InspectError(pushed) # 0 => n <= InspectError(pushed) - 1
      <4>1. n \in Nat /\ n <= Len(pushed)
        BY <2>1, <3>1
      <4>2. QED
        BY <2>1, <3>1, <4>1, NoErrorInOrder
    <3>4. QED
      BY <2>3, <3>2, <3>3 DEF CleanStreamsAgree
  <2>4. QED
    BY <2>2, <2>3
<1>3. QED
  BY <1>1, <1>2, AgreeAtStart, StreamInvariance, PTL DEF Spec
=============================================================================
