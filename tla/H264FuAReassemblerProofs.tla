---------------------- MODULE H264FuAReassemblerProofs ----------------------
(***************************************************************************)
(* Proofs about H264FuAReassembler for every set of packets, every size    *)
(* limit and every sequence modulus: what is collected and returned is one *)
(* NAL unit of the sender, byte for byte.                                  *)
(***************************************************************************)
EXTENDS H264FuAReassembler, SequenceArithmetic, SequenceTheorems

-----------------------------------------------------------------------------
(* The bytes of a run, by recursion on its length.                         *)

(* What the first i packets of a run contain, for i up to n.               *)
IsPrefixBytes(f, packets, n) ==
  f = [i \in 0..n |-> IF i = 0 THEN <<>>
                      ELSE f[i - 1] \o packets[i].payload.bytes]

PrefixBytes(packets, n) == CHOOSE f : IsPrefixBytes(f, packets, n)

(* There is such a function for every length.                              *)
LEMMA PrefixBytesExist ==
  ASSUME NEW packets, NEW n \in Nat
  PROVE  IsPrefixBytes(PrefixBytes(packets, n), packets, n)
<1> DEFINE Lengths == {k \in Nat : \E f : IsPrefixBytes(f, packets, k)}
<1>1. 0 \in Lengths
  <2> DEFINE f == [i \in 0..0 |-> <<>>]
  <2>1. IsPrefixBytes(f, packets, 0)
    BY DEF IsPrefixBytes
  <2>2. QED
    BY <2>1
<1>2. ASSUME NEW k \in Nat, k \in Lengths PROVE k + 1 \in Lengths
  <2>1. PICK f : IsPrefixBytes(f, packets, k)
    BY <1>2
  <2> DEFINE g == [i \in 0..(k + 1) |->
                     IF i = k + 1 THEN f[k] \o packets[k + 1].payload.bytes
                     ELSE f[i]]
  <2>2. \A i \in 0..k : g[i] = f[i]
    OBVIOUS
  <2>3. \A i \in 0..k : f[i] = IF i = 0 THEN <<>>
                               ELSE f[i - 1] \o packets[i].payload.bytes
    BY <2>1 DEF IsPrefixBytes
  <2>4. ASSUME NEW i \in 0..(k + 1)
        PROVE  g[i] = IF i = 0 THEN <<>> ELSE g[i - 1] \o packets[i].payload.bytes
    <3>1. CASE i = k + 1
      <4>1. g[i - 1] = f[k] /\ g[i] = f[k] \o packets[i].payload.bytes /\ i # 0
        BY <2>2, <3>1, i - 1 \in 0..k
      <4> HIDE DEF g
      <4>2. QED
        BY <4>1
    <3>2. CASE i # k + 1
      <4>1. i \in 0..k /\ (i # 0 => i - 1 \in 0..k)
        BY <3>2
      <4> HIDE DEF g
      <4>2. QED
        BY <2>2, <2>3, <4>1
    <3>3. QED
      BY <3>1, <3>2
  <2>5. IsPrefixBytes(g, packets, k + 1)
    <3>1. g = [i \in 0..(k + 1) |-> g[i]]
      OBVIOUS
    <3> HIDE DEF g
    <3>2. QED
      BY <2>4, <3>1 DEF IsPrefixBytes
  <2>6. QED
    BY <2>5
<1>3. Nat \subseteq Lengths
  <2> HIDE DEF Lengths
  <2>1. QED
    BY <1>1, <1>2, InductionOnSet
<1>4. QED
  BY <1>3 DEF PrefixBytes

(* And there is only one: a longer run only adds to it.                    *)
LEMMA PrefixBytesAgree ==
  ASSUME NEW packets, NEW longer, NEW n \in Nat, NEW m \in Nat, n <= m,
         \A i \in 1..n : packets[i] = longer[i]
  PROVE  \A i \in 0..n : PrefixBytes(packets, n)[i] = PrefixBytes(longer, m)[i]
<1> DEFINE f == PrefixBytes(packets, n)
           g == PrefixBytes(longer, m)
           Same == {i \in Nat : i <= n => f[i] = g[i]}
<1>1. /\ \A i \in 0..n : f[i] = IF i = 0 THEN <<>>
                                ELSE f[i - 1] \o packets[i].payload.bytes
      /\ \A i \in 0..m : g[i] = IF i = 0 THEN <<>>
                                ELSE g[i - 1] \o longer[i].payload.bytes
  <2>1. IsPrefixBytes(f, packets, n) /\ IsPrefixBytes(g, longer, m)
    BY PrefixBytesExist
  <2> HIDE DEF f, g
  <2>2. QED
    BY <2>1 DEF IsPrefixBytes
<1> HIDE DEF f, g
<1>2. 0 \in Same
  BY <1>1
<1>3. ASSUME NEW i \in Nat, i \in Same PROVE i + 1 \in Same
  <2>1. SUFFICES ASSUME i + 1 <= n PROVE f[i + 1] = g[i + 1]
    OBVIOUS
  <2>2. f[i] = g[i] /\ packets[i + 1] = longer[i + 1]
    BY <1>3, <2>1
  <2>3. /\ i + 1 \in 0..n /\ i + 1 \in 0..m /\ i + 1 # 0 /\ (i + 1) - 1 = i
    BY <2>1
  <2>4. /\ f[i + 1] = f[i] \o packets[i + 1].payload.bytes
        /\ g[i + 1] = g[i] \o longer[i + 1].payload.bytes
    BY <1>1, <2>3
  <2>5. QED
    BY <2>2, <2>4
<1>4. Nat \subseteq Same
  <2> HIDE DEF Same
  <2>1. QED
    BY <1>2, <1>3, InductionOnSet
<1>5. QED
  BY <1>4 DEF f, g

(* One more fragment adds its bytes to those collected before.             *)
LEMMA CollectedOfAppend ==
  ASSUME NEW S, NEW packets \in Seq(S), NEW packet \in S
  PROVE  Collected(Append(packets, packet))
           = Collected(packets) \o packet.payload.bytes
<1> DEFINE n == Len(packets)
           longer == Append(packets, packet)
           f == PrefixBytes(packets, n)
           g == PrefixBytes(longer, n + 1)
<1>1. /\ n \in Nat /\ Len(longer) = n + 1 /\ longer[n + 1] = packet
      /\ \A i \in 1..n : packets[i] = longer[i]
  OBVIOUS
<1>2. Collected(packets) = f[n] /\ Collected(longer) = g[n + 1]
  <2>1. Collected(longer) = PrefixBytes(longer, Len(longer))[Len(longer)]
    BY DEF Collected, PrefixBytes, IsPrefixBytes
  <2>2. Collected(packets) = f[n]
    BY DEF Collected, PrefixBytes, IsPrefixBytes
  <2>3. QED
    BY <1>1, <2>1, <2>2
<1> HIDE DEF longer
<1>3. f[n] = g[n]
  BY <1>1, PrefixBytesAgree
<1>4. g[n + 1] = g[n] \o longer[n + 1].payload.bytes
  <2>1. n + 1 \in Nat /\ n + 1 \in 0..(n + 1) /\ n + 1 # 0 /\ (n + 1) - 1 = n
    BY <1>1
  <2>2. g = [i \in 0..(n + 1) |-> IF i = 0 THEN <<>>
                                  ELSE g[i - 1] \o longer[i].payload.bytes]
    BY <2>1, PrefixBytesExist DEF IsPrefixBytes
  <2> HIDE DEF g, n
  <2>3. QED
    BY <2>1, <2>2
<1>5. QED
  BY <1>1, <1>2, <1>3, <1>4 DEF longer

(* A run that has just started has the bytes of its start fragment.        *)
LEMMA CollectedOfOne ==
  ASSUME NEW B, NEW packet, packet.payload.bytes \in Seq(B)
  PROVE  Collected(<<packet>>) = packet.payload.bytes
<1> DEFINE f == PrefixBytes(<<packet>>, 1)
<1>1. Collected(<<packet>>) = f[1]
  <2>1. Collected(<<packet>>) = PrefixBytes(<<packet>>, Len(<<packet>>))[Len(<<packet>>)]
    BY DEF Collected, PrefixBytes, IsPrefixBytes
  <2>2. QED
    BY <2>1, Len(<<packet>>) = 1
<1>2. f = [i \in 0..1 |-> IF i = 0 THEN <<>>
                          ELSE f[i - 1] \o (<<packet>>)[i].payload.bytes]
  BY PrefixBytesExist, 1 \in Nat DEF IsPrefixBytes
<1> HIDE DEF f
<1>3. f[0] = <<>> /\ f[1] = f[0] \o (<<packet>>)[1].payload.bytes
  BY <1>2
<1>4. QED
  BY <1>1, <1>3, ConcatEmptySeq

-----------------------------------------------------------------------------
(* The inductive invariant.                                                *)

(* The NAL unit being collected has the context of the first packet of the *)
(* run and waits for the successor of the last, and no packet of the run   *)
(* could have been the last one of a NAL unit.                             *)
ActiveIsOfRun ==
  active # Nothing =>
    /\ active \in [kind : {"active"},
                   nal_unit_type : {run[1].payload.nal_unit_type},
                   nal_ref_idc : {run[1].payload.nal_ref_idc},
                   bytes : Seq(Bytes),
                   start_sequence_number : {run[1].sequence_number},
                   expected_sequence_number :
                     {NextSequenceNumber(run[Len(run)].sequence_number)},
                   timestamp : {run[1].timestamp},
                   ssrc : {run[1].ssrc},
                   payload_type : {run[1].payload_type}]
    /\ \A i \in DOMAIN run : ~ run[i].marker

RunInv ==
  /\ run \in Seq(Packets)
  /\ ActiveIsOfRun
  /\ ActiveIsOneRun
  /\ CompletedIsOneRun

(* What an opened NAL unit looks like to the comparisons of a later packet.*)
LEMMA ContextOfOpened ==
  ASSUME NEW first, NEW packet
  PROVE  SameContext(Opened(first), packet)
           <=> /\ packet.timestamp = first.timestamp
               /\ packet.ssrc = first.ssrc
               /\ packet.payload_type = first.payload_type
               /\ packet.payload.nal_ref_idc = first.payload.nal_ref_idc
               /\ packet.payload.nal_unit_type = first.payload.nal_unit_type
BY DEF SameContext, Opened

(* A run that may go on, and a packet that continues it, are one NAL unit. *)
LEMMA OneRunGrows ==
  ASSUME NEW packets \in Seq(Packets), NEW packet \in Packets,
         IsOneNalUnit(packets),
         \A i \in DOMAIN packets : ~ packets[i].payload.end /\ ~ packets[i].marker,
         ~ packet.payload.start,
         SameContext(Opened(packets[1]), packet),
         packet.sequence_number
           = NextSequenceNumber(packets[Len(packets)].sequence_number)
  PROVE  IsOneNalUnit(Append(packets, packet))
<1> DEFINE n == Len(packets)
           longer == Append(packets, packet)
<1>1. /\ n \in Nat /\ n >= 1 /\ DOMAIN packets = 1..n
      /\ Len(longer) = n + 1 /\ DOMAIN longer = 1..(n + 1)
      /\ longer[n + 1] = packet
      /\ \A i \in 1..n : longer[i] = packets[i]
      /\ longer # <<>>
  BY DEF IsOneNalUnit
<1> HIDE DEF longer
<1>2. longer[1] = packets[1] /\ longer[1].payload.start
  BY <1>1 DEF IsOneNalUnit
<1>3. ASSUME NEW i \in DOMAIN longer
      PROVE  /\ SameContext(Opened(longer[1]), longer[i])
             /\ longer[i].payload.start => i = 1
             /\ longer[i].payload.end => i = Len(longer)
             /\ longer[i].marker => i = Len(longer)
             /\ i > 1 => longer[i].sequence_number
                           = NextSequenceNumber(longer[i - 1].sequence_number)
  <2>1. CASE i = n + 1
    <3>1. longer[i] = packet /\ longer[i - 1] = packets[n]
      BY <1>1, <2>1
    <3>2. QED
      BY <1>1, <1>2, <2>1, <3>1
  <2>2. CASE i \in 1..n
    <3>1. longer[i] = packets[i] /\ (i > 1 => longer[i - 1] = packets[i - 1])
      BY <1>1, <2>2
    <3>2. QED
      BY <1>1, <1>2, <2>2, <3>1 DEF IsOneNalUnit
  <2>3. QED
    BY <1>1, <1>3, <2>1, <2>2
<1>4. QED
  BY <1>1, <1>2, <1>3 DEF longer, IsOneNalUnit

(* A start fragment opens a run of its own.                                *)
LEMMA OpeningInv ==
  ASSUME NEW packet \in Packets, FragmentIsValid(packet), StartFits(packet),
         packet.payload.start,
         active' = Opened(packet), nal' = Nothing, run' = <<packet>>
  PROVE  RunInv'
<1>1. /\ run' \in Seq(Packets) /\ Len(run') = 1 /\ DOMAIN run' = {1}
      /\ run'[1] = packet
  OBVIOUS
<1>2. ~ packet.payload.end /\ ~ packet.marker
  BY DEF FragmentIsValid
<1>3. packet.payload.bytes \in Seq(Bytes)
  BY ReassemblerAssumption DEF ReassemblerAssumption
<1>4. ActiveIsOfRun'
  BY <1>1, <1>2, <1>3 DEF ActiveIsOfRun, Opened
<1>5. ActiveIsOneRun'
  <2>1. IsOneNalUnit(run')
    <3>1. run' # <<>>
      OBVIOUS
    <3>2. SameContext(Opened(packet), packet)
      BY ContextOfOpened
    <3>3. QED
      BY <1>1, <1>2, <3>1, <3>2 DEF IsOneNalUnit
  <2>2. active'.bytes = packet.payload.bytes
    BY DEF Opened
  <2>3. active'.bytes = Collected(run')
    BY <1>3, <2>2, CollectedOfOne
  <2>4. /\ active'.start_sequence_number = packet.sequence_number
        /\ active'.expected_sequence_number
             = NextSequenceNumber(packet.sequence_number)
    BY DEF Opened
  <2>5. Size(active') <= MaxNalUnitSize
    <3>1. Len(packet.payload.bytes) \in Nat /\ MaxNalUnitSize \in Int
      BY <1>3, ReassemblerAssumption DEF ReassemblerAssumption
    <3>2. QED
      BY <2>2, <3>1 DEF Size, StartFits
  <2>6. QED
    BY <1>1, <1>2, <2>1, <2>3, <2>4, <2>5 DEF ActiveIsOneRun, IsOneNalUnit, Collected, Size
<1>6. CompletedIsOneRun'
  BY DEF CompletedIsOneRun
<1>7. QED
  BY <1>1, <1>4, <1>5, <1>6 DEF RunInv

(* The continuation that the code lets through adds to the bytes what the  *)
(* packet adds to the run, and fits.                                       *)
LEMMA ContinuationGrowsRun ==
  ASSUME RunInv, NEW packet \in Packets, FragmentIsValid(packet),
         ~ packet.payload.start, Continues(active, packet),
         run' = Append(run, packet)
  PROVE  /\ active # Nothing /\ run # <<>>
         /\ run' \in Seq(Packets) /\ Len(run') = Len(run) + 1
         /\ run'[1] = run[1] /\ run'[Len(run')] = packet
         /\ IsOneNalUnit(run')
         /\ \A i \in DOMAIN run : run'[i] = run[i]
         /\ Extended(active, packet)
              \in [kind : {"active"},
                   nal_unit_type : {run[1].payload.nal_unit_type},
                   nal_ref_idc : {run[1].payload.nal_ref_idc},
                   bytes : {Collected(run')},
                   start_sequence_number : {run[1].sequence_number},
                   expected_sequence_number :
                     {NextSequenceNumber(packet.sequence_number)},
                   timestamp : {run[1].timestamp},
                   ssrc : {run[1].ssrc},
                   payload_type : {run[1].payload_type}]
         /\ Collected(run') \in Seq(Bytes)
         /\ Len(Collected(run')) + 1 <= MaxNalUnitSize
<1>1. /\ active # Nothing /\ IsOneNalUnit(run) /\ run \in Seq(Packets)
      /\ \A i \in DOMAIN run : ~ run[i].payload.end /\ ~ run[i].marker
      /\ active.bytes = Collected(run)
      /\ Size(active) <= MaxNalUnitSize
  BY DEF RunInv, Continues, ActiveIsOneRun, ActiveIsOfRun
<1>2. active \in [kind : {"active"},
                  nal_unit_type : {run[1].payload.nal_unit_type},
                  nal_ref_idc : {run[1].payload.nal_ref_idc},
                  bytes : Seq(Bytes),
                  start_sequence_number : {run[1].sequence_number},
                  expected_sequence_number :
                    {NextSequenceNumber(run[Len(run)].sequence_number)},
                  timestamp : {run[1].timestamp},
                  ssrc : {run[1].ssrc},
                  payload_type : {run[1].payload_type}]
  BY <1>1 DEF RunInv, ActiveIsOfRun
<1>3. /\ run # <<>> /\ Len(run) \in Nat /\ Len(run) >= 1
      /\ run' \in Seq(Packets) /\ Len(run') = Len(run) + 1
      /\ run'[1] = run[1] /\ run'[Len(run')] = packet
      /\ \A i \in DOMAIN run : run'[i] = run[i]
  BY <1>1 DEF IsOneNalUnit
<1>4. SameContext(Opened(run[1]), packet)
  <2>1. SameContext(active, packet)
    BY DEF Continues
  <2>2. /\ packet.timestamp = run[1].timestamp
        /\ packet.ssrc = run[1].ssrc
        /\ packet.payload_type = run[1].payload_type
        /\ packet.payload.nal_ref_idc = run[1].payload.nal_ref_idc
        /\ packet.payload.nal_unit_type = run[1].payload.nal_unit_type
    BY <1>2, <2>1 DEF SameContext
  <2>3. QED
    BY <2>2, ContextOfOpened
<1>5. packet.sequence_number = NextSequenceNumber(run[Len(run)].sequence_number)
  BY <1>2 DEF Continues
<1>6. IsOneNalUnit(run')
  BY <1>1, <1>4, <1>5, OneRunGrows
<1>7. Collected(run') = active.bytes \o packet.payload.bytes
  BY <1>1, CollectedOfAppend
<1>8. active.bytes \in Seq(Bytes) /\ packet.payload.bytes \in Seq(Bytes)
  BY <1>2, ReassemblerAssumption DEF ReassemblerAssumption
<1>9. /\ Collected(run') \in Seq(Bytes)
      /\ Len(Collected(run')) = Len(active.bytes) + Len(packet.payload.bytes)
  BY <1>7, <1>8, ConcatProperties
<1>10. Len(Collected(run')) + 1 <= MaxNalUnitSize
  <2>1. /\ MaxNalUnitSize \in 0..(SizeModulus - 1) /\ SizeModulus \in Nat
        /\ Len(active.bytes) \in Nat /\ Len(packet.payload.bytes) \in Nat
    BY <1>8, ReassemblerAssumption DEF ReassemblerAssumption
  <2> DEFINE room == MaxNalUnitSize - Size(active)
  <2>2. room \in 0..(SizeModulus - 1)
    BY <1>1, <2>1 DEF Size
  <2>3. room % SizeModulus = room
    <3>1. /\ SizeModulus \in Nat \ {0} /\ room \in Int
          /\ room = SizeModulus * 0 + room
      BY <2>1, <2>2
    <3> HIDE DEF room
    <3>2. QED
      BY <2>2, <3>1, ResidueIsUnique, 0 \in Int
  <2>4. Len(packet.payload.bytes) <= room
    BY <2>3 DEF Continues, ContinuationFits
  <2>5. room = MaxNalUnitSize - (Len(active.bytes) + 1)
    BY DEF Size
  <2> DEFINE held == Len(active.bytes)
             added == Len(packet.payload.bytes)
             total == Len(Collected(run'))
  <2>6. /\ held \in Nat /\ added \in Nat /\ MaxNalUnitSize \in Int
        /\ added <= room /\ room = MaxNalUnitSize - (held + 1)
        /\ total = held + added
    BY <1>9, <2>1, <2>4, <2>5
  <2> HIDE DEF room, held, added, total
  <2>7. total + 1 <= MaxNalUnitSize
    BY <2>6
  <2>8. QED
    BY <2>7 DEF total
<1>11. Extended(active, packet)
         \in [kind : {"active"},
              nal_unit_type : {run[1].payload.nal_unit_type},
              nal_ref_idc : {run[1].payload.nal_ref_idc},
              bytes : {active.bytes \o packet.payload.bytes},
              start_sequence_number : {run[1].sequence_number},
              expected_sequence_number :
                {NextSequenceNumber(packet.sequence_number)},
              timestamp : {run[1].timestamp},
              ssrc : {run[1].ssrc},
              payload_type : {run[1].payload_type}]
  BY <1>2 DEF Extended
<1>12. QED
  BY <1>1, <1>3, <1>6, <1>7, <1>9, <1>10, <1>11

(* A continuation fragment that is not the last keeps the invariant.       *)
LEMMA GrowingInv ==
  ASSUME RunInv, NEW packet \in Packets, FragmentIsValid(packet),
         ~ packet.payload.start, ~ packet.payload.end, Continues(active, packet),
         active' = Extended(active, packet), nal' = Nothing,
         run' = Append(run, packet)
  PROVE  RunInv'
<1>1. ~ packet.marker
  BY DEF FragmentIsValid
<1>2. /\ active # Nothing /\ run \in Seq(Packets)
      /\ \A i \in DOMAIN run : ~ run[i].payload.end /\ ~ run[i].marker
  BY ContinuationGrowsRun DEF RunInv, ActiveIsOneRun, ActiveIsOfRun
<1>3. /\ run' \in Seq(Packets) /\ Len(run') = Len(run) + 1
      /\ run'[1] = run[1] /\ run'[Len(run')] = packet
      /\ IsOneNalUnit(run')
      /\ \A i \in DOMAIN run : run'[i] = run[i]
      /\ Collected(run') \in Seq(Bytes)
      /\ Len(Collected(run')) + 1 <= MaxNalUnitSize
  BY ContinuationGrowsRun
<1>4. active' \in [kind : {"active"},
                   nal_unit_type : {run[1].payload.nal_unit_type},
                   nal_ref_idc : {run[1].payload.nal_ref_idc},
                   bytes : {Collected(run')},
                   start_sequence_number : {run[1].sequence_number},
                   expected_sequence_number :
                     {NextSequenceNumber(packet.sequence_number)},
                   timestamp : {run[1].timestamp},
                   ssrc : {run[1].ssrc},
                   payload_type : {run[1].payload_type}]
  BY ContinuationGrowsRun
<1>5. \A i \in DOMAIN run' : ~ run'[i].payload.end /\ ~ run'[i].marker
  <2>1. DOMAIN run' = DOMAIN run \cup {Len(run')}
    BY <1>2, <1>3
  <2>2. QED
    BY <1>1, <1>2, <1>3, <2>1
<1>6. ActiveIsOfRun'
  BY <1>3, <1>4, <1>5 DEF ActiveIsOfRun
<1>7. ActiveIsOneRun'
  <2>1. /\ active'.bytes = Collected(run')
        /\ active'.start_sequence_number = run'[1].sequence_number
        /\ active'.expected_sequence_number
             = NextSequenceNumber(run'[Len(run')].sequence_number)
    BY <1>3, <1>4
  <2>2. Size(active') <= MaxNalUnitSize
    BY <1>3, <2>1 DEF Size
  <2>3. QED
    BY <1>3, <1>5, <2>1, <2>2 DEF ActiveIsOneRun, IsOneNalUnit, Collected, Size
<1>8. CompletedIsOneRun'
  BY DEF CompletedIsOneRun
<1>9. QED
  BY <1>3, <1>6, <1>7, <1>8 DEF RunInv

(* The last fragment returns the NAL unit that the run carries.            *)
LEMMA CompletingInv ==
  ASSUME RunInv, NEW packet \in Packets, FragmentIsValid(packet),
         ~ packet.payload.start, packet.payload.end, Continues(active, packet),
         active' = Nothing, outcome' = "completed",
         nal' = NalUnit(active.nal_unit_type, active.nal_ref_idc,
                        Extended(active, packet).bytes),
         run' = Append(run, packet)
  PROVE  RunInv'
<1>1. /\ run' \in Seq(Packets) /\ IsOneNalUnit(run')
      /\ run'[1] = run[1] /\ run'[Len(run')] = packet
      /\ Collected(run') \in Seq(Bytes)
      /\ Len(Collected(run')) + 1 <= MaxNalUnitSize
  BY ContinuationGrowsRun
<1>2. Extended(active, packet).bytes = Collected(run')
  BY ContinuationGrowsRun
<1>3. /\ active.nal_unit_type = run[1].payload.nal_unit_type
      /\ active.nal_ref_idc = run[1].payload.nal_ref_idc
  BY DEF RunInv, ActiveIsOfRun, Continues
<1>4. /\ nal' = NalUnit(run'[1].payload.nal_unit_type, run'[1].payload.nal_ref_idc,
                        Collected(run'))
      /\ nal'.bytes = Collected(run')
  BY <1>1, <1>2, <1>3 DEF NalUnit
<1>5. Len(nal'.bytes) < MaxNalUnitSize
  <2>1. Len(Collected(run')) \in Nat /\ MaxNalUnitSize \in Int
    BY <1>1, ReassemblerAssumption DEF ReassemblerAssumption
  <2>2. QED
    BY <1>1, <1>4, <2>1
<1>6. CompletedIsOneRun'
  BY <1>1, <1>4, <1>5 DEF CompletedIsOneRun, IsOneNalUnit, Collected
<1>7. ActiveIsOfRun' /\ ActiveIsOneRun'
  BY DEF ActiveIsOfRun, ActiveIsOneRun
<1>8. QED
  BY <1>1, <1>6, <1>7 DEF RunInv

(* When nothing is collected and nothing returned there is nothing to show.*)
LEMMA EmptyHandedInv ==
  ASSUME active' = Nothing, nal' = Nothing, run' \in Seq(Packets)
  PROVE  RunInv'
BY DEF RunInv, ActiveIsOfRun, ActiveIsOneRun, CompletedIsOneRun

(* push, by what the transition function does with the packet.             *)
LEMMA PushInv ==
  ASSUME RunInv, NEW packet \in Packets, Push(packet)
  PROVE  RunInv'
<1> DEFINE step == Reassemble(active, packet)
<1>1. /\ active' = step.active /\ outcome' = step.outcome /\ nal' = step.nal
      /\ run' = IF step.outcome = "error" THEN <<>>
                ELSE IF packet.payload.start THEN <<packet>>
                ELSE Append(run, packet)
  BY DEF Push
<1>2. CASE step = Rejected
  BY <1>1, <1>2, EmptyHandedInv DEF Rejected, Step
<1>3. CASE /\ FragmentIsValid(packet) /\ packet.payload.start
           /\ StartFits(packet)
           /\ step = Step("pending", Opened(packet), Nothing)
  BY <1>1, <1>3, OpeningInv DEF Step
<1>4. CASE /\ FragmentIsValid(packet) /\ ~ packet.payload.start
           /\ Continues(active, packet) /\ ~ packet.payload.end
           /\ step = Step("pending", Extended(active, packet), Nothing)
  BY <1>1, <1>4, GrowingInv DEF Step
<1>5. CASE /\ FragmentIsValid(packet) /\ ~ packet.payload.start
           /\ Continues(active, packet) /\ packet.payload.end
           /\ step = Step("completed", Nothing,
                          NalUnit(active.nal_unit_type, active.nal_ref_idc,
                                  Extended(active, packet).bytes))
  BY <1>1, <1>5, CompletingInv DEF Step
<1>6. QED
  <2>1. CASE ~ FragmentIsValid(packet)
    BY <1>2, <2>1 DEF Reassemble
  <2>2. CASE FragmentIsValid(packet) /\ packet.payload.start
    BY <1>2, <1>3, <2>2 DEF Reassemble
  <2>3. CASE FragmentIsValid(packet) /\ ~ packet.payload.start
    <3>1. CASE ~ Continues(active, packet)
      BY <1>2, <2>3, <3>1 DEF Reassemble
    <3>2. CASE Continues(active, packet) /\ ~ packet.payload.end
      BY <1>4, <2>3, <3>2 DEF Reassemble
    <3>3. CASE Continues(active, packet) /\ packet.payload.end
      BY <1>5, <2>3, <3>3 DEF Reassemble
    <3>4. QED
      BY <3>1, <3>2, <3>3
  <2>4. QED
    BY <2>1, <2>2, <2>3

(* The invariant of the reassembler.                                       *)
THEOREM RunInvariance == Spec => []RunInv
<1>1. Init => RunInv
  BY DEF Init, RunInv, ActiveIsOfRun, ActiveIsOneRun, CompletedIsOneRun
<1>2. RunInv /\ [Next]_vars => RunInv'
  <2>1. ASSUME RunInv, UNCHANGED vars PROVE RunInv'
    BY <2>1 DEF vars, RunInv, ActiveIsOfRun, ActiveIsOneRun, CompletedIsOneRun
  <2>2. ASSUME Reset PROVE RunInv'
    BY <2>2, EmptyHandedInv DEF Reset
  <2>3. QED
    BY <2>1, <2>2, PushInv DEF Next
<1>3. QED
  BY <1>1, <1>2, PTL DEF Spec

(* However the fragments of several NAL units, lost, repeated and mixed,   *)
(* are pushed: what is being collected is an unbroken run from one start   *)
(* fragment, with exactly its bytes, and it never outgrows the limit.      *)
THEOREM ActiveCorrect == Spec => []ActiveIsOneRun
BY RunInvariance, PTL DEF RunInv

(* And what push returns is a whole run, byte for byte.                    *)
THEOREM CompletedCorrect == Spec => []CompletedIsOneRun
BY RunInvariance, PTL DEF RunInv
=============================================================================
