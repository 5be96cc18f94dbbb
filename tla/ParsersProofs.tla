--------------------------- MODULE ParsersProofs ---------------------------
(***************************************************************************)
(* Proofs about the parsers below the analyzers, for every file a muxer    *)
(* can write, for every RTP header and for every bit string.               *)
(***************************************************************************)
EXTENDS Parsers, SequenceArithmetic, FiniteSetTheorems

-----------------------------------------------------------------------------
(* Facts about the least and the greatest number of a set.                 *)

(* A nonempty set of numbers has a least one, and Min is it.               *)
LEMMA MinIsLeast ==
  ASSUME NEW S, S \subseteq Nat, S # {}
  PROVE  /\ Min(S) \in S
         /\ \A n \in S : Min(S) <= n
<1> DEFINE Below == {n \in Nat : \A m \in S : m >= n}
<1>1. SUFFICES \E least \in S : \A n \in S : least <= n
  BY DEF Min
<1>2. SUFFICES ASSUME ~ \E least \in S : \A n \in S : least <= n PROVE FALSE
  OBVIOUS
<1>3. 0 \in Below
  OBVIOUS
<1>4. ASSUME NEW n \in Nat, n \in Below PROVE n + 1 \in Below
  <2>1. n \notin S
    BY <1>2, <1>4
  <2>2. QED
    BY <1>4, <2>1
<1>5. Nat \subseteq Below
  <2> HIDE DEF Below
  <2>1. QED
    BY <1>3, <1>4, InductionOnSet
<1>6. PICK m \in S : TRUE
  OBVIOUS
<1>7. m + 1 \in Below
  BY <1>5, <1>6
<1>8. QED
  BY <1>6, <1>7

-----------------------------------------------------------------------------
(* parse_rtp_packet                                                        *)

(* SelectInSeq returns the first check that fails.                         *)
LEMMA FirstFailingCheck ==
  ASSUME NEW p
  PROVE LET failed == SelectInSeq(Checks(p), LAMBDA check : check.fails)
        IN  /\ failed \in 0..8
            /\ failed = 0 => \A i \in 1..8 : ~ Checks(p)[i].fails
            /\ failed # 0 => /\ Checks(p)[failed].fails
                             /\ \A i \in 1..(failed - 1) : ~ Checks(p)[i].fails
<1> DEFINE c == Checks(p)
           I == {i \in 1..Len(c) : c[i].fails}
           failed == SelectInSeq(c, LAMBDA check : check.fails)
<1>1. Len(c) = 8
  BY DEF Checks
<1>2. failed = IF I # {} THEN Min(I) ELSE 0
  BY DEF SelectInSeq
<1> HIDE DEF c, failed
<1>3. CASE I = {}
  BY <1>1, <1>2, <1>3 DEF c, failed
<1>4. CASE I # {}
  <2>1. I \subseteq Nat
    BY <1>1
  <2> DEFINE first == Min(I)
  <2> HIDE DEF first
  <2>2. first \in I /\ \A i \in I : first <= i
    <3> HIDE DEF I
    <3>1. QED
      BY <1>4, <2>1, MinIsLeast DEF first
  <2>3. failed = first
    BY <1>2, <1>4 DEF first
  <2>4. first \in 1..8 /\ c[first].fails
    BY <1>1, <2>2
  <2>5. ASSUME NEW i \in 1..(first - 1) PROVE ~ c[i].fails
    BY <1>1, <2>2, <2>4
  <2>6. QED
    BY <2>3, <2>4, <2>5 DEF c, failed
<1>5. QED
  BY <1>3, <1>4

(* What a size_t does not wrap is itself.                                  *)
LEMMA SizeOfSmall ==
  ASSUME NEW n \in 0..MaxPacketSize
  PROVE  Size(n) = n
<1>1. /\ SizeModulus \in Nat \ {0} /\ n \in Int /\ n \in 0..(SizeModulus - 1)
      /\ n = SizeModulus * 0 + n
  BY RtpHeaderAssumption
<1>2. QED
  BY <1>1, ResidueIsUnique DEF Size

(* A packet's fields are numbers.                                          *)
LEMMA PacketFields ==
  ASSUME NEW p \in Packets
  PROVE  /\ p.size \in 0..MaxPacketSize
         /\ p.has_padding \in BOOLEAN /\ p.has_extension \in BOOLEAN
         /\ p.csrc_count \in Nat /\ p.length_words \in Nat /\ p.last_byte \in Nat
BY RtpHeaderAssumption DEF Packets

(* What the checks say, each under those before it: no subtraction wraps.  *)
LEMMA ChecksRead ==
  ASSUME NEW p \in Packets
  PROVE  /\ Checks(p)[1].fails <=> p.size < FixedHeaderSize
         /\ Checks(p)[2].fails <=> p.version # 2
         /\ ~ Checks(p)[1].fails =>
              (Checks(p)[3].fails <=> p.size < CsrcEnd(p))
         /\ ~ Checks(p)[1].fails /\ ~ Checks(p)[3].fails =>
              (Checks(p)[4].fails <=> p.has_extension /\ p.size < ExtensionData(p))
         /\ ~ Checks(p)[1].fails /\ ~ Checks(p)[3].fails /\ ~ Checks(p)[4].fails =>
              (Checks(p)[5].fails <=> p.has_extension /\ p.size < HeaderSize(p))
         /\ p.size >= HeaderSize(p) =>
              /\ Checks(p)[6].fails <=> p.has_padding /\ p.size = HeaderSize(p)
              /\ Checks(p)[7].fails <=> p.has_padding /\ p.last_byte = 0
              /\ Checks(p)[8].fails <=>
                   p.has_padding /\ p.last_byte > p.size - HeaderSize(p)
<1> USE PacketFields
<1> USE DEF FixedHeaderSize
<1>0. MaxPacketSize \in Nat
  BY RtpHeaderAssumption
<1>1. CsrcEnd(p) \in Nat /\ ExtensionData(p) \in Nat /\ HeaderSize(p) \in Nat
  BY DEF CsrcEnd, ExtensionData, HeaderSize
<1>2. Checks(p)[1].fails <=> p.size < FixedHeaderSize
  BY DEF Checks
<1>3. Checks(p)[2].fails <=> p.version # 2
  BY DEF Checks
<1>4. ASSUME p.size >= FixedHeaderSize
      PROVE  Checks(p)[3].fails <=> p.size < CsrcEnd(p)
  <2>1. Size(p.size - FixedHeaderSize) = p.size - FixedHeaderSize
    BY <1>0, <1>4, SizeOfSmall
  <2>2. Checks(p)[3].fails <=> CsrcsTruncated(p)
    BY DEF Checks
  <2>3. QED
    BY <1>0, <2>1, <2>2 DEF CsrcsTruncated, CsrcEnd
<1>5. ASSUME p.size >= CsrcEnd(p)
      PROVE  Checks(p)[4].fails <=> p.has_extension /\ p.size < ExtensionData(p)
  <2>1. Size(p.size - CsrcEnd(p)) = p.size - CsrcEnd(p)
    BY <1>0, <1>1, <1>5, SizeOfSmall
  <2>2. Checks(p)[4].fails <=> (p.has_extension /\ Size(p.size - CsrcEnd(p)) < 4)
    BY DEF Checks
  <2>3. QED
    BY <1>0, <1>1, <2>1, <2>2 DEF ExtensionData
<1>6. ASSUME p.has_extension => p.size >= ExtensionData(p)
      PROVE  Checks(p)[5].fails <=> p.has_extension /\ p.size < HeaderSize(p)
  <2>1. Checks(p)[5].fails <=> (/\ p.has_extension
                                /\ Size(p.size - ExtensionData(p)) < 4 * p.length_words)
    BY DEF Checks
  <2>2. CASE p.has_extension
    <3>1. Size(p.size - ExtensionData(p)) = p.size - ExtensionData(p)
      BY <1>0, <1>1, <1>6, <2>2, SizeOfSmall
    <3>2. QED
      BY <1>0, <1>1, <2>1, <2>2, <3>1 DEF HeaderSize
  <2>3. QED
    BY <2>1, <2>2
<1>7. ASSUME p.size >= HeaderSize(p)
      PROVE  /\ Checks(p)[6].fails <=> p.has_padding /\ p.size = HeaderSize(p)
             /\ Checks(p)[7].fails <=> p.has_padding /\ p.last_byte = 0
             /\ Checks(p)[8].fails <=>
                  p.has_padding /\ p.last_byte > p.size - HeaderSize(p)
  <2>1. Size(p.size - HeaderSize(p)) = p.size - HeaderSize(p)
    BY <1>0, <1>1, <1>7, SizeOfSmall
  <2>2. /\ Checks(p)[6].fails <=> (p.has_padding /\ Size(p.size - HeaderSize(p)) = 0)
        /\ Checks(p)[7].fails <=> (p.has_padding /\ p.last_byte = 0)
        /\ Checks(p)[8].fails <=>
             (p.has_padding /\ p.last_byte > Size(p.size - HeaderSize(p)))
    BY DEF Checks
  <2>3. QED
    BY <1>0, <1>1, <2>1, <2>2
<1>8. /\ ~ Checks(p)[1].fails => p.size >= FixedHeaderSize
      /\ (~ Checks(p)[1].fails /\ ~ Checks(p)[3].fails) => p.size >= CsrcEnd(p)
  BY <1>1, <1>2, <1>4
<1>9. (~ Checks(p)[1].fails /\ ~ Checks(p)[3].fails /\ ~ Checks(p)[4].fails)
        => (p.has_extension => p.size >= ExtensionData(p))
  BY <1>1, <1>5, <1>8
<1>10. QED
  BY <1>2, <1>3, <1>4, <1>5, <1>6, <1>7, <1>8, <1>9

(* The layout of a packet fixes its header, and what may follow it.        *)
LEMMA LayoutIsHeader ==
  ASSUME NEW p \in Packets, NEW payload_size \in Nat, NEW padding_size \in Nat
  PROVE  IsLayout(p, payload_size, padding_size) <=>
           /\ p.version = 2
           /\ p.size = HeaderSize(p) + payload_size + padding_size
           /\ p.has_padding => padding_size > 0 /\ padding_size = p.last_byte
           /\ ~ p.has_padding => padding_size = 0
<1>1. HeaderSize(p) = FixedHeaderSize + 4 * p.csrc_count
                        + (IF p.has_extension THEN 4 + 4 * p.length_words ELSE 0)
  BY PacketFields DEF HeaderSize, ExtensionData, CsrcEnd, FixedHeaderSize
<1>2. QED
  BY <1>1 DEF IsLayout

(* What parse_rtp_packet returns, by the first check that fails.           *)
LEMMA ParsedAsRfc ==
  ASSUME packet \in Packets, result = ParseRtpPacket(packet)
  PROVE  AcceptsRfcPackets
<1> DEFINE p == packet
           c == Checks(p)
           header == HeaderSize(p)
           failed == SelectInSeq(c, LAMBDA check : check.fails)
           Fails(i) == c[i].fails
<1>1. /\ p \in Packets
      /\ p.size \in Nat /\ p.size <= MaxPacketSize /\ MaxPacketSize \in Nat
      /\ p.has_padding \in BOOLEAN /\ p.has_extension \in BOOLEAN
      /\ p.csrc_count \in Nat /\ p.length_words \in Nat /\ p.last_byte \in Nat
  BY PacketFields, RtpHeaderAssumption
<1>2. /\ failed \in 0..8
      /\ failed = 0 => \A i \in 1..8 : ~ Fails(i)
      /\ failed # 0 => Fails(failed) /\ \A i \in 1..(failed - 1) : ~ Fails(i)
  BY FirstFailingCheck
<1>3. result = IF failed # 0
               THEN [error |-> c[failed].error, at |-> c[failed].at]
               ELSE [error |-> "none", header_size |-> header,
                     padding_size |-> PaddingSize(p),
                     payload_size |-> Size(Size(p.size - header) - PaddingSize(p))]
  BY DEF ParseRtpPacket
<1>4. /\ FixedHeaderSize <= CsrcEnd(p) /\ CsrcEnd(p) <= header
      /\ p.has_extension => CsrcEnd(p) <= ExtensionData(p) /\ ExtensionData(p) <= header
      /\ FixedHeaderSize \in Nat /\ CsrcEnd(p) \in Nat /\ ExtensionData(p) \in Nat
      /\ header \in Nat
  BY <1>1 DEF CsrcEnd, HeaderSize, ExtensionData, FixedHeaderSize
<1>5. /\ Fails(1) <=> p.size < FixedHeaderSize
      /\ Fails(2) <=> p.version # 2
      /\ ~ Fails(1) => (Fails(3) <=> p.size < CsrcEnd(p))
      /\ ~ Fails(1) /\ ~ Fails(3) =>
           (Fails(4) <=> p.has_extension /\ p.size < ExtensionData(p))
      /\ ~ Fails(1) /\ ~ Fails(3) /\ ~ Fails(4) =>
           (Fails(5) <=> p.has_extension /\ p.size < header)
      /\ p.size >= header =>
           /\ Fails(6) <=> p.has_padding /\ p.size = header
           /\ Fails(7) <=> p.has_padding /\ p.last_byte = 0
           /\ Fails(8) <=> p.has_padding /\ p.last_byte > p.size - header
  BY <1>1, ChecksRead
<1>6. \A i \in 1..8 :
        /\ c[i].error # "none"
        /\ i = 1 => c[i].at = p.size
        /\ i = 2 => c[i].at = 0
        /\ i = 3 => c[i].at = FixedHeaderSize
        /\ i = 4 => c[i].at = CsrcEnd(p)
        /\ i = 5 => c[i].at = ExtensionData(p)
        /\ i = 6 => c[i].at = p.size
        /\ i \in 7..8 => c[i].at = p.size - 1
  BY DEF Checks
<1>7. \A payload_size, padding_size \in Nat :
        IsLayout(p, payload_size, padding_size) <=>
           /\ p.version = 2
           /\ p.size = header + payload_size + padding_size
           /\ p.has_padding => padding_size > 0 /\ padding_size = p.last_byte
           /\ ~ p.has_padding => padding_size = 0
  BY <1>1, LayoutIsHeader
<1>8. ~ p.has_extension => header = CsrcEnd(p)
  BY DEF HeaderSize
<1>9. FixedHeaderSize = 12
  BY DEF FixedHeaderSize
<1> HIDE DEF c, header, failed, Fails
<1>10. CASE failed = 0
  <2>1. /\ ~ Fails(1) /\ ~ Fails(2) /\ ~ Fails(3) /\ ~ Fails(4)
        /\ ~ Fails(5) /\ ~ Fails(6) /\ ~ Fails(7) /\ ~ Fails(8)
    BY <1>2, <1>10
  <2>2. p.size >= header
    BY <1>1, <1>4, <1>5, <1>8, <2>1
  <2>3. Size(p.size - header) = p.size - header
    BY <1>1, <1>4, <2>2, SizeOfSmall
  <2>4. /\ PaddingSize(p) \in 0..(p.size - header)
        /\ p.has_padding => PaddingSize(p) > 0 /\ PaddingSize(p) = p.last_byte
        /\ ~ p.has_padding => PaddingSize(p) = 0
    BY <1>1, <1>4, <1>5, <2>1, <2>2 DEF PaddingSize
  <2>5. Size(p.size - header - PaddingSize(p)) = p.size - header - PaddingSize(p)
    BY <1>1, <1>4, <2>2, <2>4, SizeOfSmall
  <2>6. /\ result.error = "none" /\ result.header_size = header
        /\ result.padding_size = PaddingSize(p)
        /\ result.payload_size = p.size - header - PaddingSize(p)
    BY <1>3, <1>10, <2>3, <2>5
  <2>7. IsLayout(p, result.payload_size, result.padding_size)
    BY <1>1, <1>4, <1>5, <1>7, <2>1, <2>2, <2>4, <2>6
  <2>8. result.header_size + result.payload_size + result.padding_size = p.size
    BY <1>1, <1>4, <2>2, <2>4, <2>6
  <2>9. QED
    BY <2>6, <2>7, <2>8 DEF AcceptsRfcPackets
<1>11. CASE failed # 0
  <2>1. /\ result.error = c[failed].error /\ result.at = c[failed].at
        /\ failed \in 1..8 /\ Fails(failed) /\ \A i \in 1..(failed - 1) : ~ Fails(i)
    BY <1>2, <1>3, <1>11
  <2>2. /\ result.error # "none"
        /\ failed = 1 => result.at = p.size
        /\ failed = 2 => result.at = 0
        /\ failed = 3 => result.at = FixedHeaderSize
        /\ failed = 4 => result.at = CsrcEnd(p)
        /\ failed = 5 => result.at = ExtensionData(p)
        /\ failed = 6 => result.at = p.size
        /\ failed \in 7..8 => result.at = p.size - 1
    BY <1>6, <2>1
  <2>3. /\ failed = 1 => Fails(1)
        /\ failed = 2 => Fails(2)
        /\ failed = 3 => Fails(3) /\ ~ Fails(1)
        /\ failed = 4 => Fails(4) /\ ~ Fails(1) /\ ~ Fails(3)
        /\ failed = 5 => Fails(5) /\ ~ Fails(1) /\ ~ Fails(3) /\ ~ Fails(4)
        /\ failed \in 6..8 => ~ Fails(1) /\ ~ Fails(3) /\ ~ Fails(4) /\ ~ Fails(5)
        /\ failed = 6 => Fails(6)
        /\ failed = 7 => Fails(7) /\ ~ Fails(6)
        /\ failed = 8 => Fails(8) /\ ~ Fails(6) /\ ~ Fails(7)
    BY <2>1
  <2>4. failed \in 6..8 => p.size >= header
    BY <1>1, <1>4, <1>5, <1>8, <2>3
  <2>5. result.at \in 0..p.size
    <3>1. failed \in 1..5 => result.at \in 0..p.size
      BY <1>1, <1>4, <1>5, <1>9, <2>2, <2>3
    <3>2. failed \in 6..8 => result.at \in 0..p.size
      BY <1>1, <1>4, <1>9, <2>2, <2>4
    <3>3. QED
      BY <2>1, <3>1, <3>2
  <2>6. ASSUME NEW payload_size \in 0..p.size, NEW padding_size \in 0..p.size,
               IsLayout(p, payload_size, padding_size)
        PROVE  FALSE
    <3>1. /\ payload_size \in Nat /\ padding_size \in Nat /\ p.version = 2
          /\ p.size = header + payload_size + padding_size
          /\ p.has_padding => padding_size > 0 /\ padding_size = p.last_byte
      BY <1>1, <1>7, <2>6
    <3>2. ~ Fails(failed)
      <4>1. failed \in 1..5 => ~ Fails(failed)
        BY <1>1, <1>4, <1>5, <2>3, <3>1
      <4>2. failed \in 6..8 => ~ Fails(failed)
        BY <1>1, <1>4, <1>5, <2>3, <2>4, <3>1
      <4>3. QED
        BY <2>1, <4>1, <4>2
    <3>3. QED
      BY <2>1, <3>2
  <2>7. QED
    BY <2>2, <2>5, <2>6 DEF AcceptsRfcPackets
<1>12. QED
  BY <1>10, <1>11

(* A result is what the code returned for the packet of this behavior.     *)
HeaderInv ==
  /\ subject = "packet" => packet \in Packets
  /\ result.error # "not parsed" =>
       subject = "packet" /\ result = ParseRtpPacket(packet)

(* HeaderInv holds initially and every step keeps it.                      *)
THEOREM HeaderInvariance == Spec => []HeaderInv
<1>1. ASSUME Init PROVE HeaderInv
  <2>1. result = [error |-> "not parsed"]
    BY <1>1, Zenon DEF Init, RtpHeaderInit
  <2>2. result.error = "not parsed"
    BY <2>1
  <2>3. subject = "packet" => \E datagram \in Packets : RtpHeaderInit(datagram)
    BY <1>1, "packet" # "file", "packet" # "bits", "packet" # "syntax", Zenon DEF Init
  <2>4. subject = "packet" => packet \in Packets
    BY <2>3 DEF RtpHeaderInit
  <2>5. QED
    BY <2>2, <2>4 DEF HeaderInv
<1>2. HeaderInv /\ [Next]_<<subject, byteStreamVars, bitReaderVars, rtpHeaderVars, syntaxVars>>
        => HeaderInv'
  <2> SUFFICES ASSUME HeaderInv,
                      [Next]_<<subject, byteStreamVars, bitReaderVars, rtpHeaderVars, syntaxVars>>
               PROVE  HeaderInv'
    OBVIOUS
  <2>1. CASE ParseHeader
    BY <2>1 DEF ParseHeader, RtpHeaderNext, HeaderInv
  <2>2. ASSUME UNCHANGED <<subject, rtpHeaderVars>> PROVE HeaderInv'
    BY <2>2 DEF rtpHeaderVars, HeaderInv
  <2>3. QED
    BY <2>1, <2>2 DEF Next, WriteFile, ReadBitString, ParseSyntax
<1>3. QED
  BY <1>1, <1>2, PTL DEF Spec

(* parse_rtp_packet accepts exactly the packets RFC 3550 lays out, with    *)
(* the parts this layout has, for every size, field and size_t.            *)
THEOREM HeadersAreRfc3550 == Spec => []AcceptsRfcPackets
<1>1. HeaderInv => AcceptsRfcPackets
  <2>1. CASE result.error = "not parsed"
    BY <2>1 DEF AcceptsRfcPackets
  <2>2. CASE result.error # "not parsed"
    BY <2>2, ParsedAsRfc DEF HeaderInv
  <2>3. QED
    BY <2>1, <2>2
<1>2. QED
  BY <1>1, HeaderInvariance, PTL

-----------------------------------------------------------------------------
(* What the recursive functions of the model are.                          *)

(* A function that is defined by its value at 0 and by steps from one      *)
(* number to the next exists.                                              *)
Takes(f, k, T, start, step) ==
  /\ f \in [0..k -> T] /\ f[0] = start
  /\ \A n \in 1..k : f[n] = step[n][f[n - 1]]

(* By induction on the number of steps.                                    *)
LEMMA StepsAreTaken ==
  ASSUME NEW N \in Nat, NEW T, NEW start \in T, NEW step \in [1..N -> [T -> T]]
  PROVE  \E f : Takes(f, N, T, start, step)
<1> USE DEF Takes
<1> DEFINE Taken(f, k) == Takes(f, k, T, start, step)
           Reached == {k \in Nat : k <= N => \E f : Taken(f, k)}
<1>1. 0 \in Reached
  <2> DEFINE f == [n \in 0..0 |-> start]
  <2>1. Taken(f, 0)
    OBVIOUS
  <2>2. QED
    BY <2>1
<1>2. ASSUME NEW k \in Nat, k \in Reached PROVE k + 1 \in Reached
  <2>1. SUFFICES ASSUME k + 1 <= N PROVE \E f : Taken(f, k + 1)
    OBVIOUS
  <2>2. PICK f : Taken(f, k)
    BY <1>2, <2>1
  <2> DEFINE g == [n \in 0..(k + 1) |-> IF n = k + 1 THEN step[n][f[k]] ELSE f[n]]
  <2>3. k + 1 \in 1..N /\ f[k] \in T
    BY <2>1, <2>2
  <2>4. step[k + 1][f[k]] \in T
    BY <2>3
  <2>5. \A n \in 0..k : g[n] = f[n] /\ f[n] \in T
    BY <2>2
  <2>6. g[k + 1] = step[k + 1][f[k]]
    OBVIOUS
  <2>7. g \in [0..(k + 1) -> T]
    <3>1. \A n \in 0..(k + 1) : n = k + 1 \/ n \in 0..k
      OBVIOUS
    <3>2. \A n \in 0..(k + 1) : g[n] \in T
      BY <2>4, <2>5, <2>6, <3>1
    <3>3. g = [n \in 0..(k + 1) |-> g[n]]
      OBVIOUS
    <3> HIDE DEF g
    <3>4. QED
      BY <3>2, <3>3
  <2> HIDE DEF g
  <2>8. ASSUME NEW n \in 1..(k + 1) PROVE g[n] = step[n][g[n - 1]]
    <3>1. CASE n = k + 1
      BY <2>5, <2>6, <3>1, k \in 0..k, n - 1 = k
    <3>2. CASE n # k + 1
      <4>1. n \in 1..k /\ n \in 0..k /\ n - 1 \in 0..k
        BY <3>2
      <4>2. QED
        BY <2>2, <2>5, <4>1
    <3>3. QED
      BY <3>1, <3>2
  <2>9. g[0] = start
    BY <2>2, <2>5, 0 \in 0..k
  <2>10. QED
    BY <2>7, <2>8, <2>9
<1>3. N \in Reached
  <2> HIDE DEF Reached
  <2>1. QED
    BY <1>1, <1>2, InductionOnSet
<1>4. QED
  BY <1>3

(* A run of zeros is not counted beyond two.                               *)
LEMMA MinOfNext ==
  ASSUME NEW zeros \in 0..2
  PROVE  Min({zeros + 1, 2}) = IF zeros = 2 THEN 2 ELSE zeros + 1
<1>1. {zeros + 1, 2} \subseteq Nat /\ {zeros + 1, 2} # {}
  OBVIOUS
<1>2. /\ Min({zeros + 1, 2}) \in {zeros + 1, 2}
      /\ \A n \in {zeros + 1, 2} : Min({zeros + 1, 2}) <= n
  BY <1>1, MinIsLeast
<1>3. QED
  BY <1>2

(* What the encoder has written after each byte of an RBSP.                *)
Protected(rbsp) ==
  CHOOSE out : out = [n \in 0..Len(rbsp) |->
                        IF n = 0 THEN <<>> ELSE WriteByte(out[n - 1], rbsp[n])]

(* The encoder writes one byte of the RBSP after the other, with           *)
(* WriteByte.                                                              *)
LEMMA ProtectedSteps ==
  ASSUME NEW rbsp \in Seq(Bytes)
  PROVE  /\ Protected(rbsp) \in [0..Len(rbsp) -> Seq(Bytes)]
         /\ Protected(rbsp)[0] = <<>>
         /\ \A n \in 1..Len(rbsp) :
              LET before == Protected(rbsp)[n - 1]
              IN  Protected(rbsp)[n] = WriteByte(before, rbsp[n])
<1> DEFINE N == Len(rbsp)
           After(n, before) == WriteByte(before, rbsp[n])
           step == [n \in 1..N |-> [before \in Seq(Bytes) |-> After(n, before)]]
           Is(f) == f = [n \in 0..N |-> IF n = 0 THEN <<>> ELSE After(n, f[n - 1])]
           out == Protected(rbsp)
<1>1. N \in Nat /\ <<>> \in Seq(Bytes)
  OBVIOUS
<1>2. \A n \in 1..N, before \in Seq(Bytes) : After(n, before) \in Seq(Bytes)
  <2>1. 3 \in Bytes
    BY ByteStreamAssumption
  <2>2. QED
    BY <2>1 DEF WriteByte
<1>3. step \in [1..N -> [Seq(Bytes) -> Seq(Bytes)]]
  BY <1>2
<1>4. \A n \in 1..N, before \in Seq(Bytes) : step[n][before] = After(n, before)
  OBVIOUS
<1> HIDE DEF step, N
<1>5. PICK f : Takes(f, N, Seq(Bytes), <<>>, step)
  BY <1>1, <1>3, StepsAreTaken
<1> HIDE DEF After
<1>6. \A n \in 1..N : f[n] = After(n, f[n - 1])
  <2>1. \A n \in 1..N : n - 1 \in 0..N
    BY <1>1
  <2>2. QED
    BY <1>4, <1>5, <2>1 DEF Takes
<1>7. Is(f)
  <2>1. \A n \in 0..N : f[n] = IF n = 0 THEN <<>> ELSE After(n, f[n - 1])
    BY <1>1, <1>5, <1>6 DEF Takes
  <2>2. f = [n \in 0..N |-> f[n]]
    BY <1>5 DEF Takes
  <2>3. QED
    BY <2>1, <2>2
<1>8. out = [n \in 0..N |-> IF n = 0 THEN <<>> ELSE After(n, out[n - 1])]
  BY <1>7 DEF Protected, N, After
<1> HIDE DEF out
<1>9. /\ out[0] = <<>>
      /\ \A n \in 1..N : out[n] = After(n, out[n - 1])
      /\ out = [n \in 0..N |-> out[n]]
  <2>1. \A n \in 0..N : out[n] = IF n = 0 THEN <<>> ELSE After(n, out[n - 1])
    BY <1>8
  <2>2. 0 \in 0..N /\ \A n \in 1..N : n \in 0..N /\ n # 0
    BY <1>1
  <2>3. out = [n \in 0..N |-> out[n]]
    BY <1>8
  <2>4. QED
    BY <2>1, <2>2, <2>3
<1>10. out \in [0..N -> Seq(Bytes)]
  <2> DEFINE Typed == {n \in Nat : n <= N => out[n] \in Seq(Bytes)}
  <2>1. 0 \in Typed
    BY <1>1, <1>9
  <2>2. ASSUME NEW n \in Nat, n \in Typed PROVE n + 1 \in Typed
    <3>1. SUFFICES ASSUME n + 1 <= N PROVE out[n + 1] \in Seq(Bytes)
      OBVIOUS
    <3>2. out[n] \in Seq(Bytes) /\ n + 1 \in 1..N /\ (n + 1) - 1 = n
      BY <1>1, <2>2, <3>1
    <3>3. out[n + 1] = After(n + 1, out[n])
      BY <1>9, <3>2
    <3>4. QED
      BY <1>2, <3>2, <3>3
  <2>3. Nat \subseteq Typed
    <3> HIDE DEF Typed
    <3>1. QED
      BY <2>1, <2>2, InductionOnSet
  <2>4. \A n \in 0..N : out[n] \in Seq(Bytes)
    BY <1>1, <2>3
  <2>5. QED
    BY <1>9, <2>4
<1>11. QED
  BY <1>9, <1>10 DEF out, N, After

(* The run of zeros that ebsp_to_rbsp remembers after each byte.           *)
Run(ebsp) ==
  CHOOSE run : run = [n \in 0..Len(ebsp) |->
                        IF n = 0 THEN 0 ELSE AfterByte(At(ebsp, n - 1), run[n - 1],
                                                 Drops(ebsp, n - 1, run[n - 1]))]

(* The run of zeros is updated byte by byte and never exceeds 2.           *)
LEMMA RunSteps ==
  ASSUME NEW ebsp \in Seq(Nat)
  PROVE  /\ Run(ebsp) \in [0..Len(ebsp) -> 0..2]
         /\ Run(ebsp)[0] = 0
         /\ \A n \in 1..Len(ebsp) :
              LET before == Run(ebsp)[n - 1]
              IN  Run(ebsp)[n] = AfterByte(At(ebsp, n - 1), before, Drops(ebsp, n - 1, before))
<1> DEFINE N == Len(ebsp)
           After(n, before) == AfterByte(At(ebsp, n - 1), before, Drops(ebsp, n - 1, before))
           step == [n \in 1..N |-> [before \in 0..2 |-> After(n, before)]]
           Is(f) == f = [n \in 0..N |-> IF n = 0 THEN 0 ELSE After(n, f[n - 1])]
           out == Run(ebsp)
<1>1. N \in Nat /\ 0 \in 0..2
  OBVIOUS
<1>2. \A n \in 1..N, before \in 0..2 : After(n, before) \in 0..2
  <2>1. ASSUME NEW byte, NEW dropped, NEW before \in 0..2
        PROVE  AfterByte(byte, before, dropped) \in 0..2
    <3> DEFINE least == Min({before + 1, 2})
    <3>0. least = IF before = 2 THEN 2 ELSE before + 1
      BY MinOfNext, Zenon
    <3> HIDE DEF least
    <3>1. least \in 0..2
      BY <3>0
    <3>2. AfterByte(byte, before, dropped) = least \/ AfterByte(byte, before, dropped) = 0
      BY DEF AfterByte, least
    <3>3. QED
      BY <3>1, <3>2
  <2>2. QED
    BY <2>1
<1>3. step \in [1..N -> [0..2 -> 0..2]]
  BY <1>2
<1>4. \A n \in 1..N, before \in 0..2 : step[n][before] = After(n, before)
  OBVIOUS
<1> HIDE DEF step, N
<1>5. PICK f : Takes(f, N, 0..2, 0, step)
  BY <1>1, <1>3, StepsAreTaken
<1> HIDE DEF After
<1>6. \A n \in 1..N : f[n] = After(n, f[n - 1])
  <2>1. \A n \in 1..N : n - 1 \in 0..N
    BY <1>1
  <2>2. QED
    BY <1>4, <1>5, <2>1 DEF Takes
<1>7. Is(f)
  <2>1. \A n \in 0..N : f[n] = IF n = 0 THEN 0 ELSE After(n, f[n - 1])
    BY <1>1, <1>5, <1>6 DEF Takes
  <2>2. f = [n \in 0..N |-> f[n]]
    BY <1>5 DEF Takes
  <2>3. QED
    BY <2>1, <2>2
<1>8. out = [n \in 0..N |-> IF n = 0 THEN 0 ELSE After(n, out[n - 1])]
  BY <1>7 DEF Run, N, After
<1> HIDE DEF out
<1>9. /\ out[0] = 0
      /\ \A n \in 1..N : out[n] = After(n, out[n - 1])
      /\ out = [n \in 0..N |-> out[n]]
  <2>1. \A n \in 0..N : out[n] = IF n = 0 THEN 0 ELSE After(n, out[n - 1])
    BY <1>8
  <2>2. 0 \in 0..N /\ \A n \in 1..N : n \in 0..N /\ n # 0
    BY <1>1
  <2>3. out = [n \in 0..N |-> out[n]]
    BY <1>8
  <2>4. QED
    BY <2>1, <2>2, <2>3
<1>10. out \in [0..N -> 0..2]
  <2> DEFINE Typed == {n \in Nat : n <= N => out[n] \in 0..2}
  <2>1. 0 \in Typed
    BY <1>1, <1>9
  <2>2. ASSUME NEW n \in Nat, n \in Typed PROVE n + 1 \in Typed
    <3>1. SUFFICES ASSUME n + 1 <= N PROVE out[n + 1] \in 0..2
      OBVIOUS
    <3>2. out[n] \in 0..2 /\ n + 1 \in 1..N /\ (n + 1) - 1 = n
      BY <1>1, <2>2, <3>1
    <3>3. out[n + 1] = After(n + 1, out[n])
      BY <1>9, <3>2
    <3>4. QED
      BY <1>2, <3>2, <3>3
  <2>3. Nat \subseteq Typed
    <3> HIDE DEF Typed
    <3>1. QED
      BY <2>1, <2>2, InductionOnSet
  <2>4. \A n \in 0..N : out[n] \in 0..2
    BY <1>1, <2>3
  <2>5. QED
    BY <1>9, <2>4
<1>11. QED
  BY <1>9, <1>10 DEF out, N, After

(* The state of the loop of rbsp_offset_to_ebsp_offset after each byte.    *)
Loop(ebsp) ==
  CHOOSE loop : loop = [index \in 0..Len(ebsp) |->
                          IF index = 0 THEN [rbsp_index |-> 0, zeros |-> 0]
                          ELSE PassByte(ebsp, index - 1, loop[index - 1])]

LoopStates == [rbsp_index : Nat, zeros : 0..2]

(* It passes byte after byte, and its run of zeros never exceeds 2.        *)
LEMMA LoopSteps ==
  ASSUME NEW ebsp \in Seq(Nat)
  PROVE  /\ Loop(ebsp) \in [0..Len(ebsp) -> LoopStates]
         /\ Loop(ebsp)[0] = [rbsp_index |-> 0, zeros |-> 0]
         /\ \A n \in 1..Len(ebsp) :
              Loop(ebsp)[n] = PassByte(ebsp, n - 1, Loop(ebsp)[n - 1])
<1> DEFINE N == Len(ebsp)
           first == [rbsp_index |-> 0, zeros |-> 0]
           After(n, before) == PassByte(ebsp, n - 1, before)
           step == [n \in 1..N |-> [before \in LoopStates |-> After(n, before)]]
           Is(f) == f = [n \in 0..N |-> IF n = 0 THEN first ELSE After(n, f[n - 1])]
           out == Loop(ebsp)
<1>1. N \in Nat /\ first \in LoopStates
  BY DEF LoopStates
<1>2. \A n \in 1..N, before \in LoopStates : After(n, before) \in LoopStates
  <2>1. ASSUME NEW value, NEW zeros \in 0..2 PROVE ZerosAfter(value, zeros) \in 0..2
    BY DEF ZerosAfter
  <2>2. ASSUME NEW index, NEW before \in LoopStates
        PROVE  PassByte(ebsp, index, before) \in LoopStates
    <3> DEFINE zeros == ZerosAfter(At(ebsp, index), before.zeros)
    <3>1. zeros \in 0..2
      BY <2>1 DEF LoopStates
    <3> HIDE DEF zeros
    <3>2. [rbsp_index |-> before.rbsp_index + 1, zeros |-> zeros] \in LoopStates
      BY <3>1 DEF LoopStates
    <3>3. [before EXCEPT !.zeros = 0] \in LoopStates
      BY DEF LoopStates
    <3>4. QED
      BY <3>2, <3>3 DEF PassByte, zeros
  <2>3. QED
    BY <2>2
<1>3. step \in [1..N -> [LoopStates -> LoopStates]]
  BY <1>2
<1>4. \A n \in 1..N, before \in LoopStates : step[n][before] = After(n, before)
  OBVIOUS
<1> HIDE DEF step, N, first
<1>5. PICK f : Takes(f, N, LoopStates, first, step)
  BY <1>1, <1>3, StepsAreTaken
<1> HIDE DEF After
<1>6. \A n \in 1..N : f[n] = After(n, f[n - 1])
  <2>1. \A n \in 1..N : n - 1 \in 0..N
    BY <1>1
  <2>2. QED
    BY <1>4, <1>5, <2>1 DEF Takes
<1>7. Is(f)
  <2>1. \A n \in 0..N : f[n] = IF n = 0 THEN first ELSE After(n, f[n - 1])
    BY <1>1, <1>5, <1>6 DEF Takes
  <2>2. f = [n \in 0..N |-> f[n]]
    BY <1>5 DEF Takes
  <2>3. QED
    BY <2>1, <2>2
<1>8. out = [n \in 0..N |-> IF n = 0 THEN first ELSE After(n, out[n - 1])]
  BY <1>7 DEF Loop, N, After, first
<1> HIDE DEF out
<1>9. /\ out[0] = first
      /\ \A n \in 1..N : out[n] = After(n, out[n - 1])
      /\ out = [n \in 0..N |-> out[n]]
  <2>1. \A n \in 0..N : out[n] = IF n = 0 THEN first ELSE After(n, out[n - 1])
    BY <1>8
  <2>2. 0 \in 0..N /\ \A n \in 1..N : n \in 0..N /\ n # 0
    BY <1>1
  <2>3. out = [n \in 0..N |-> out[n]]
    BY <1>8
  <2>4. QED
    BY <2>1, <2>2, <2>3
<1>10. out \in [0..N -> LoopStates]
  <2> DEFINE Typed == {n \in Nat : n <= N => out[n] \in LoopStates}
  <2>1. 0 \in Typed
    BY <1>1, <1>9
  <2>2. ASSUME NEW n \in Nat, n \in Typed PROVE n + 1 \in Typed
    <3>1. SUFFICES ASSUME n + 1 <= N PROVE out[n + 1] \in LoopStates
      OBVIOUS
    <3>2. out[n] \in LoopStates /\ n + 1 \in 1..N /\ (n + 1) - 1 = n
      BY <1>1, <2>2, <3>1
    <3>3. out[n + 1] = After(n + 1, out[n])
      BY <1>9, <3>2
    <3>4. QED
      BY <1>2, <3>2, <3>3
  <2>3. Nat \subseteq Typed
    <3> HIDE DEF Typed
    <3>1. QED
      BY <2>1, <2>2, InductionOnSet
  <2>4. \A n \in 0..N : out[n] \in LoopStates
    BY <1>1, <2>3
  <2>5. QED
    BY <1>9, <2>4
<1>11. QED
  BY <1>9, <1>10 DEF out, N, After, first

(* The bytes that ebsp_to_rbsp has kept after each byte.                   *)
Kept(ebsp) ==
  CHOOSE rbsp : rbsp = [n \in 0..Len(ebsp) |->
                        IF n = 0 THEN <<>> ELSE IF n - 1 \in Prevention(ebsp) THEN rbsp[n - 1]
                             ELSE Append(rbsp[n - 1], At(ebsp, n - 1))]

(* Each byte of the payload is kept or, for emulation prevention, dropped. *)
LEMMA KeptSteps ==
  ASSUME NEW ebsp \in Seq(Nat)
  PROVE  /\ Kept(ebsp) \in [0..Len(ebsp) -> Seq(Nat)]
         /\ Kept(ebsp)[0] = <<>>
         /\ \A n \in 1..Len(ebsp) :
              LET before == Kept(ebsp)[n - 1]
              IN  Kept(ebsp)[n] = IF n - 1 \in Prevention(ebsp) THEN before
                               ELSE Append(before, At(ebsp, n - 1))
<1> DEFINE N == Len(ebsp)
           After(n, before) == IF n - 1 \in Prevention(ebsp) THEN before
                               ELSE Append(before, At(ebsp, n - 1))
           step == [n \in 1..N |-> [before \in Seq(Nat) |-> After(n, before)]]
           Is(f) == f = [n \in 0..N |-> IF n = 0 THEN <<>> ELSE After(n, f[n - 1])]
           out == Kept(ebsp)
<1>1. N \in Nat /\ <<>> \in Seq(Nat)
  OBVIOUS
<1>2. \A n \in 1..N, before \in Seq(Nat) : After(n, before) \in Seq(Nat)
  BY DEF At
<1>3. step \in [1..N -> [Seq(Nat) -> Seq(Nat)]]
  BY <1>2
<1>4. \A n \in 1..N, before \in Seq(Nat) : step[n][before] = After(n, before)
  OBVIOUS
<1> HIDE DEF step, N
<1>5. PICK f : Takes(f, N, Seq(Nat), <<>>, step)
  BY <1>1, <1>3, StepsAreTaken
<1> HIDE DEF After
<1>6. \A n \in 1..N : f[n] = After(n, f[n - 1])
  <2>1. \A n \in 1..N : n - 1 \in 0..N
    BY <1>1
  <2>2. QED
    BY <1>4, <1>5, <2>1 DEF Takes
<1>7. Is(f)
  <2>1. \A n \in 0..N : f[n] = IF n = 0 THEN <<>> ELSE After(n, f[n - 1])
    BY <1>1, <1>5, <1>6 DEF Takes
  <2>2. f = [n \in 0..N |-> f[n]]
    BY <1>5 DEF Takes
  <2>3. QED
    BY <2>1, <2>2
<1>8. out = [n \in 0..N |-> IF n = 0 THEN <<>> ELSE After(n, out[n - 1])]
  BY <1>7 DEF Kept, N, After
<1> HIDE DEF out
<1>9. /\ out[0] = <<>>
      /\ \A n \in 1..N : out[n] = After(n, out[n - 1])
      /\ out = [n \in 0..N |-> out[n]]
  <2>1. \A n \in 0..N : out[n] = IF n = 0 THEN <<>> ELSE After(n, out[n - 1])
    BY <1>8
  <2>2. 0 \in 0..N /\ \A n \in 1..N : n \in 0..N /\ n # 0
    BY <1>1
  <2>3. out = [n \in 0..N |-> out[n]]
    BY <1>8
  <2>4. QED
    BY <2>1, <2>2, <2>3
<1>10. out \in [0..N -> Seq(Nat)]
  <2> DEFINE Typed == {n \in Nat : n <= N => out[n] \in Seq(Nat)}
  <2>1. 0 \in Typed
    BY <1>1, <1>9
  <2>2. ASSUME NEW n \in Nat, n \in Typed PROVE n + 1 \in Typed
    <3>1. SUFFICES ASSUME n + 1 <= N PROVE out[n + 1] \in Seq(Nat)
      OBVIOUS
    <3>2. out[n] \in Seq(Nat) /\ n + 1 \in 1..N /\ (n + 1) - 1 = n
      BY <1>1, <2>2, <3>1
    <3>3. out[n + 1] = After(n + 1, out[n])
      BY <1>9, <3>2
    <3>4. QED
      BY <1>2, <3>2, <3>3
  <2>3. Nat \subseteq Typed
    <3> HIDE DEF Typed
    <3>1. QED
      BY <2>1, <2>2, InductionOnSet
  <2>4. \A n \in 0..N : out[n] \in Seq(Nat)
    BY <1>1, <2>3
  <2>5. QED
    BY <1>9, <2>4
<1>11. QED
  BY <1>9, <1>10 DEF out, N, After

(* The four as functions that the model's operators end with.              *)
LEMMA LastStep ==
  /\ \A rbsp : Protect(rbsp) = Protected(rbsp)[Len(rbsp)]
  /\ \A ebsp : Prevention(ebsp) = {i \in 0..(Len(ebsp) - 1) : Drops(ebsp, i, Run(ebsp)[i])}
  /\ \A ebsp : EbspToRbsp(ebsp) = Kept(ebsp)[Len(ebsp)]
  /\ \A ebsp, rbsp_offset :
       RbspOffsetToEbspOffset(ebsp, rbsp_offset) =
         LET found == {index \in 0..(Len(ebsp) - 1) :
                         /\ ~ Skips(ebsp, index, Loop(ebsp)[index].zeros)
                         /\ Loop(ebsp)[index].rbsp_index = rbsp_offset}
         IN  IF found = {} THEN Len(ebsp) ELSE Min(found)
BY DEF Protect, Protected, Prevention, Run, EbspToRbsp, Kept, RbspOffsetToEbspOffset, Loop

-----------------------------------------------------------------------------
(* ebsp_to_rbsp and the bytes it drops.                                    *)

(* The run is the number of zeros before, up to two: dropping a byte ends  *)
(* it, and the byte that is dropped is not zero itself.                    *)
LEMMA RunIsZeros ==
  ASSUME NEW ebsp \in Seq(Nat), NEW i \in 0..Len(ebsp)
  PROVE  Run(ebsp)[i] = IF i >= 1 /\ ebsp[i] = 0
                        THEN IF i >= 2 /\ ebsp[i - 1] = 0 THEN 2 ELSE 1
                        ELSE 0
<1> DEFINE run == Run(ebsp)
           ZerosUpTo(n) == IF n >= 1 /\ ebsp[n] = 0
                       THEN IF n >= 2 /\ ebsp[n - 1] = 0 THEN 2 ELSE 1
                       ELSE 0
           Counted == {n \in Nat : n <= Len(ebsp) => run[n] = ZerosUpTo(n)}
<1>1. /\ Len(ebsp) \in Nat /\ run[0] = 0
      /\ \A n \in 0..Len(ebsp) : run[n] \in 0..2
      /\ \A n \in 1..Len(ebsp) :
           run[n] = AfterByte(At(ebsp, n - 1), run[n - 1], Drops(ebsp, n - 1, run[n - 1]))
  BY RunSteps
<1> HIDE DEF run
<1>2. 0 \in Counted
  BY <1>1
<1>3. ASSUME NEW n \in Nat, n \in Counted PROVE n + 1 \in Counted
  <2>1. SUFFICES ASSUME n + 1 <= Len(ebsp) PROVE run[n + 1] = ZerosUpTo(n + 1)
    OBVIOUS
  <2> DEFINE byte == ebsp[n + 1]
             zeros == run[n]
             dropped == Drops(ebsp, n, zeros)
             least == Min({zeros + 1, 2})
  <2>2. /\ zeros \in 0..2 /\ zeros = ZerosUpTo(n) /\ byte \in Nat
    BY <1>1, <1>3, <2>1
  <2>3. run[n + 1] = AfterByte(byte, zeros, dropped)
    <3>1. n + 1 \in 1..Len(ebsp) /\ (n + 1) - 1 = n
      BY <1>1, <2>1
    <3>2. QED
      BY <1>1, <3>1 DEF At
  <2>4. dropped => byte = 3
    BY DEF Drops, At
  <2>5. least = IF zeros = 2 THEN 2 ELSE zeros + 1
    <3>1. zeros \in 0..2
      BY <2>2
    <3> HIDE DEF zeros
    <3>2. QED
      BY <3>1, MinOfNext, Zenon
  <2>6. AfterByte(byte, zeros, dropped) = IF ~ dropped /\ byte = 0 THEN least ELSE 0
    BY DEF AfterByte
  <2> HIDE DEF least, dropped, zeros
  <2>7. CASE byte = 0
    <3>1. run[n + 1] = IF zeros = 2 THEN 2 ELSE zeros + 1
      BY <2>3, <2>4, <2>5, <2>6, <2>7
    <3>2. n + 1 >= 1 /\ (n + 1 >= 2 <=> n >= 1) /\ (n + 1) - 1 = n
      OBVIOUS
    <3>3. QED
      BY <2>2, <2>7, <3>1, <3>2
  <2>8. CASE byte # 0
    BY <2>3, <2>6, <2>8
  <2>9. QED
    BY <2>7, <2>8
<1>4. Nat \subseteq Counted
  <2> HIDE DEF Counted
  <2>1. QED
    BY <1>2, <1>3, InductionOnSet
<1>5. i \in Nat /\ i <= Len(ebsp)
  BY <1>1
<1>6. QED
  BY <1>4, <1>5 DEF run

(* What is dropped: a 3 after two zeros and before a byte of at most 3.    *)
IsPrevention(ebsp, i) ==
  /\ i >= 2 /\ i <= Len(ebsp) - 2
  /\ ebsp[i - 1] = 0 /\ ebsp[i] = 0 /\ ebsp[i + 1] = 3 /\ ebsp[i + 2] <= 3

(* The converter drops a byte exactly where its run of zeros is 2, the     *)
(* byte is 3 and the next one at most 3.                                   *)
LEMMA PreventionBytes ==
  ASSUME NEW ebsp \in Seq(Nat), NEW i \in Nat
  PROVE  i \in Prevention(ebsp) <=> IsPrevention(ebsp, i)
<1>1. Len(ebsp) \in Nat
  OBVIOUS
<1>2. i \in Prevention(ebsp) <=> /\ i \in 0..(Len(ebsp) - 1)
                                 /\ Drops(ebsp, i, Run(ebsp)[i])
  BY LastStep
<1>3. ASSUME i \in 0..(Len(ebsp) - 1)
      PROVE  Drops(ebsp, i, Run(ebsp)[i]) <=> IsPrevention(ebsp, i)
  <2>1. Run(ebsp)[i] = 2 <=> i >= 2 /\ ebsp[i] = 0 /\ ebsp[i - 1] = 0
    <3>1. i \in 0..Len(ebsp)
      BY <1>3
    <3>2. Run(ebsp)[i] = IF i >= 1 /\ ebsp[i] = 0
                        THEN IF i >= 2 /\ ebsp[i - 1] = 0 THEN 2 ELSE 1
                        ELSE 0
      BY <3>1, RunIsZeros
    <3>3. QED
      BY <3>2
  <2>2. Drops(ebsp, i, Run(ebsp)[i]) <=>
          /\ ebsp[i + 1] = 3 /\ Run(ebsp)[i] = 2
          /\ i + 1 < Len(ebsp) /\ ebsp[i + 2] <= 3
    <3>1. (i + 1) + 1 = i + 2
      OBVIOUS
    <3>2. QED
      BY <3>1 DEF Drops, At
  <2>3. i + 1 < Len(ebsp) <=> i <= Len(ebsp) - 2
    BY <1>1
  <2>4. QED
    BY <2>1, <2>2, <2>3 DEF IsPrevention
<1>4. IsPrevention(ebsp, i) => i \in 0..(Len(ebsp) - 1)
  BY <1>1 DEF IsPrevention
<1>5. QED
  BY <1>2, <1>3, <1>4

-----------------------------------------------------------------------------
(* The encoder: where the bytes of an RBSP go.                             *)

(* The bytes of an RBSP are numbers.                                       *)
LEMMA BytesAreNumbers ==
  /\ Bytes \subseteq Nat
  /\ \A s \in Seq(Bytes) : s \in Seq(Nat) /\ \A k \in 1..Len(s) : s[k] \in Nat
<1>1. Bytes \subseteq Nat
  BY ByteStreamAssumption
<1>2. ASSUME NEW s \in Seq(Bytes)
      PROVE  s \in Seq(Nat) /\ \A k \in 1..Len(s) : s[k] \in Nat
  <2>1. \A k \in 1..Len(s) : s[k] \in Nat
    <3>1. \A k \in 1..Len(s) : s[k] \in Bytes
      OBVIOUS
    <3>2. QED
      BY <1>1, <3>1
  <2>2. Len(s) \in Nat /\ s = [k \in 1..Len(s) |-> s[k]]
    OBVIOUS
  <2>3. QED
    BY <2>1, <2>2
<1>3. QED
  BY <1>1, <1>2

(* pos[k] bytes are there when k bytes of the RBSP are written: the byte   *)
(* itself is the last of them, and the one before it a 3 if this byte was  *)
(* at most 3 and came after two zeros.                                     *)
ComesAfterZeros(ebsp, n) == n >= 2 /\ ebsp[n] = 0 /\ ebsp[n - 1] = 0

IsWritten(ebsp, before, after, byte) ==
  /\ ebsp[after] = byte
  /\ IF byte <= 3 /\ ComesAfterZeros(ebsp, before)
     THEN after = before + 2 /\ ebsp[before + 1] = 3
     ELSE after = before + 1

Positions(pos, rbsp, ebsp) ==
  /\ pos \in [0..Len(rbsp) -> 0..Len(ebsp)]
  /\ pos[0] = 0 /\ pos[Len(rbsp)] = Len(ebsp)
  /\ \A k \in 1..Len(rbsp) : IsWritten(ebsp, pos[k - 1], pos[k], rbsp[k])

(* What one byte adds.                                                     *)
LEMMA OneByteWritten ==
  ASSUME NEW out \in Seq(Nat), NEW byte \in Nat
  PROVE  LET after == WriteByte(out, byte)
         IN  /\ after \in Seq(Nat)
             /\ Len(after) > Len(out)
             /\ \A j \in 1..Len(out) : after[j] = out[j]
             /\ IsWritten(after, Len(out), Len(after), byte)
<1> DEFINE n == Len(out)
           after == WriteByte(out, byte)
           escaped == byte <= 3 /\ ComesAfterZeros(out, n)
<1>1. n \in Nat
  OBVIOUS
<1>2. CASE escaped
  <2>1. after = out \o <<3, byte>>
    BY <1>2 DEF WriteByte, ComesAfterZeros
  <2>2. <<3, byte>> \in Seq(Nat) /\ Len(<<3, byte>>) = 2
    OBVIOUS
  <2>3. after \in Seq(Nat) /\ Len(after) = n + 2
    BY <2>1, <2>2
  <2>4. \A j \in 1..n : after[j] = out[j]
    BY <2>1, <2>2
  <2>5. after[n + 1] = 3 /\ after[n + 2] = byte
    BY <1>1, <2>1, <2>2
  <2>6. ComesAfterZeros(after, n)
    <3>1. n >= 2 /\ n \in 1..n /\ n - 1 \in 1..n
      BY <1>1, <1>2 DEF ComesAfterZeros
    <3>2. after[n] = out[n] /\ after[n - 1] = out[n - 1]
      BY <2>4, <3>1
    <3>3. QED
      BY <1>2, <3>1, <3>2 DEF ComesAfterZeros
  <2>7. IsWritten(after, n, n + 2, byte)
    BY <1>2, <2>5, <2>6 DEF IsWritten
  <2>8. QED
    BY <1>1, <2>3, <2>4, <2>7
<1>3. CASE ~ escaped
  <2>1. after = Append(out, byte)
    BY <1>3 DEF WriteByte, ComesAfterZeros
  <2>2. after \in Seq(Nat) /\ Len(after) = n + 1 /\ after[n + 1] = byte
    BY <2>1
  <2>3. \A j \in 1..n : after[j] = out[j]
    BY <2>1
  <2>4. ~ (byte <= 3 /\ ComesAfterZeros(after, n))
    <3>1. SUFFICES ASSUME n >= 2 PROVE ~ (byte <= 3 /\ ComesAfterZeros(after, n))
      BY DEF ComesAfterZeros
    <3>2. n \in 1..n /\ n - 1 \in 1..n
      BY <1>1, <3>1
    <3>3. after[n] = out[n] /\ after[n - 1] = out[n - 1]
      BY <2>3, <3>2
    <3>4. QED
      BY <1>3, <3>3 DEF ComesAfterZeros
  <2>5. IsWritten(after, n, n + 1, byte)
    BY <2>2, <2>4 DEF IsWritten
  <2>6. QED
    BY <1>1, <2>2, <2>3, <2>5
<1>4. QED
  BY <1>2, <1>3

(* The bytes of an RBSP are all there, in their order, and what is there   *)
(* besides them are the 3s between two zeros and a byte of at most 3.      *)
LEMMA ProtectedPositions ==
  ASSUME NEW rbsp \in Seq(Bytes)
  PROVE  /\ Protect(rbsp) \in Seq(Nat)
         /\ \E pos : Positions(pos, rbsp, Protect(rbsp))
<1> DEFINE N == Len(rbsp)
           out == Protected(rbsp)
           ebsp == Protect(rbsp)
           pos == [k \in 0..N |-> Len(out[k])]
<1>1. N \in Nat /\ N \in 0..N /\ \A k \in 1..N : rbsp[k] \in Nat
  BY BytesAreNumbers
<1>2. /\ out[0] = <<>> /\ ebsp = out[N]
      /\ \A k \in 1..N : out[k] = WriteByte(out[k - 1], rbsp[k])
  BY ProtectedSteps, LastStep
<1>3. \A k \in 0..N : out[k] \in Seq(Nat)
  <2>1. \A k \in 0..N : out[k] \in Seq(Bytes)
    BY ProtectedSteps
  <2>2. QED
    BY <2>1, BytesAreNumbers
<1> HIDE DEF out, ebsp, N
<1>4. ASSUME NEW k \in 1..N
      PROVE  /\ Len(out[k]) > Len(out[k - 1])
             /\ \A j \in 1..Len(out[k - 1]) : out[k][j] = out[k - 1][j]
             /\ IsWritten(out[k], Len(out[k - 1]), Len(out[k]), rbsp[k])
  <2>1. out[k - 1] \in Seq(Nat) /\ rbsp[k] \in Nat
    BY <1>1, <1>3
  <2>2. out[k] = WriteByte(out[k - 1], rbsp[k])
    BY <1>2
  <2>3. QED
    BY <2>1, <2>2, OneByteWritten
<1> DEFINE Prefix(k) == /\ Len(out[k]) <= Len(ebsp)
                        /\ \A j \in 1..Len(out[k]) : ebsp[j] = out[k][j]
           Agree == {m \in Nat : m <= N => Prefix(N - m)}
<1>5. 0 \in Agree
  <2>1. N - 0 = N /\ N \in 0..N
    BY <1>1
  <2>2. QED
    BY <1>2, <1>3, <2>1
<1>6. ASSUME NEW m \in Nat, m \in Agree PROVE m + 1 \in Agree
  <2>1. SUFFICES ASSUME m + 1 <= N PROVE Prefix(N - (m + 1))
    OBVIOUS
  <2> DEFINE k == N - m
  <2>2. /\ k \in 1..N /\ k \in 0..N /\ k - 1 \in 0..N /\ N - (m + 1) = k - 1
        /\ Prefix(k)
    BY <1>1, <1>6, <2>1
  <2> HIDE DEF k
  <2>3. /\ Len(out[k]) > Len(out[k - 1])
        /\ \A j \in 1..Len(out[k - 1]) : out[k][j] = out[k - 1][j]
    BY <1>4, <2>2
  <2>4. Len(out[k]) \in Nat /\ Len(out[k - 1]) \in Nat /\ Len(ebsp) \in Nat
    BY <1>1, <1>2, <1>3, <2>2
  <2>5. \A j \in 1..Len(out[k - 1]) : j \in 1..Len(out[k])
    BY <2>3, <2>4
  <2>6. Prefix(k - 1)
    BY <2>2, <2>3, <2>4, <2>5
  <2>7. QED
    BY <2>2, <2>6
<1>7. ASSUME NEW k \in 0..N PROVE Prefix(k)
  <2>1. Nat \subseteq Agree
    <3> HIDE DEF Agree
    <3>1. QED
      BY <1>5, <1>6, InductionOnSet
  <2>2. N - k \in Nat /\ N - k <= N /\ N - (N - k) = k
    BY <1>1
  <2> HIDE DEF Prefix
  <2>3. QED
    BY <2>1, <2>2
<1>8. ASSUME NEW k \in 1..N
      PROVE  IsWritten(ebsp, Len(out[k - 1]), Len(out[k]), rbsp[k])
  <2> DEFINE n == Len(out[k - 1])
             m == Len(out[k])
  <2>1. k \in 0..N /\ k - 1 \in 0..N
    BY <1>1
  <2>2. n \in Nat /\ m \in Nat /\ m > n
    BY <1>3, <1>4, <2>1
  <2>3. \A j \in 1..m : ebsp[j] = out[k][j]
    BY <1>7, <2>1
  <2>4. IsWritten(out[k], n, m, rbsp[k])
    BY <1>4
  <2> HIDE DEF n, m
  <2>5. ComesAfterZeros(ebsp, n) <=> ComesAfterZeros(out[k], n)
    <3>1. n >= 2 => n \in 1..m /\ n - 1 \in 1..m
      BY <2>2
    <3>2. QED
      BY <2>3, <3>1 DEF ComesAfterZeros
  <2>6. m \in 1..m /\ n + 1 \in 1..m
    BY <2>2
  <2>7. ebsp[m] = out[k][m] /\ ebsp[n + 1] = out[k][n + 1]
    BY <2>3, <2>6
  <2>8. QED
    BY <2>4, <2>5, <2>7 DEF IsWritten, n, m
<1>9. Positions(pos, rbsp, ebsp)
  <2>1. pos[0] = 0 /\ pos[N] = Len(ebsp)
    BY <1>1, <1>2
  <2>2. \A k \in 0..N : pos[k] \in 0..Len(ebsp)
    <3>1. Len(ebsp) \in Nat /\ \A k \in 0..N : Len(out[k]) \in Nat
      BY <1>1, <1>2, <1>3
    <3>2. QED
      BY <1>7, <3>1
  <2>3. ASSUME NEW k \in 1..N PROVE IsWritten(ebsp, pos[k - 1], pos[k], rbsp[k])
    <3>1. pos[k - 1] = Len(out[k - 1]) /\ pos[k] = Len(out[k])
      BY <1>1
    <3>2. QED
      BY <1>8, <3>1
  <2>4. pos \in [0..N -> 0..Len(ebsp)]
    BY <2>2
  <2>5. QED
    BY <2>1, <2>3, <2>4 DEF Positions, N
<1>10. ebsp \in Seq(Nat)
  BY <1>1, <1>2, <1>3
<1>11. QED
  BY <1>9, <1>10 DEF ebsp

(* Later bytes are written further on.                                     *)
LEMMA PositionsIncrease ==
  ASSUME NEW rbsp \in Seq(Nat), NEW ebsp \in Seq(Nat), NEW pos, Positions(pos, rbsp, ebsp)
  PROVE  /\ \A k \in 0..Len(rbsp) : pos[k] \in 0..Len(ebsp)
         /\ \A k \in 1..Len(rbsp) :
              pos[k - 1] < pos[k] /\ pos[k] \in {pos[k - 1] + 1, pos[k - 1] + 2}
         /\ \A j, k \in 0..Len(rbsp) : j < k => pos[j] < pos[k]
<1> DEFINE N == Len(rbsp)
<1>1. N \in Nat /\ Len(ebsp) \in Nat
  OBVIOUS
<1>2. \A k \in 0..N : pos[k] \in 0..Len(ebsp)
  BY DEF Positions
<1>3. ASSUME NEW k \in 1..N
      PROVE  pos[k - 1] < pos[k] /\ pos[k] \in {pos[k - 1] + 1, pos[k - 1] + 2}
  <2>1. pos[k] \in Nat /\ pos[k - 1] \in Nat
    BY <1>1, <1>2
  <2>2. pos[k] = pos[k - 1] + 1 \/ pos[k] = pos[k - 1] + 2
    BY DEF Positions, IsWritten
  <2>3. QED
    BY <2>1, <2>2
<1>4. ASSUME NEW j \in 0..N, NEW k \in 0..N, j < k PROVE pos[j] < pos[k]
  <2> DEFINE Above == {m \in Nat : j + 1 + m <= N => pos[j] < pos[j + 1 + m]}
  <2>1. 0 \in Above
    <3>1. SUFFICES ASSUME j + 1 <= N PROVE pos[j] < pos[j + 1]
      OBVIOUS
    <3>2. j + 1 \in 1..N /\ (j + 1) - 1 = j
      BY <1>1, <3>1
    <3>3. QED
      BY <1>3, <3>2
  <2>2. ASSUME NEW m \in Nat, m \in Above PROVE m + 1 \in Above
    <3> DEFINE n == j + 1 + m
    <3>1. SUFFICES ASSUME j + 1 + (m + 1) <= N PROVE pos[j] < pos[j + 1 + (m + 1)]
      OBVIOUS
    <3>2. /\ n \in 0..N /\ n + 1 \in 1..N /\ n + 1 \in 0..N /\ (n + 1) - 1 = n
          /\ j + 1 + (m + 1) = n + 1 /\ pos[j] < pos[n]
      BY <1>1, <2>2, <3>1
    <3> HIDE DEF n
    <3>3. pos[n] < pos[n + 1]
      BY <1>3, <3>2
    <3>4. pos[j] \in Nat /\ pos[n] \in Nat /\ pos[n + 1] \in Nat
      BY <1>1, <1>2, <3>2
    <3>5. pos[j] < pos[n + 1]
      BY <3>2, <3>3, <3>4
    <3>6. QED
      BY <3>2, <3>5
  <2>3. k - (j + 1) \in Above
    <3>1. k - (j + 1) \in Nat
      BY <1>4, <1>1
    <3> HIDE DEF Above
    <3>2. QED
      BY <2>1, <2>2, <3>1, InductionOnSet
  <2>4. j + 1 + (k - (j + 1)) = k
    BY <1>1
  <2>5. QED
    BY <1>1, <2>3, <2>4
<1>5. QED
  BY <1>2, <1>3, <1>4

IsInserted(pos, k) == pos[k] = pos[k - 1] + 2

(* There is nothing else in the payload.                                   *)
LEMMA PlacesAreTaken ==
  ASSUME NEW rbsp \in Seq(Nat), NEW ebsp \in Seq(Nat), NEW pos, Positions(pos, rbsp, ebsp),
         NEW n \in 1..Len(ebsp)
  PROVE  \E k \in 1..Len(rbsp) : n = pos[k] \/ (IsInserted(pos, k) /\ n = pos[k] - 1)
<1> DEFINE N == Len(rbsp)
           Taken(m) == \E k \in 1..N : m = pos[k] \/ (IsInserted(pos, k) /\ m = pos[k] - 1)
           Filled == {k \in Nat : k <= N => \A m \in 1..pos[k] : Taken(m)}
<1>1. N \in Nat /\ Len(ebsp) \in Nat /\ pos[0] = 0 /\ pos[N] = Len(ebsp)
  BY DEF Positions
<1>2. /\ \A k \in 0..N : pos[k] \in 0..Len(ebsp)
      /\ \A k \in 1..N : pos[k] \in {pos[k - 1] + 1, pos[k - 1] + 2}
  BY PositionsIncrease
<1>3. 0 \in Filled
  BY <1>1
<1>4. ASSUME NEW k \in Nat, k \in Filled PROVE k + 1 \in Filled
  <2>1. SUFFICES ASSUME k + 1 <= N, NEW m \in 1..pos[k + 1] PROVE Taken(m)
    OBVIOUS
  <2>2. /\ k + 1 \in 1..N /\ k \in 0..N /\ k + 1 \in 0..N /\ (k + 1) - 1 = k
    BY <1>1, <2>1
  <2>3. /\ pos[k] \in Nat /\ pos[k + 1] \in Nat
        /\ pos[k + 1] = pos[k] + 1 \/ pos[k + 1] = pos[k] + 2
    BY <1>1, <1>2, <2>2
  <2>4. CASE m <= pos[k]
    BY <1>4, <2>1, <2>3, <2>4
  <2>5. CASE m = pos[k + 1]
    BY <2>2, <2>5
  <2>6. CASE m > pos[k] /\ m # pos[k + 1]
    <3> DEFINE p == pos[k]
               q == pos[k + 1]
    <3>0. /\ p \in Nat /\ q \in Nat
          /\ q = p + 1 \/ q = p + 2
          /\ m \in 1..q /\ m > p /\ m # q
      BY <2>1, <2>3, <2>6
    <3> HIDE DEF p, q
    <3>1. m = q - 1 /\ q = p + 2
      BY <3>0
    <3> USE DEF p, q
    <3>2. IsInserted(pos, k + 1)
      BY <2>2, <3>1 DEF IsInserted
    <3>3. QED
      BY <2>2, <3>1, <3>2
  <2>7. QED
    BY <2>3, <2>4, <2>5, <2>6
<1>5. N \in Filled
  <2> HIDE DEF Filled
  <2>1. QED
    BY <1>1, <1>3, <1>4, InductionOnSet
<1>6. QED
  BY <1>1, <1>5

(* What was inserted is dropped, and nothing else is.                      *)
LEMMA InsertedIsDropped ==
  ASSUME NEW rbsp \in Seq(Nat), NEW ebsp \in Seq(Nat), NEW pos, Positions(pos, rbsp, ebsp),
         NEW i \in Nat
  PROVE  i \in Prevention(ebsp) <=>
           \E k \in 1..Len(rbsp) : IsInserted(pos, k) /\ i = pos[k] - 2
<1> DEFINE N == Len(rbsp)
<1>1. /\ N \in Nat /\ Len(ebsp) \in Nat
      /\ \A k \in 0..N : pos[k] \in 0..Len(ebsp)
      /\ \A k \in 1..N : rbsp[k] \in Nat
      /\ \A k \in 1..N : pos[k - 1] \in 0..Len(ebsp) /\ pos[k] \in 0..Len(ebsp)
  <2>1. \A k \in 0..N : pos[k] \in 0..Len(ebsp)
    BY PositionsIncrease
  <2>2. \A k \in 1..N : k \in 0..N /\ k - 1 \in 0..N
    OBVIOUS
  <2>3. QED
    BY <2>1, <2>2
<1>2. \A k \in 1..N : IsWritten(ebsp, pos[k - 1], pos[k], rbsp[k])
  BY DEF Positions
<1>3. ASSUME NEW k \in 1..N, IsInserted(pos, k), i = pos[k] - 2 PROVE IsPrevention(ebsp, i)
  <2>1. i = pos[k - 1] /\ i + 2 = pos[k] /\ i + 2 <= Len(ebsp)
    BY <1>1, <1>3 DEF IsInserted
  <2>2. IsWritten(ebsp, i, i + 2, rbsp[k])
    BY <1>2, <2>1
  <2>3. /\ ebsp[i + 2] = rbsp[k] /\ rbsp[k] <= 3 /\ ebsp[i + 1] = 3
        /\ ComesAfterZeros(ebsp, i)
    BY <2>2 DEF IsWritten
  <2>4. QED
    BY <1>1, <2>1, <2>3 DEF IsPrevention, ComesAfterZeros
<1>4. ASSUME IsPrevention(ebsp, i)
      PROVE  \E k \in 1..N : IsInserted(pos, k) /\ i = pos[k] - 2
  <2>1. /\ i >= 2 /\ i + 1 \in 1..Len(ebsp) /\ (i + 1) - 1 = i
        /\ ebsp[i - 1] = 0 /\ ebsp[i] = 0 /\ ebsp[i + 1] = 3
    BY <1>1, <1>4 DEF IsPrevention
  <2>2. PICK k \in 1..N : i + 1 = pos[k] \/ (IsInserted(pos, k) /\ i + 1 = pos[k] - 1)
    BY <2>1, PlacesAreTaken
  <2> DEFINE p == pos[k - 1]
             q == pos[k]
  <2>3. /\ p \in Nat /\ q \in Nat /\ IsWritten(ebsp, p, q, rbsp[k])
        /\ i + 1 = q \/ (q = p + 2 /\ i + 1 = q - 1)
    BY <1>1, <1>2, <2>2 DEF IsInserted
  <2>4. QED
    <3> HIDE DEF p, q
    <3>1. CASE i + 1 = q
      <4>1. rbsp[k] = 3
        BY <2>1, <2>3, <3>1 DEF IsWritten
      <4>2. CASE ComesAfterZeros(ebsp, p)
        <5>1. q = p + 2 /\ ebsp[p + 1] = 3
          BY <2>3, <4>1, <4>2 DEF IsWritten
        <5>2. p + 1 = i
          BY <2>3, <3>1, <5>1
        <5>3. QED
          BY <2>1, <5>1, <5>2
      <4>3. CASE ~ ComesAfterZeros(ebsp, p)
        <5>1. q = p + 1
          BY <2>3, <4>3 DEF IsWritten
        <5>2. p = i
          BY <2>3, <3>1, <5>1
        <5>3. QED
          BY <2>1, <4>3, <5>2 DEF ComesAfterZeros
      <4>4. QED
        BY <4>2, <4>3
    <3>2. CASE q = p + 2 /\ i + 1 = q - 1
      <4>1. i = q - 2
        BY <2>3, <3>2
      <4>2. IsInserted(pos, k)
        BY <3>2 DEF IsInserted, p, q
      <4>3. QED
        BY <4>1, <4>2 DEF q
    <3>3. QED
      BY <2>3, <3>1, <3>2
<1>5. QED
  BY <1>3, <1>4, PreventionBytes

(* No byte of at most 2 follows two zeros: a payload holds no start code.  *)
LEMMA NoStartCodeInside ==
  ASSUME NEW rbsp \in Seq(Nat), NEW ebsp \in Seq(Nat), NEW pos, Positions(pos, rbsp, ebsp),
         NEW n \in 3..Len(ebsp), ebsp[n - 2] = 0, ebsp[n - 1] = 0
  PROVE  ebsp[n] > 2
<1>1. /\ Len(ebsp) \in Nat /\ n \in Nat /\ n - 1 >= 2 /\ n \in 1..Len(ebsp)
      /\ (n - 1) - 1 = n - 2
  OBVIOUS
<1>2. PICK k \in 1..Len(rbsp) : n = pos[k] \/ (IsInserted(pos, k) /\ n = pos[k] - 1)
  BY <1>1, PlacesAreTaken
<1> DEFINE p == pos[k - 1]
           q == pos[k]
<1>3. p \in Nat /\ q \in Nat /\ rbsp[k] \in Nat
  <2>1. k \in 0..Len(rbsp) /\ k - 1 \in 0..Len(rbsp) /\ rbsp[k] \in Nat
    OBVIOUS
  <2>2. \A j \in 0..Len(rbsp) : pos[j] \in Nat
    BY <1>1, PositionsIncrease
  <2>3. QED
    BY <2>1, <2>2
<1>4. IsWritten(ebsp, p, q, rbsp[k])
  BY DEF Positions
<1>5. n = q \/ (q = p + 2 /\ n = q - 1)
  BY <1>2 DEF IsInserted
<1>6. ComesAfterZeros(ebsp, n - 1)
  BY <1>1 DEF ComesAfterZeros
<1> HIDE DEF p, q
<1>7. CASE n = q
  <2>1. CASE rbsp[k] <= 3 /\ ComesAfterZeros(ebsp, p)
    <3>1. n = p + 2 /\ ebsp[p + 1] = 3
      BY <1>4, <1>7, <2>1 DEF IsWritten
    <3>2. p + 1 = n - 1
      BY <1>1, <1>3, <3>1
    <3>3. QED
      BY <3>1, <3>2
  <2>2. CASE ~ (rbsp[k] <= 3 /\ ComesAfterZeros(ebsp, p))
    <3>1. n = p + 1 /\ ebsp[n] = rbsp[k]
      BY <1>4, <1>7, <2>2 DEF IsWritten
    <3>2. p = n - 1
      BY <1>1, <1>3, <3>1
    <3>3. QED
      BY <1>3, <1>6, <2>2, <3>1, <3>2
  <2>3. QED
    BY <2>1, <2>2
<1>8. CASE q = p + 2 /\ n = q - 1
  <2>1. n = p + 1
    BY <1>1, <1>3, <1>8
  <2>2. ebsp[p + 1] = 3
    BY <1>3, <1>4, <1>8 DEF IsWritten
  <2>3. QED
    BY <2>1, <2>2
<1>9. QED
  BY <1>5, <1>7, <1>8

-----------------------------------------------------------------------------
(* The RBSP is recovered, and errors in it are found in the payload.       *)

(* The offset of a byte of the RBSP in its payload is not dropped.         *)
LEMMA WrittenIsKept ==
  ASSUME NEW rbsp \in Seq(Nat), NEW ebsp \in Seq(Nat), NEW pos, Positions(pos, rbsp, ebsp),
         NEW k \in 1..Len(rbsp)
  PROVE  /\ pos[k] - 1 \in 0..(Len(ebsp) - 1)
         /\ pos[k] - 1 \notin Prevention(ebsp)
<1> DEFINE N == Len(rbsp)
<1>1. /\ \A j \in 0..N : pos[j] \in 0..Len(ebsp)
      /\ \A j \in 1..N : pos[j - 1] < pos[j]
      /\ \A i, j \in 0..N : i < j => pos[i] < pos[j]
  BY PositionsIncrease
<1>2. N \in Nat /\ Len(ebsp) \in Nat /\ k \in 0..N /\ k - 1 \in 0..N
  OBVIOUS
<1>3. pos[k] \in 0..Len(ebsp) /\ pos[k - 1] \in 0..Len(ebsp) /\ pos[k - 1] < pos[k]
  BY <1>1, <1>2
<1>4. pos[k] - 1 \in 0..(Len(ebsp) - 1)
  <2> DEFINE p == pos[k - 1]
             q == pos[k]
  <2>1. p \in 0..Len(ebsp) /\ q \in 0..Len(ebsp) /\ p < q
    BY <1>3
  <2> HIDE DEF p, q
  <2>2. q - 1 \in 0..(Len(ebsp) - 1)
    BY <1>2, <2>1
  <2>3. QED
    BY <2>2 DEF q
<1>5. ASSUME NEW j \in 1..N, IsInserted(pos, j), pos[k] - 1 = pos[j] - 2 PROVE FALSE
  <2> DEFINE p == pos[j - 1]
             q == pos[j]
             r == pos[k]
  <2>1. j \in 0..N /\ j - 1 \in 0..N
    BY <1>2
  <2>2. p \in Nat /\ q \in Nat /\ r \in Nat /\ q = p + 2 /\ r - 1 = q - 2
    <3>1. p \in Nat /\ q \in Nat /\ r \in Nat
      BY <1>1, <1>2, <2>1
    <3>2. q = p + 2 /\ r - 1 = q - 2
      BY <1>5 DEF IsInserted
    <3>3. QED
      BY <3>1, <3>2
  <2>3. /\ k < j => r < q
        /\ j < k => q < r
        /\ j - 1 < k => p < r
        /\ k < j - 1 => r < p
        /\ k = j => r = q
        /\ k = j - 1 => r = p
    BY <1>1, <1>2, <2>1
  <2> HIDE DEF p, q, r
  <2>4. r = p + 1 /\ q = r + 1
    BY <2>2
  <2>5. QED
    BY <1>2, <2>1, <2>2, <2>3, <2>4
<1>6. pos[k] - 1 \in Nat
  BY <1>4, <1>2
<1>7. QED
  BY <1>4, <1>5, <1>6, InsertedIsDropped

(* One byte more of a sequence.                                            *)
LEMMA OneMore ==
  ASSUME NEW S, NEW s \in Seq(S), NEW k \in Nat, k + 1 <= Len(s)
  PROVE  SubSeq(s, 1, k + 1) = Append(SubSeq(s, 1, k), s[k + 1])
OBVIOUS

(* Dropping the prevention bytes gives back the RBSP.                      *)
LEMMA RbspRecovered ==
  ASSUME NEW rbsp \in Seq(Bytes)
  PROVE  EbspToRbsp(Protect(rbsp)) = rbsp
<1> DEFINE N == Len(rbsp)
           ebsp == Protect(rbsp)
           kept == Kept(ebsp)
<1>1. ebsp \in Seq(Nat) /\ rbsp \in Seq(Nat)
  BY ProtectedPositions, BytesAreNumbers
<1>2. PICK pos : Positions(pos, rbsp, ebsp)
  BY ProtectedPositions
<1>3. /\ kept \in [0..Len(ebsp) -> Seq(Nat)] /\ kept[0] = <<>>
      /\ \A n \in 1..Len(ebsp) :
           kept[n] = IF n - 1 \in Prevention(ebsp) THEN kept[n - 1]
                     ELSE Append(kept[n - 1], ebsp[n])
  <2>1. \A n \in 1..Len(ebsp) : At(ebsp, n - 1) = ebsp[n]
    BY <1>1 DEF At
  <2>2. QED
    BY <1>1, <2>1, KeptSteps
<1> HIDE DEF ebsp, kept
<1>4. /\ N \in Nat /\ Len(ebsp) \in Nat
      /\ pos[0] = 0 /\ pos[N] = Len(ebsp)
      /\ \A j \in 0..N : pos[j] \in 0..Len(ebsp)
      /\ \A j \in 1..N : IsWritten(ebsp, pos[j - 1], pos[j], rbsp[j])
  <2>1. \A j \in 0..N : pos[j] \in 0..Len(ebsp)
    BY <1>1, <1>2, PositionsIncrease
  <2>2. N \in Nat /\ Len(ebsp) \in Nat
    BY <1>1
  <2>3. QED
    BY <1>2, <2>1, <2>2 DEF Positions
<1> DEFINE Same == {k \in Nat : k <= N => kept[pos[k]] = SubSeq(rbsp, 1, k)}
<1>5. 0 \in Same
  BY <1>1, <1>3, <1>4
<1>6. ASSUME NEW k \in Nat, k \in Same PROVE k + 1 \in Same
  <2>1. SUFFICES ASSUME k + 1 <= N PROVE kept[pos[k + 1]] = SubSeq(rbsp, 1, k + 1)
    OBVIOUS
  <2> DEFINE p == pos[k]
             q == pos[k + 1]
  <2>2. k + 1 \in 1..N /\ k + 1 \in 0..N /\ k \in 0..N /\ (k + 1) - 1 = k
    BY <1>4, <2>1
  <2>3. /\ p \in 0..Len(ebsp) /\ q \in 0..Len(ebsp)
        /\ IsWritten(ebsp, p, q, rbsp[k + 1])
    BY <1>4, <2>2
  <2>4. kept[p] = SubSeq(rbsp, 1, k)
    BY <1>6, <2>1
  <2>5. q - 1 \notin Prevention(ebsp)
    BY <1>1, <1>2, <2>2, WrittenIsKept
  <2>6. q = p + 2 => p \in Prevention(ebsp)
    <3>1. SUFFICES ASSUME q = p + 2 PROVE p \in Prevention(ebsp)
      OBVIOUS
    <3>2. IsInserted(pos, k + 1)
      BY <2>2, <3>1 DEF IsInserted
    <3>3. p = pos[k + 1] - 2 /\ p \in Nat
      BY <1>4, <2>3, <3>1
    <3> HIDE DEF p, q
    <3>4. QED
      BY <1>1, <1>2, <2>2, <3>2, <3>3, InsertedIsDropped
  <2>7. SubSeq(rbsp, 1, k + 1) = Append(SubSeq(rbsp, 1, k), rbsp[k + 1])
    BY <1>4, <2>1, OneMore
  <2> HIDE DEF p, q
  <2>8. ebsp[q] = rbsp[k + 1] /\ (q = p + 1 \/ q = p + 2)
    BY <2>3 DEF IsWritten
  <2>9. CASE q = p + 1
    <3>1. q \in 1..Len(ebsp) /\ q - 1 = p
      BY <1>4, <2>3, <2>9
    <3>2. kept[q] = Append(kept[p], ebsp[q])
      BY <1>3, <2>5, <3>1
    <3>3. QED
      BY <2>4, <2>7, <2>8, <3>2 DEF q
  <2>10. CASE q = p + 2
    <3>1. /\ q \in 1..Len(ebsp) /\ p + 1 \in 1..Len(ebsp)
          /\ q - 1 = p + 1 /\ (p + 1) - 1 = p
      BY <1>4, <2>3, <2>10
    <3>2. kept[p + 1] = kept[p]
      BY <1>3, <2>6, <2>10, <3>1
    <3>3. kept[q] = Append(kept[p + 1], ebsp[q])
      BY <1>3, <2>5, <3>1
    <3>4. QED
      BY <2>4, <2>7, <2>8, <3>2, <3>3 DEF q
  <2>11. QED
    BY <2>8, <2>9, <2>10
<1>7. N \in Same
  <2> HIDE DEF Same
  <2>1. QED
    BY <1>4, <1>5, <1>6, InductionOnSet
<1>8. kept[Len(ebsp)] = SubSeq(rbsp, 1, N)
  BY <1>4, <1>7
<1>9. SubSeq(rbsp, 1, N) = rbsp
  OBVIOUS
<1>10. EbspToRbsp(ebsp) = kept[Len(ebsp)]
  BY LastStep DEF kept
<1>11. QED
  BY <1>8, <1>9, <1>10 DEF ebsp

(* The offsets of the first m bytes of an RBSP in its payload.             *)
OffsetsOf(pos, m) == {pos[j] - 1 : j \in 1..m}

(* The first m bytes of an RBSP have m different offsets.                  *)
LEMMA CountOfOffsets ==
  ASSUME NEW rbsp \in Seq(Nat), NEW ebsp \in Seq(Nat), NEW pos, Positions(pos, rbsp, ebsp),
         NEW m \in 0..Len(rbsp)
  PROVE  IsFiniteSet(OffsetsOf(pos, m)) /\ Cardinality(OffsetsOf(pos, m)) = m
<1> DEFINE N == Len(rbsp)
           Good(n) == IsFiniteSet(OffsetsOf(pos, n)) /\ Cardinality(OffsetsOf(pos, n)) = n
           Counted == {n \in Nat : n <= N => Good(n)}
<1>1. /\ N \in Nat
      /\ \A j \in 0..N : pos[j] \in 0..Len(ebsp)
      /\ \A i, j \in 0..N : i < j => pos[i] < pos[j]
  BY PositionsIncrease
<1>2. 0 \in Counted
  <2>1. OffsetsOf(pos, 0) = {}
    BY DEF OffsetsOf
  <2>2. QED
    BY <2>1, FS_EmptySet
<1>3. ASSUME NEW n \in Nat, n \in Counted PROVE n + 1 \in Counted
  <2>1. SUFFICES ASSUME n + 1 <= N PROVE Good(n + 1)
    OBVIOUS
  <2> DEFINE before == OffsetsOf(pos, n)
             newest == pos[n + 1] - 1
  <2>2. IsFiniteSet(before) /\ Cardinality(before) = n
    BY <1>1, <1>3, <2>1
  <2>3. OffsetsOf(pos, n + 1) = before \cup {newest}
    <3>1. \A j : j \in 1..(n + 1) <=> j \in 1..n \/ j = n + 1
      OBVIOUS
    <3>2. QED
      BY <3>1 DEF OffsetsOf
  <2>4. newest \notin before
    <3>1. SUFFICES ASSUME NEW j \in 1..n, pos[j] - 1 = pos[n + 1] - 1 PROVE FALSE
      BY DEF OffsetsOf
    <3>2. j \in 0..N /\ n + 1 \in 0..N /\ j < n + 1
      BY <1>1, <2>1
    <3> DEFINE p == pos[j]
               q == pos[n + 1]
    <3>3. p \in Nat /\ q \in Nat /\ p < q
      BY <1>1, <3>2
    <3>4. p - 1 = q - 1
      BY <3>1
    <3> HIDE DEF p, q
    <3>5. QED
      BY <3>3, <3>4
  <2> HIDE DEF before, newest
  <2>5. IsFiniteSet(before \cup {newest}) /\ Cardinality(before \cup {newest}) = n + 1
    BY <2>2, <2>4, FS_AddElement
  <2>6. QED
    BY <2>3, <2>5
<1>4. m \in Counted
  <2>1. m \in Nat
    OBVIOUS
  <2> HIDE DEF Counted
  <2>2. QED
    BY <1>2, <1>3, <2>1, InductionOnSet
<1>5. QED
  BY <1>1, <1>4

(* The offsets before index that ebsp_to_rbsp keeps.                       *)
KeptBelow(ebsp, index) ==
  {i \in (0..(Len(ebsp) - 1)) \ Prevention(ebsp) : i < index}

(* The two loops over a payload agree: what rbsp_offset_to_ebsp_offset     *)
(* skips is what ebsp_to_rbsp drops, and it counts what that keeps.        *)
LEMMA LoopsAgree ==
  ASSUME NEW ebsp \in Seq(Nat)
  PROVE  /\ \A index \in 0..Len(ebsp) :
              Loop(ebsp)[index].rbsp_index = Cardinality(KeptBelow(ebsp, index))
         /\ \A index \in 0..(Len(ebsp) - 1) :
              Skips(ebsp, index, Loop(ebsp)[index].zeros) <=> index \in Prevention(ebsp)
<1> DEFINE N == Len(ebsp)
           run == Run(ebsp)
           loop == Loop(ebsp)
           Good(n) == /\ loop[n].zeros = run[n]
                      /\ IsFiniteSet(KeptBelow(ebsp, n))
                      /\ loop[n].rbsp_index = Cardinality(KeptBelow(ebsp, n))
           Agreed == {n \in Nat : n <= N => Good(n)}
<1>1. /\ N \in Nat
      /\ \A n \in 0..N : loop[n] \in LoopStates /\ run[n] \in 0..2
      /\ loop[0] = [rbsp_index |-> 0, zeros |-> 0] /\ run[0] = 0
      /\ \A n \in 1..N :
           /\ loop[n] = PassByte(ebsp, n - 1, loop[n - 1])
           /\ run[n] = AfterByte(At(ebsp, n - 1), run[n - 1], Drops(ebsp, n - 1, run[n - 1]))
  BY LoopSteps, RunSteps
<1>2. \A n \in 0..(N - 1) : n \in Prevention(ebsp) <=> Drops(ebsp, n, run[n])
  BY LastStep
<1>3. \A n, zeros : Skips(ebsp, n, zeros) <=> Drops(ebsp, n, zeros)
  BY DEF Skips, Drops
<1> HIDE DEF run, loop
<1>4. 0 \in Agreed
  <2>1. KeptBelow(ebsp, 0) = {}
    BY DEF KeptBelow
  <2>2. IsFiniteSet(KeptBelow(ebsp, 0)) /\ Cardinality(KeptBelow(ebsp, 0)) = 0
    BY <2>1, FS_EmptySet
  <2>3. loop[0].zeros = run[0] /\ loop[0].rbsp_index = 0
    BY <1>1
  <2>4. QED
    BY <2>2, <2>3
<1>5. ASSUME NEW n \in Nat, n \in Agreed PROVE n + 1 \in Agreed
  <2>1. SUFFICES ASSUME n + 1 <= N PROVE Good(n + 1)
    OBVIOUS
  <2> DEFINE before == loop[n]
             kept == KeptBelow(ebsp, n)
             value == At(ebsp, n)
  <2>2. /\ n \in 0..(N - 1) /\ n \in 0..N /\ n + 1 \in 1..N /\ (n + 1) - 1 = n
        /\ n <= N
    BY <1>1, <2>1
  <2>3. /\ before \in LoopStates /\ before.zeros = run[n] /\ run[n] \in 0..2
        /\ IsFiniteSet(kept) /\ before.rbsp_index = Cardinality(kept)
    BY <1>1, <1>5, <2>2
  <2>4. /\ loop[n + 1] = PassByte(ebsp, n, before)
        /\ run[n + 1] = AfterByte(value, run[n], Drops(ebsp, n, run[n]))
    BY <1>1, <2>2
  <2>5. before.zeros \in 0..2 /\ before.rbsp_index \in Nat
    BY <2>3 DEF LoopStates
  <2> HIDE DEF before, value
  <2>6. CASE Drops(ebsp, n, run[n])
    <3>1. loop[n + 1] = [before EXCEPT !.zeros = 0]
      BY <1>3, <2>3, <2>4, <2>6 DEF PassByte
    <3>2. loop[n + 1].zeros = 0 /\ loop[n + 1].rbsp_index = before.rbsp_index
      BY <2>3, <3>1 DEF LoopStates
    <3>3. run[n + 1] = 0
      BY <2>4, <2>6 DEF AfterByte
    <3>4. KeptBelow(ebsp, n + 1) = kept
      <4>1. n \in Prevention(ebsp)
        BY <1>2, <2>2, <2>6
      <4>2. \A i \in 0..(N - 1) : i < n + 1 <=> i < n \/ i = n
        BY <1>1
      <4>3. QED
        BY <4>1, <4>2 DEF KeptBelow
    <3>5. QED
      BY <2>3, <3>2, <3>3, <3>4
  <2>7. CASE ~ Drops(ebsp, n, run[n])
    <3> DEFINE zeros == ZerosAfter(value, before.zeros)
    <3>1. loop[n + 1] = [rbsp_index |-> before.rbsp_index + 1, zeros |-> zeros]
      BY <1>3, <2>3, <2>4, <2>7 DEF PassByte, value
    <3>2. zeros = run[n + 1]
      <4>1. Min({run[n] + 1, 2}) = IF run[n] = 2 THEN 2 ELSE run[n] + 1
        BY <2>3, MinOfNext
      <4> DEFINE least == Min({run[n] + 1, 2})
      <4>2. run[n + 1] = IF value = 0 THEN least ELSE 0
        BY <2>4, <2>7 DEF AfterByte
      <4> HIDE DEF least
      <4>3. least = IF run[n] = 2 THEN 2 ELSE run[n] + 1
        BY <4>1 DEF least
      <4>4. QED
        BY <2>3, <4>2, <4>3 DEF ZerosAfter
    <3> HIDE DEF zeros
    <3>3. KeptBelow(ebsp, n + 1) = kept \cup {n} /\ n \notin kept
      <4>1. n \notin Prevention(ebsp)
        BY <1>2, <2>2, <2>7
      <4>2. \A i \in 0..(N - 1) : i < n + 1 <=> i < n \/ i = n
        BY <1>1
      <4>3. QED
        BY <2>2, <4>1, <4>2 DEF KeptBelow
    <3> HIDE DEF kept
    <3>4. /\ IsFiniteSet(kept \cup {n})
          /\ Cardinality(kept \cup {n}) = Cardinality(kept) + 1
      BY <2>3, <3>3, FS_AddElement
    <3>5. loop[n + 1].zeros = run[n + 1] /\ loop[n + 1].rbsp_index = Cardinality(kept) + 1
      BY <2>3, <3>1, <3>2
    <3>6. KeptBelow(ebsp, n + 1) = kept \cup {n}
      BY <3>3
    <3>7. QED
      BY <3>4, <3>5, <3>6
  <2>8. QED
    BY <2>6, <2>7
<1>6. \A n \in 0..N : Good(n)
  <2> HIDE DEF Good
  <2>1. Nat \subseteq Agreed
    <3> HIDE DEF Agreed
    <3>1. QED
      BY <1>4, <1>5, InductionOnSet
  <2>2. QED
    BY <1>1, <2>1
<1>7. \A n \in 0..(N - 1) : Skips(ebsp, n, loop[n].zeros) <=> n \in Prevention(ebsp)
  <2>1. ASSUME NEW n \in 0..(N - 1)
        PROVE  Skips(ebsp, n, loop[n].zeros) <=> n \in Prevention(ebsp)
    <3>1. n \in 0..N
      BY <1>1
    <3>2. loop[n].zeros = run[n]
      BY <1>6, <3>1
    <3>3. QED
      BY <1>2, <1>3, <3>2
  <2>2. QED
    BY <2>1
<1>8. QED
  BY <1>6, <1>7 DEF loop

(* rbsp_offset_to_ebsp_offset finds the byte that became the RBSP byte.    *)
LEMMA SourceOfOffset ==
  ASSUME NEW rbsp \in Seq(Nat), NEW ebsp \in Seq(Nat), NEW pos, Positions(pos, rbsp, ebsp),
         NEW offset \in 0..Len(rbsp)
  PROVE  RbspOffsetToEbspOffset(ebsp, offset)
           = IF offset = Len(rbsp) THEN Len(ebsp) ELSE pos[offset + 1] - 1
<1> DEFINE N == Len(rbsp)
           kept == (0..(Len(ebsp) - 1)) \ Prevention(ebsp)
           CountBelow(i) == Cardinality({j \in kept : j < i})
           found == {i \in kept : CountBelow(i) = offset}
<1>1. /\ N \in Nat /\ Len(ebsp) \in Nat
      /\ \A j \in 0..N : pos[j] \in 0..Len(ebsp)
      /\ \A i, j \in 0..N : i < j => pos[i] < pos[j]
  BY PositionsIncrease
<1>2. \A k \in 1..N : pos[k] - 1 \in kept
  BY WrittenIsKept
<1>3. ASSUME NEW i \in kept PROVE \E k \in 1..N : i = pos[k] - 1
  <2>1. i \in Nat /\ i + 1 \in 1..Len(ebsp) /\ i \notin Prevention(ebsp)
    BY <1>1
  <2>2. PICK k \in 1..N : i + 1 = pos[k] \/ (IsInserted(pos, k) /\ i + 1 = pos[k] - 1)
    BY <2>1, PlacesAreTaken
  <2>3. pos[k] \in Nat
    BY <1>1
  <2>4. CASE i + 1 = pos[k]
    <3>1. i = pos[k] - 1
      BY <2>1, <2>3, <2>4
    <3>2. QED
      BY <3>1
  <2>5. CASE IsInserted(pos, k) /\ i + 1 = pos[k] - 1
    <3>1. i = pos[k] - 2
      BY <2>1, <2>3, <2>5
    <3>2. i \in Prevention(ebsp)
      BY <2>1, <2>5, <3>1, InsertedIsDropped
    <3>3. QED
      BY <2>1, <3>2
  <2>6. QED
    BY <2>2, <2>4, <2>5
<1> HIDE DEF kept
<1>4. ASSUME NEW k \in 1..N PROVE CountBelow(pos[k] - 1) = k - 1
  <2>1. {j \in kept : j < pos[k] - 1} = OffsetsOf(pos, k - 1)
    <3>1. ASSUME NEW i \in 1..(k - 1) PROVE pos[i] - 1 \in kept /\ pos[i] - 1 < pos[k] - 1
      <4>1. i \in 1..N /\ i \in 0..N /\ k \in 0..N /\ i < k
        BY <1>1
      <4> DEFINE p == pos[i]
                 q == pos[k]
      <4>2. p \in Nat /\ q \in Nat /\ p < q
        BY <1>1, <4>1
      <4>3. p - 1 \in kept
        BY <1>2, <4>1
      <4> HIDE DEF p, q
      <4>4. p - 1 < q - 1
        BY <4>2
      <4>5. QED
        BY <4>3, <4>4 DEF p, q
    <3>2. ASSUME NEW j \in kept, j < pos[k] - 1 PROVE j \in OffsetsOf(pos, k - 1)
      <4>1. PICK i \in 1..N : j = pos[i] - 1
        BY <1>3
      <4>2. i \in 0..N /\ k \in 0..N
        BY <1>1
      <4> DEFINE p == pos[i]
                 q == pos[k]
      <4>3. /\ p \in Nat /\ q \in Nat /\ p - 1 < q - 1
            /\ k < i => q < p
            /\ k = i => q = p
        BY <1>1, <3>2, <4>1, <4>2
      <4> HIDE DEF p, q
      <4>4. i < k
        BY <1>1, <4>2, <4>3
      <4>5. i \in 1..(k - 1)
        BY <1>1, <4>4
      <4>6. QED
        BY <4>1, <4>5 DEF OffsetsOf
    <3>3. QED
      BY <3>1, <3>2 DEF OffsetsOf
  <2>2. k - 1 \in 0..N
    BY <1>1
  <2>3. Cardinality(OffsetsOf(pos, k - 1)) = k - 1
    BY <2>2, CountOfOffsets
  <2>4. QED
    BY <2>1, <2>3
<1>5. RbspOffsetToEbspOffset(ebsp, offset) = IF found = {} THEN Len(ebsp) ELSE Min(found)
  <2> DEFINE passed == {index \in 0..(Len(ebsp) - 1) :
                          /\ ~ Skips(ebsp, index, Loop(ebsp)[index].zeros)
                          /\ Loop(ebsp)[index].rbsp_index = offset}
  <2>1. RbspOffsetToEbspOffset(ebsp, offset)
          = IF passed = {} THEN Len(ebsp) ELSE Min(passed)
    BY LastStep
  <2>2. \A index \in 0..(Len(ebsp) - 1) :
          /\ Skips(ebsp, index, Loop(ebsp)[index].zeros) <=> index \in Prevention(ebsp)
          /\ Loop(ebsp)[index].rbsp_index = CountBelow(index)
    <3>1. \A index : {j \in kept : j < index} = KeptBelow(ebsp, index)
      BY DEF kept, KeptBelow
    <3>2. \A index \in 0..(Len(ebsp) - 1) : index \in 0..Len(ebsp)
      BY <1>1
    <3>3. QED
      BY <3>1, <3>2, LoopsAgree
  <2> HIDE DEF CountBelow
  <2>3. passed = found
    BY <2>2 DEF kept
  <2>4. QED
    BY <2>1, <2>3
<1>6. \A i : i \in found <=> /\ offset # N
                             /\ i = pos[offset + 1] - 1
  <2>1. ASSUME NEW i \in found PROVE offset # N /\ i = pos[offset + 1] - 1
    <3>1. i \in kept /\ CountBelow(i) = offset
      OBVIOUS
    <3>2. PICK k \in 1..N : i = pos[k] - 1
      BY <1>3, <3>1
    <3> HIDE DEF CountBelow
    <3>3. k - 1 = offset
      BY <1>4, <3>1, <3>2
    <3>4. k = offset + 1 /\ offset # N
      BY <1>1, <3>3
    <3>5. QED
      BY <3>2, <3>4
  <2>2. ASSUME offset # N PROVE pos[offset + 1] - 1 \in found
    <3>1. offset + 1 \in 1..N /\ (offset + 1) - 1 = offset
      BY <1>1, <2>2
    <3>2. pos[offset + 1] - 1 \in kept
      BY <1>2, <3>1
    <3> HIDE DEF CountBelow
    <3>3. CountBelow(pos[offset + 1] - 1) = offset
      BY <1>4, <3>1
    <3>4. QED
      BY <3>2, <3>3
  <2> HIDE DEF found
  <2>3. QED
    BY <2>1, <2>2
<1> HIDE DEF found
<1>7. CASE offset = N
  BY <1>5, <1>6, <1>7
<1>8. CASE offset # N
  <2> DEFINE source == pos[offset + 1] - 1
  <2>1. found = {source}
    BY <1>6, <1>8
  <2>2. source \in Nat
    <3>1. offset + 1 \in 1..N
      BY <1>1, <1>8
    <3>2. source \in kept
      BY <1>2, <3>1
    <3>3. QED
      BY <1>1, <3>2 DEF kept
  <2> HIDE DEF source
  <2>3. Min({source}) = source
    <3>1. {source} \subseteq Nat /\ {source} # {}
      BY <2>2
    <3>2. Min({source}) \in {source}
      BY <3>1, MinIsLeast
    <3>3. QED
      BY <3>2
  <2>4. QED
    BY <1>5, <1>8, <2>1, <2>3 DEF source
<1>9. QED
  BY <1>7, <1>8

(* What ErrorsPointAtSource says of one payload.                           *)
SourcesArePlaces(ebsp, rbsp) ==
  LET source == [k \in 0..Len(rbsp) |-> RbspOffsetToEbspOffset(ebsp, k)]
  IN  /\ \A k \in 0..(Len(rbsp) - 1) :
           At(ebsp, source[k]) = At(rbsp, k) /\ source[k] \notin Prevention(ebsp)
      /\ \A k \in 1..Len(rbsp) : source[k - 1] < source[k]
      /\ source[Len(rbsp)] = Len(ebsp)

(* Every byte of a protected RBSP is found where it was written, and its   *)
(* end at the end of the payload.                                          *)
LEMMA ErrorsFindSource ==
  ASSUME NEW rbsp \in Seq(Bytes)
  PROVE  SourcesArePlaces(Protect(rbsp), rbsp)
<1> DEFINE N == Len(rbsp)
           ebsp == Protect(rbsp)
           source == [k \in 0..N |-> RbspOffsetToEbspOffset(ebsp, k)]
<1>1. ebsp \in Seq(Nat) /\ rbsp \in Seq(Nat)
  BY ProtectedPositions, BytesAreNumbers
<1>2. PICK pos : Positions(pos, rbsp, ebsp)
  BY ProtectedPositions
<1> HIDE DEF ebsp
<1>3. /\ N \in Nat /\ Len(ebsp) \in Nat
      /\ pos[N] = Len(ebsp)
      /\ \A j \in 0..N : pos[j] \in 0..Len(ebsp)
      /\ \A j \in 1..N : ebsp[pos[j]] = rbsp[j]
      /\ \A i, j \in 0..N : i < j => pos[i] < pos[j]
  <2>1. /\ \A j \in 0..N : pos[j] \in 0..Len(ebsp)
        /\ \A i, j \in 0..N : i < j => pos[i] < pos[j]
    BY <1>1, <1>2, PositionsIncrease
  <2>2. N \in Nat /\ Len(ebsp) \in Nat
    BY <1>1
  <2>3. QED
    BY <1>2, <2>1, <2>2 DEF Positions, IsWritten
<1>4. \A k \in 0..N : source[k] = IF k = N THEN Len(ebsp) ELSE pos[k + 1] - 1
  BY <1>1, <1>2, SourceOfOffset
<1> HIDE DEF source
<1>5. ASSUME NEW k \in 0..(N - 1)
      PROVE  At(ebsp, source[k]) = At(rbsp, k) /\ source[k] \notin Prevention(ebsp)
  <2> DEFINE q == pos[k + 1]
  <2>1. k \in 0..N /\ k # N /\ k + 1 \in 1..N /\ k + 1 \in 0..N
    BY <1>3
  <2>2. source[k] = q - 1 /\ q \in Nat /\ ebsp[q] = rbsp[k + 1]
    BY <1>3, <1>4, <2>1
  <2>3. q - 1 \notin Prevention(ebsp)
    BY <1>1, <1>2, <2>1, WrittenIsKept
  <2> HIDE DEF q
  <2>4. (q - 1) + 1 = q
    BY <2>2
  <2>5. QED
    BY <2>2, <2>3, <2>4 DEF At
<1>6. ASSUME NEW k \in 1..N PROVE source[k - 1] < source[k]
  <2> DEFINE p == pos[k]
             q == pos[k + 1]
  <2>1. /\ k - 1 \in 0..N /\ k \in 0..N /\ k - 1 # N /\ (k - 1) + 1 = k
        /\ k # N => k + 1 \in 0..N
    BY <1>3
  <2>2. source[k - 1] = p - 1 /\ p \in Nat
    <3>1. source[k - 1] = pos[(k - 1) + 1] - 1
      BY <1>4, <2>1
    <3>2. p \in Nat
      BY <1>3, <2>1
    <3>3. QED
      BY <2>1, <3>1, <3>2
  <2>3. CASE k = N
    <3>1. source[k] = p
      BY <1>3, <1>4, <2>1, <2>3
    <3> HIDE DEF p
    <3>2. QED
      BY <2>2, <3>1
  <2>4. CASE k # N
    <3>1. source[k] = q - 1 /\ q \in Nat /\ p < q
      BY <1>3, <1>4, <2>1, <2>4
    <3> HIDE DEF p, q
    <3>2. QED
      BY <2>2, <3>1
  <2>5. QED
    BY <2>3, <2>4
<1>7. source[N] = Len(ebsp)
  BY <1>3, <1>4
<1>8. QED
  BY <1>5, <1>6, <1>7 DEF SourcesArePlaces, source, ebsp

-----------------------------------------------------------------------------
(* The file, as the muxer writes it.                                       *)

(* A sequence that stands in another one is a subsequence of it.           *)
LEMMA Subsequence ==
  ASSUME NEW S, NEW s \in Seq(S), NEW t \in Seq(S), NEW before \in Nat,
         before + Len(t) <= Len(s), \A j \in 1..Len(t) : s[before + j] = t[j]
  PROVE  SubSeq(s, before + 1, before + Len(t)) = t
<1> DEFINE sub == SubSeq(s, before + 1, before + Len(t))
<1>1. Len(t) \in Nat /\ Len(s) \in Nat
  OBVIOUS
<1>2. \A j \in 1..Len(t) : before + j \in 1..Len(s)
  BY <1>1
<1>3. sub \in Seq(S) /\ Len(sub) = Len(t)
  BY <1>1
<1>4. \A j \in 1..Len(t) : sub[j] = t[j]
  BY <1>1
<1> HIDE DEF sub
<1>5. sub = [j \in 1..Len(t) |-> sub[j]]
  <2>1. sub = [j \in 1..Len(sub) |-> sub[j]]
    BY <1>3
  <2>2. QED
    BY <1>3, <2>1
<1>6. t = [j \in 1..Len(t) |-> t[j]]
  OBVIOUS
<1>7. QED
  BY <1>4, <1>5, <1>6 DEF sub

(* The bytes before stay what they are.                                    *)
LEMMA StartIsKept ==
  ASSUME NEW S, NEW s \in Seq(S), NEW t \in Seq(S), Len(s) <= Len(t),
         \A j \in 1..Len(s) : t[j] = s[j],
         NEW a \in Nat, NEW b \in Nat, b <= Len(s)
  PROVE  SubSeq(t, a + 1, b) = SubSeq(s, a + 1, b)
<1>1. Len(s) \in Nat /\ Len(t) \in Nat
  OBVIOUS
<1>2. CASE a >= b
  BY <1>1, <1>2
<1>3. CASE a < b
  <2> DEFINE u == SubSeq(s, a + 1, b)
  <2>1. u \in Seq(S) /\ Len(u) = b - a /\ a + Len(u) = b
    BY <1>1, <1>3
  <2>2. \A j \in 1..(b - a) : u[j] = s[a + j] /\ a + j \in 1..Len(s)
    BY <1>1, <1>3
  <2> HIDE DEF u
  <2>3. \A j \in 1..Len(u) : t[a + j] = u[j]
    BY <2>1, <2>2
  <2>4. a + Len(u) <= Len(t)
    BY <1>1, <2>1
  <2>5. SubSeq(t, a + 1, a + Len(u)) = u
    BY <2>1, <2>3, <2>4, Subsequence
  <2>6. QED
    BY <2>1, <2>5 DEF u
<1>4. QED
  BY <1>2, <1>3

(* Where the parts of a concatenation are.                                 *)
LEMMA Joined ==
  ASSUME NEW s \in Seq(Nat), NEW t \in Seq(Nat)
  PROVE  /\ s \o t \in Seq(Nat) /\ Len(s \o t) = Len(s) + Len(t)
         /\ \A j \in 1..Len(s) : (s \o t)[j] = s[j]
         /\ \A j \in 1..Len(t) : (s \o t)[Len(s) + j] = t[j]
OBVIOUS

WrittenUnit == [payload_offset : Nat, payload_size : Nat, rbsp : Seq(Bytes)]

(* Where the bytes of NAL unit i end; 0 is where the file starts.          *)
EndOf(units, i) == IF i = 0 THEN 0 ELSE units[i].payload_offset + units[i].payload_size

(* A NAL unit is a header byte and a protected RBSP that ends with a stop  *)
(* bit.                                                                    *)
IsNal(bytes, unit) ==
  /\ unit.rbsp = <<>> \/ unit.rbsp[Len(unit.rbsp)] # 0
  /\ unit.payload_size = 1 + Len(Protect(unit.rbsp))
  /\ unit.payload_offset + unit.payload_size <= Len(bytes)
  /\ bytes[unit.payload_offset + 1] # 0
  /\ SubSeq(bytes, (unit.payload_offset + 1) + 1, unit.payload_offset + unit.payload_size)
       = Protect(unit.rbsp)

(* Between two payloads there are zeros and the one of a start code.       *)
IsGap(bytes, end, offset) ==
  /\ end + 3 <= offset /\ bytes[offset] = 1
  /\ \A j \in (end + 1)..(offset - 1) : bytes[j] = 0

(* The bytes of the units, one after the other, with their gaps.           *)
Framed(bytes, units) ==
  /\ bytes \in Seq(Nat)
  /\ units \in Seq(WrittenUnit)
  /\ \A i \in 1..Len(units) : IsNal(bytes, units[i])
  /\ \A i \in 1..Len(units) : IsGap(bytes, EndOf(units, i - 1), units[i].payload_offset)
  /\ EndOf(units, Len(units)) <= Len(bytes)
  /\ \A j \in (EndOf(units, Len(units)) + 1)..Len(bytes) : bytes[j] = 0

FileInv == Framed(file, written)

(* One NAL unit more.                                                      *)
LEMMA NalIsWritten ==
  ASSUME NEW bytes, NEW units, Framed(bytes, units),
         NEW header \in Headers, NEW rbsp \in Rbsps, NEW before \in {2, 3},
         NEW after \in 0..MaxZeros
  PROVE  LET start_code == Zeros(before) \o <<1>>
             nal == <<header>> \o Protect(rbsp)
             unit == [payload_offset |-> Len(bytes) + Len(start_code),
                      payload_size |-> Len(nal), rbsp |-> rbsp]
         IN  Framed(bytes \o start_code \o nal \o Zeros(after), Append(units, unit))
<1> DEFINE L == Len(bytes)
           n == Len(units)
           ebsp == Protect(rbsp)
           start_code == Zeros(before) \o <<1>>
           nal == <<header>> \o ebsp
           unit == [payload_offset |-> L + Len(start_code),
                    payload_size |-> Len(nal), rbsp |-> rbsp]
           m == L + before + 1
<1>1. rbsp \in Seq(Bytes) /\ (rbsp = <<>> \/ rbsp[Len(rbsp)] # 0)
  <2>1. PICK k \in 0..MaxBody : rbsp \in [1..k -> Bytes]
    BY DEF Rbsps
  <2>2. rbsp \in Seq(Bytes)
    BY <2>1
  <2>3. QED
    BY <2>2 DEF Rbsps, Last
<1>2. ebsp \in Seq(Nat) /\ Len(ebsp) \in Nat
  <2>1. ebsp \in Seq(Nat)
    BY <1>1, ProtectedPositions
  <2>2. QED
    BY <2>1
<1>3. /\ L \in Nat /\ n \in Nat /\ bytes \in Seq(Nat) /\ units \in Seq(WrittenUnit)
  BY DEF Framed
<1>4. header \in Nat /\ header # 0 /\ before \in Nat /\ before >= 2 /\ after \in Nat
  BY ByteStreamAssumption
<1>5. /\ start_code \in Seq(Nat) /\ Len(start_code) = before + 1
      /\ \A j \in 1..before : start_code[j] = 0
      /\ start_code[before + 1] = 1
  <2>1. Zeros(before) \in Seq(Nat) /\ Len(Zeros(before)) = before
    BY <1>4 DEF Zeros
  <2>2. \A j \in 1..before : Zeros(before)[j] = 0
    BY DEF Zeros
  <2>3. <<1>> \in Seq(Nat) /\ Len(<<1>>) = 1 /\ <<1>>[1] = 1
    OBVIOUS
  <2>4. QED
    BY <2>1, <2>2, <2>3, Joined
<1>6. /\ nal \in Seq(Nat) /\ Len(nal) = 1 + Len(ebsp)
      /\ nal[1] = header
      /\ \A j \in 1..Len(ebsp) : nal[1 + j] = ebsp[j]
  <2>1. <<header>> \in Seq(Nat) /\ Len(<<header>>) = 1 /\ <<header>>[1] = header
    BY <1>4
  <2> HIDE DEF ebsp
  <2>2. QED
    BY <1>2, <2>1, Joined
<1>7. Zeros(after) \in Seq(Nat) /\ Len(Zeros(after)) = after /\ \A j \in 1..after : Zeros(after)[j] = 0
  BY <1>4 DEF Zeros
<1> DEFINE longer == bytes \o start_code \o nal \o Zeros(after)
           more == Append(units, unit)
<1>8. longer = bytes \o start_code \o nal \o Zeros(after) /\ more = Append(units, unit)
  OBVIOUS
<1> HIDE DEF start_code, nal, ebsp, longer, more
<1>9. /\ longer \in Seq(Nat) /\ Len(longer) = m + 1 + Len(ebsp) + after
      /\ \A j \in 1..L : longer[j] = bytes[j]
      /\ \A j \in 1..before : longer[L + j] = 0
      /\ longer[m] = 1
      /\ longer[m + 1] = header
      /\ \A j \in 1..Len(ebsp) : longer[(m + 1) + j] = ebsp[j]
      /\ \A j \in 1..after : longer[(m + 1 + Len(ebsp)) + j] = 0
  <2> DEFINE s == bytes \o start_code
             t == s \o nal
             u == t \o Zeros(after)
  <2>1. /\ s \in Seq(Nat) /\ Len(s) = m
        /\ \A j \in 1..L : s[j] = bytes[j]
        /\ \A j \in 1..Len(start_code) : s[L + j] = start_code[j]
    BY <1>3, <1>4, <1>5, Joined
  <2> HIDE DEF s
  <2>2. /\ t \in Seq(Nat) /\ Len(t) = m + 1 + Len(ebsp)
        /\ \A j \in 1..m : t[j] = s[j]
        /\ \A j \in 1..Len(nal) : t[m + j] = nal[j]
    <3>1. /\ t \in Seq(Nat) /\ Len(t) = Len(s) + Len(nal)
          /\ \A j \in 1..Len(s) : t[j] = s[j]
          /\ \A j \in 1..Len(nal) : t[Len(s) + j] = nal[j]
      BY <1>6, <2>1, Joined
    <3> HIDE DEF t
    <3>2. Len(t) = m + 1 + Len(ebsp)
      BY <1>2, <1>3, <1>4, <1>6, <2>1, <3>1
    <3> HIDE DEF m
    <3>3. QED
      BY <2>1, <3>1, <3>2
  <2> HIDE DEF t
  <2>3. /\ u \in Seq(Nat) /\ Len(u) = m + 1 + Len(ebsp) + after
        /\ \A j \in 1..(m + 1 + Len(ebsp)) : u[j] = t[j]
        /\ \A j \in 1..after : u[(m + 1 + Len(ebsp)) + j] = 0
    <3> DEFINE zeros == Zeros(after)
               l == m + 1 + Len(ebsp)
    <3>1. zeros \in Seq(Nat) /\ Len(zeros) = after /\ \A j \in 1..after : zeros[j] = 0
      BY <1>7
    <3> HIDE DEF zeros
    <3>2. t \in Seq(Nat) /\ Len(t) = l
      BY <2>2
    <3> HIDE DEF l
    <3>3. /\ t \o zeros \in Seq(Nat) /\ Len(t \o zeros) = Len(t) + Len(zeros)
          /\ \A j \in 1..Len(t) : (t \o zeros)[j] = t[j]
          /\ \A j \in 1..Len(zeros) : (t \o zeros)[Len(t) + j] = zeros[j]
      BY <3>1, <3>2, Joined
    <3>4. u = t \o zeros
      BY DEF zeros
    <3>5. /\ u \in Seq(Nat) /\ Len(u) = l + after
          /\ \A j \in 1..l : u[j] = t[j]
          /\ \A j \in 1..after : u[l + j] = 0
      BY <3>1, <3>2, <3>3, <3>4
    <3>6. QED
      BY <3>5 DEF l
  <2>4. longer = u
    BY <1>8 DEF s, t
  <2> HIDE DEF u
  <2>5. /\ \A j \in 1..L : j \in 1..m /\ j \in 1..(m + 1 + Len(ebsp))
        /\ \A j \in 1..(before + 1) : L + j \in 1..m /\ L + j \in 1..(m + 1 + Len(ebsp))
        /\ \A j \in 1..(1 + Len(ebsp)) : m + j \in 1..(m + 1 + Len(ebsp))
    BY <1>2, <1>3, <1>4
  <2>6. \A j \in 1..L : u[j] = bytes[j]
    BY <2>1, <2>2, <2>3, <2>5
  <2>7. \A j \in 1..(before + 1) : u[L + j] = start_code[j]
    BY <1>5, <2>1, <2>2, <2>3, <2>5
  <2>8. \A j \in 1..(1 + Len(ebsp)) : u[m + j] = nal[j]
    BY <1>6, <2>2, <2>3, <2>5
  <2>9. (\A j \in 1..before : u[L + j] = 0) /\ u[m] = 1
    <3>1. \A j \in 1..before : j \in 1..(before + 1)
      BY <1>4
    <3>2. before + 1 \in 1..(before + 1) /\ L + (before + 1) = m
      BY <1>3, <1>4
    <3>3. u[L + (before + 1)] = 1
      BY <1>5, <2>7, <3>2
    <3>4. \A j \in 1..before : u[L + j] = 0
      BY <1>5, <2>7, <3>1
    <3> HIDE DEF m, L
    <3>5. QED
      BY <3>2, <3>3, <3>4
  <2>10. u[m + 1] = header /\ \A j \in 1..Len(ebsp) : u[(m + 1) + j] = ebsp[j]
    <3>1. 1 \in 1..(1 + Len(ebsp))
      BY <1>2
    <3>2. \A j \in 1..Len(ebsp) : 1 + j \in 1..(1 + Len(ebsp)) /\ m + (1 + j) = (m + 1) + j
      BY <1>2, <1>3, <1>4
    <3>3. \A j \in 1..Len(ebsp) : u[m + (1 + j)] = ebsp[j]
      BY <1>6, <2>8, <3>2
    <3>4. QED
      BY <1>6, <2>8, <3>1, <3>2, <3>3
  <2>11. QED
    BY <2>3, <2>4, <2>6, <2>9, <2>10
<1>10. /\ unit \in WrittenUnit
       /\ unit.payload_offset = m /\ unit.payload_size = 1 + Len(ebsp) /\ unit.rbsp = rbsp
  BY <1>1, <1>2, <1>3, <1>4, <1>5, <1>6 DEF WrittenUnit
<1> HIDE DEF unit
<1>11. /\ more \in Seq(WrittenUnit) /\ Len(more) = n + 1
       /\ \A i \in 1..n : more[i] = units[i]
       /\ more[n + 1] = unit
  BY <1>3, <1>8, <1>10
<1>12. IsNal(longer, unit)
  <2>1. SubSeq(longer, (m + 1) + 1, (m + 1) + Len(ebsp)) = ebsp
    <3>1. m + 1 \in Nat /\ (m + 1) + Len(ebsp) <= Len(longer)
      BY <1>2, <1>3, <1>4, <1>9
    <3> HIDE DEF m
    <3>2. QED
      BY <1>2, <1>9, <3>1, Subsequence
  <2>2. m + (1 + Len(ebsp)) = (m + 1) + Len(ebsp) /\ (m + 1) + Len(ebsp) <= Len(longer)
    BY <1>2, <1>3, <1>4, <1>9
  <2> HIDE DEF m
  <2>3. QED
    BY <1>1, <1>4, <1>9, <1>10, <2>1, <2>2 DEF IsNal, ebsp
<1>13. ASSUME NEW i \in 1..n PROVE IsNal(longer, units[i])
  <2> DEFINE u == units[i]
             o == u.payload_offset
             e == u.payload_offset + u.payload_size
  <2>1. u \in WrittenUnit /\ IsNal(bytes, u)
    BY <1>3 DEF Framed
  <2>2. /\ o \in Nat /\ e \in Nat /\ e <= L /\ o + 1 \in 1..L /\ o + 1 \in Nat
    <3>1. o \in Nat /\ u.payload_size \in Nat /\ e <= L /\ Len(Protect(u.rbsp)) \in Nat
      BY <2>1, ProtectedPositions DEF WrittenUnit, IsNal
    <3>2. u.payload_size >= 1
      BY <2>1, <3>1 DEF IsNal
    <3> DEFINE p == u.payload_size
    <3>3. o \in Nat /\ p \in Nat /\ p >= 1 /\ e = o + p /\ e <= L /\ L \in Nat
      BY <1>3, <3>1, <3>2
    <3> HIDE DEF o, e, p, L
    <3>4. QED
      BY <3>3
  <2>3. L <= Len(longer) /\ \A j \in 1..L : longer[j] = bytes[j]
    BY <1>2, <1>3, <1>4, <1>9
  <2>4. SubSeq(longer, (o + 1) + 1, e) = SubSeq(bytes, (o + 1) + 1, e)
    <3>1. /\ o + 1 \in Nat /\ e \in Nat /\ e <= Len(bytes)
          /\ bytes \in Seq(Nat) /\ longer \in Seq(Nat) /\ Len(bytes) <= Len(longer)
          /\ \A j \in 1..Len(bytes) : longer[j] = bytes[j]
      BY <1>3, <1>9, <2>2, <2>3
    <3> HIDE DEF o, e
    <3>2. QED
      BY <3>1, StartIsKept
  <2>5. longer[o + 1] = bytes[o + 1]
    BY <2>2, <2>3
  <2>6. e <= Len(longer)
    BY <1>3, <1>9, <2>2, <2>3
  <2>7. QED
    BY <2>1, <2>4, <2>5, <2>6 DEF IsNal
<1>14. IsGap(longer, EndOf(units, n), m)
  <2>1. /\ EndOf(units, n) <= L /\ EndOf(units, n) \in Nat
        /\ \A j \in (EndOf(units, n) + 1)..L : bytes[j] = 0
    <3>1. EndOf(units, n) \in Nat
      <4>1. CASE n = 0
        BY <4>1 DEF EndOf
      <4>2. CASE n # 0
        <5>1. n \in 1..n /\ units[n] \in WrittenUnit
          BY <1>3, <4>2
        <5>2. QED
          BY <4>2, <5>1 DEF EndOf, WrittenUnit
      <4>3. QED
        BY <4>1, <4>2
    <3>2. QED
      BY <3>1 DEF Framed
  <2> HIDE DEF n
  <2>2. EndOf(units, n) + 3 <= m
    BY <1>3, <1>4, <2>1
  <2>3. ASSUME NEW j \in (EndOf(units, n) + 1)..(m - 1) PROVE longer[j] = 0
    <3>1. CASE j <= L
      <4>1. j \in 1..L /\ j \in (EndOf(units, n) + 1)..L
        BY <1>3, <2>1, <3>1
      <4>2. QED
        BY <1>9, <2>1, <4>1
    <3>2. CASE j > L
      <4>1. j - L \in 1..before /\ L + (j - L) = j
        BY <1>3, <1>4, <2>1, <3>2
      <4>2. longer[L + (j - L)] = 0
        BY <1>9, <4>1
      <4>3. QED
        BY <4>1, <4>2
    <3>3. QED
      BY <1>3, <2>1, <3>1, <3>2
  <2>4. QED
    BY <1>9, <2>2, <2>3 DEF IsGap
<1>15. /\ \A i \in 0..n : EndOf(more, i) = EndOf(units, i)
       /\ EndOf(more, n + 1) = m + (1 + Len(ebsp))
       /\ \A i \in 1..n : more[i] = units[i]
       /\ more[n + 1] = unit
  <2>1. /\ \A i \in 1..n : more[i] = units[i]
        /\ more[n + 1] = unit
    BY <1>11
  <2>2. ASSUME NEW i \in 0..n PROVE EndOf(more, i) = EndOf(units, i)
    <3>1. i = 0 \/ i \in 1..n
      BY <1>3
    <3>2. QED
      BY <2>1, <3>1 DEF EndOf
  <2>3. n + 1 # 0
    BY <1>3
  <2>4. QED
    BY <1>10, <2>1, <2>2, <2>3 DEF EndOf
<1>16. ASSUME NEW i \in 1..n PROVE IsGap(longer, EndOf(units, i - 1), units[i].payload_offset)
  <2> DEFINE o == units[i].payload_offset
             e == EndOf(units, i - 1)
  <2>1. IsGap(bytes, e, o) /\ o \in Nat /\ o <= L
    <3>1. units[i] \in WrittenUnit /\ IsNal(bytes, units[i]) /\ IsGap(bytes, e, o)
      BY <1>3 DEF Framed
    <3>2. o \in Nat /\ units[i].payload_size \in Nat /\ o + units[i].payload_size <= L
      BY <3>1 DEF WrittenUnit, IsNal
    <3>3. QED
      BY <1>3, <3>1, <3>2
  <2>2. e \in Nat
    <3>1. CASE i = 1
      BY <3>1 DEF EndOf
    <3>2. CASE i # 1
      <4>1. i - 1 \in 1..n /\ i - 1 # 0
        BY <1>3, <3>2
      <4>2. units[i - 1] \in WrittenUnit
        BY <1>3, <4>1
      <4>3. QED
        BY <4>1, <4>2 DEF EndOf, WrittenUnit
    <3>3. QED
      BY <3>1, <3>2
  <2> HIDE DEF o, e
  <2>3. e + 3 <= o /\ bytes[o] = 1 /\ \A j \in (e + 1)..(o - 1) : bytes[j] = 0
    BY <2>1 DEF IsGap
  <2>4. o \in 1..L /\ \A j \in (e + 1)..(o - 1) : j \in 1..L
    BY <1>3, <2>1, <2>2, <2>3
  <2>5. longer[o] = 1 /\ \A j \in (e + 1)..(o - 1) : longer[j] = 0
    BY <1>9, <2>3, <2>4
  <2>6. IsGap(longer, e, o)
    BY <2>3, <2>5 DEF IsGap
  <2>7. QED
    BY <2>6 DEF o, e
<1>17. ASSUME NEW j, j \in (m + (1 + Len(ebsp)) + 1)..Len(longer) PROVE longer[j] = 0
  <2> DEFINE l == m + 1 + Len(ebsp)
  <2>1. j - l \in 1..after /\ l + (j - l) = j
    BY <1>2, <1>3, <1>4, <1>9, <1>17
  <2>2. \A k \in 1..after : longer[l + k] = 0
    BY <1>9
  <2> HIDE DEF l
  <2>3. QED
    BY <2>1, <2>2
<1>18. m + (1 + Len(ebsp)) <= Len(longer)
  BY <1>2, <1>3, <1>4, <1>9
<1>19. \A i \in 1..(n + 1) : i \in 1..n \/ i = n + 1
  BY <1>3
<1>20. n \in 0..n /\ (\A i \in 1..n : i - 1 \in 0..n) /\ (n + 1) - 1 = n
  BY <1>3
<1> HIDE DEF m, n
<1>21. \A i \in 1..(n + 1) : IsNal(longer, more[i])
  BY <1>12, <1>13, <1>15, <1>19
<1>22. \A i \in 1..(n + 1) : IsGap(longer, EndOf(more, i - 1), more[i].payload_offset)
  <2>1. ASSUME NEW i \in 1..n PROVE IsGap(longer, EndOf(more, i - 1), more[i].payload_offset)
    BY <1>15, <1>16, <1>20
  <2>2. IsGap(longer, EndOf(more, (n + 1) - 1), more[n + 1].payload_offset)
    <3>1. EndOf(more, n) = EndOf(units, n) /\ more[n + 1].payload_offset = m
      BY <1>10, <1>15, <1>20
    <3>2. QED
      BY <1>14, <1>20, <3>1
  <2>3. QED
    BY <1>19, <2>1, <2>2
<1>23. Len(more) = n + 1
  BY <1>11
<1>24. /\ longer \in Seq(Nat)
       /\ more \in Seq(WrittenUnit)
       /\ \A i \in 1..Len(more) : IsNal(longer, more[i])
       /\ \A i \in 1..Len(more) : IsGap(longer, EndOf(more, i - 1), more[i].payload_offset)
  BY <1>9, <1>11, <1>21, <1>22, <1>23
<1>25. /\ EndOf(more, Len(more)) <= Len(longer)
       /\ \A j \in (EndOf(more, Len(more)) + 1)..Len(longer) : longer[j] = 0
  <2>1. EndOf(more, Len(more)) = m + (1 + Len(ebsp))
    BY <1>15, <1>23 DEF EndOf
  <2>2. QED
    BY <1>17, <1>18, <2>1
<1>26. Framed(longer, more)
  BY <1>24, <1>25 DEF Framed, WrittenUnit
<1>27. QED
  BY <1>26 DEF longer, more, unit, nal, start_code, ebsp

-----------------------------------------------------------------------------
(* Every behavior keeps the file a sequence of framed NAL units.           *)
THEOREM FileInvariance == Spec => []FileInv
<1>1. Init => FileInv
  <2>1. SUFFICES ASSUME Init PROVE Framed(file, written)
    BY DEF FileInv
  <2>2. file = <<>> /\ written = <<>>
    BY <2>1 DEF Init, ByteStreamInit
  <2>3. <<>> \in Seq(Nat) /\ <<>> \in Seq(WrittenUnit) /\ Len(<<>>) = 0 /\ 1..0 = {}
    OBVIOUS
  <2>4. EndOf(<<>>, 0) = 0
    BY DEF EndOf
  <2>5. Framed(<<>>, <<>>)
    BY <2>3, <2>4 DEF Framed
  <2>6. QED
    BY <2>2, <2>5
<1>2. FileInv /\ [Next]_<<subject, byteStreamVars, bitReaderVars, rtpHeaderVars,
                           syntaxVars>> => FileInv'
  <2>1. SUFFICES ASSUME FileInv,
                        [Next]_<<subject, byteStreamVars, bitReaderVars, rtpHeaderVars,
                                 syntaxVars>>
                 PROVE  FileInv'
    OBVIOUS
  <2>2. CASE UNCHANGED byteStreamVars
    BY <2>1, <2>2 DEF FileInv, byteStreamVars
  <2>3. CASE WriteFile
    <3>1. PICK header \in Headers, rbsp \in Rbsps, before \in {2, 3}, after \in 0..MaxZeros :
            WriteNal(header, rbsp, before, after)
      BY <2>3 DEF WriteFile, ByteStreamNext
    <3> DEFINE start_code == Zeros(before) \o <<1>>
               nal == <<header>> \o Protect(rbsp)
               unit == [payload_offset |-> Len(file) + Len(start_code),
                        payload_size |-> Len(nal), rbsp |-> rbsp]
    <3>2. /\ file' = file \o start_code \o nal \o Zeros(after)
          /\ written' = Append(written, unit)
      BY <3>1 DEF WriteNal
    <3>3. Framed(file, written)
      BY <2>1 DEF FileInv
    <3>4. Framed(file \o start_code \o nal \o Zeros(after), Append(written, unit))
      BY <3>3, NalIsWritten
    <3> HIDE DEF start_code, nal, unit
    <3>5. QED
      BY <3>2, <3>4 DEF FileInv
  <2>4. QED
    BY <2>1, <2>2, <2>3 DEF Next, ReadBitString, ParseHeader, ParseSyntax
<1>3. QED
  BY <1>1, <1>2, PTL DEF Spec

(* The bytes of the file between the header byte of a unit and the next    *)
(* gap are its protected RBSP.                                             *)
LEMMA EbspIsProtected ==
  ASSUME FileInv, NEW i \in DOMAIN written
  PROVE  Unit(i).rbsp \in Seq(Bytes) /\ Ebsp(i) = Protect(Unit(i).rbsp)
<1>1. i \in 1..Len(written) /\ written \in Seq(WrittenUnit)
  BY DEF FileInv, Framed
<1>2. written[i] \in WrittenUnit /\ IsNal(file, written[i])
  BY <1>1 DEF FileInv, Framed
<1>3. QED
  BY <1>2 DEF IsNal, Ebsp, Slice, Unit, WrittenUnit

(* Whatever is written, dropping the prevention bytes gives back the RBSP  *)
(* (ebsp_to_rbsp, rbsp.cpp).                                               *)
THEOREM RbspsAreRecovered == Spec => []RbspIsRecovered
<1>1. FileInv => RbspIsRecovered
  BY EbspIsProtected, RbspRecovered DEF RbspIsRecovered
<1>2. QED
  BY <1>1, FileInvariance, PTL

(* The position that inspect reports for an RBSP byte is that of the byte  *)
(* it came from, in every file (rbsp_offset_to_ebsp_offset, inspect.cpp).  *)
THEOREM PositionsAreSources == Spec => []ErrorsPointAtSource
<1>1. FileInv => ErrorsPointAtSource
  <2>1. SUFFICES ASSUME FileInv PROVE ErrorsPointAtSource
    OBVIOUS
  <2>2. \A i \in DOMAIN written : SourcesArePlaces(Ebsp(i), Unit(i).rbsp)
    BY <2>1, EbspIsProtected, ErrorsFindSource
  <2>3. QED
    BY <2>2, Zenon DEF ErrorsPointAtSource, SourcesArePlaces
<1>2. QED
  BY <1>1, FileInvariance, PTL

-----------------------------------------------------------------------------
(* What the scanner sees of a file.                                        *)

(* The bytes o to e - 1 begin with a header, do not end with a zero, and   *)
(* have no start code in them.                                             *)
IsClosed(bytes, o, e) ==
  /\ o \in Nat /\ e \in Nat /\ o < e /\ e <= Len(bytes)
  /\ bytes[o + 1] # 0 /\ bytes[e] # 0
  /\ \A k \in (o + 3)..e : bytes[k - 2] = 0 /\ bytes[k - 1] = 0 => bytes[k] > 2

(* A NAL unit is such a sequence of bytes.                                 *)
LEMMA NalIsClosed ==
  ASSUME NEW bytes \in Seq(Nat), NEW unit \in WrittenUnit, IsNal(bytes, unit)
  PROVE  IsClosed(bytes, unit.payload_offset, unit.payload_offset + unit.payload_size)
<1> DEFINE o == unit.payload_offset
           e == unit.payload_offset + unit.payload_size
           rbsp == unit.rbsp
           ebsp == Protect(rbsp)
           N == Len(rbsp)
           M == Len(ebsp)
<1>1. /\ rbsp \in Seq(Bytes) /\ o \in Nat
      /\ rbsp = <<>> \/ rbsp[N] # 0
      /\ e = o + (1 + M) /\ e <= Len(bytes)
      /\ bytes[o + 1] # 0
      /\ SubSeq(bytes, (o + 1) + 1, e) = ebsp
  BY DEF WrittenUnit, IsNal
<1>2. ebsp \in Seq(Nat) /\ rbsp \in Seq(Nat)
  BY <1>1, ProtectedPositions, BytesAreNumbers
<1>3. PICK pos : Positions(pos, rbsp, ebsp)
  BY <1>1, ProtectedPositions
<1>4. M \in Nat /\ N \in Nat /\ Len(bytes) \in Nat
  BY <1>2
<1> HIDE DEF ebsp, M, N, e, o, rbsp
<1>5. e \in Nat /\ o < e /\ o + 1 \in Nat
  BY <1>1, <1>4
<1>6. \A j \in 1..M : bytes[(o + 1) + j] = ebsp[j]
  <2> DEFINE sub == SubSeq(bytes, (o + 1) + 1, e)
  <2>1. \A j \in 1..(e - (o + 1)) : sub[j] = bytes[(o + 1) + j]
    BY <1>1, <1>4, <1>5
  <2>2. e - (o + 1) = M
    BY <1>1, <1>4
  <2>3. sub = ebsp
    BY <1>1
  <2> HIDE DEF sub
  <2>4. QED
    BY <2>1, <2>2, <2>3
<1>7. bytes[e] # 0
  <2>1. CASE N = 0
    <3>1. M = 0
      BY <1>3, <2>1 DEF Positions, M, N
    <3>2. e = o + 1
      BY <1>1, <3>1
    <3>3. QED
      BY <1>1, <3>2
  <2>2. CASE N # 0
    <3>1. /\ N \in 1..N /\ rbsp # <<>> /\ N - 1 \in 0..N
          /\ \A k \in 0..N : pos[k] \in 0..M
          /\ pos[N - 1] < pos[N]
      BY <1>2, <1>3, <1>4, <2>2, PositionsIncrease DEF N, M
    <3>2. ebsp[M] = rbsp[N] /\ pos[N] = M
      BY <1>3, <3>1 DEF Positions, IsWritten, M, N
    <3>3. M >= 1
      BY <1>4, <3>1, <3>2
    <3>4. (o + 1) + M = e /\ M \in 1..M
      BY <1>1, <1>4, <3>3
    <3>5. bytes[e] = ebsp[M]
      BY <1>6, <3>4
    <3>6. QED
      BY <1>1, <3>1, <3>2, <3>5
  <2>3. QED
    BY <2>1, <2>2
<1>8. ASSUME NEW k \in (o + 3)..e, bytes[k - 2] = 0, bytes[k - 1] = 0 PROVE bytes[k] > 2
  <2>1. k - 2 # o + 1
    BY <1>1, <1>8
  <2> DEFINE j == k - (o + 1)
  <2>2. /\ j \in 3..M /\ j - 2 \in 1..M /\ j - 1 \in 1..M /\ j \in 1..M
        /\ (o + 1) + j = k /\ (o + 1) + (j - 1) = k - 1 /\ (o + 1) + (j - 2) = k - 2
    BY <1>1, <1>4, <2>1
  <2> HIDE DEF j
  <2>3. ebsp[j] = bytes[k] /\ ebsp[j - 1] = 0 /\ ebsp[j - 2] = 0
    <3>1. /\ bytes[(o + 1) + j] = ebsp[j]
          /\ bytes[(o + 1) + (j - 1)] = ebsp[j - 1]
          /\ bytes[(o + 1) + (j - 2)] = ebsp[j - 2]
      BY <1>6, <2>2
    <3>2. QED
      BY <1>8, <2>2, <3>1
  <2>4. ebsp[j] > 2
    BY <1>2, <1>3, <2>2, <2>3, NoStartCodeInside DEF M
  <2>5. QED
    BY <2>3, <2>4
<1>9. IsClosed(bytes, o, e)
  BY <1>1, <1>5, <1>7, <1>8 DEF IsClosed
<1>10. QED
  BY <1>9 DEF o, e

-----------------------------------------------------------------------------
(* Where a search may begin: with the file, or with a NAL unit.            *)
IsBefore(bytes, begin, end) ==
  \/ begin = 0 /\ end = 0
  \/ IsClosed(bytes, begin, end)

(* The offset of the start code before payload offset o, after the bytes   *)
(* that end at e: it takes a third zero if there is one.                   *)
CodeStart(e, o) == IF e + 4 <= o THEN o - 4 ELSE o - 3

(* The zeros and the one of a start code, counted from 1.                  *)
LEMMA CodeBytes ==
  ASSUME NEW bytes \in Seq(Nat), NEW x \in Nat, NEW z \in {2, 3}
  PROVE  ZerosThenOne(bytes, x, z) <=>
           /\ x + z + 1 <= Len(bytes) /\ bytes[x + z + 1] = 1
           /\ bytes[x + 1] = 0 /\ bytes[x + 2] = 0 /\ (z = 3 => bytes[x + 3] = 0)
<1>1. Len(bytes) \in Nat
  OBVIOUS
<1>2. x + z < Len(bytes) <=> x + z + 1 <= Len(bytes)
  BY <1>1
<1>3. CASE z = 2
  <2>1. x..(x + z - 1) = {x, x + 1}
    BY <1>3
  <2>2. QED
    BY <1>2, <1>3, <2>1 DEF ZerosThenOne, At
<1>4. CASE z = 3
  <2>1. x..(x + z - 1) = {x, x + 1, x + 2}
    BY <1>4
  <2>2. (\A j \in x..(x + z - 1) : bytes[j + 1] = 0)
          <=> bytes[x + 1] = 0 /\ bytes[x + 1 + 1] = 0 /\ bytes[x + 2 + 1] = 0
    BY <2>1
  <2>3. x + 1 + 1 = x + 2 /\ x + 2 + 1 = x + 3
    OBVIOUS
  <2>4. QED
    BY <1>2, <1>4, <2>2, <2>3 DEF ZerosThenOne, At
<1>5. QED
  BY <1>3, <1>4

(* A start code found from there on does not begin before the end of the   *)
(* unit.                                                                   *)
LEMMA CodeIsAfter ==
  ASSUME NEW bytes \in Seq(Nat), NEW begin \in Nat, NEW e \in Nat, IsBefore(bytes, begin, e),
         NEW x \in Nat, begin <= x, NEW z \in {2, 3}, ZerosThenOne(bytes, x, z)
  PROVE  e <= x
<1>1. SUFFICES ASSUME IsClosed(bytes, begin, e), x < e PROVE FALSE
  BY DEF IsBefore
<1>2. /\ x + z + 1 <= Len(bytes) /\ bytes[x + z + 1] = 1
      /\ bytes[x + 1] = 0 /\ bytes[x + 2] = 0 /\ (z = 3 => bytes[x + 3] = 0)
  BY CodeBytes
<1>3. /\ bytes[e] # 0
      /\ \A k \in (begin + 3)..e : bytes[k - 2] = 0 /\ bytes[k - 1] = 0 => bytes[k] > 2
  BY <1>1 DEF IsClosed
<1>4. CASE e <= x + z
  <2>1. e \in {x + 1, x + 2} \/ (z = 3 /\ e = x + 3)
    BY <1>1, <1>4
  <2>2. QED
    BY <1>2, <1>3, <2>1
<1>5. CASE e > x + z
  <2> DEFINE k == x + z + 1
  <2>1. k \in (begin + 3)..e
    BY <1>5
  <2>2. bytes[k - 2] = 0 /\ bytes[k - 1] = 0
    <3>1. CASE z = 2
      <4>1. k - 2 = x + 1 /\ k - 1 = x + 2
        BY <3>1
      <4>2. QED
        BY <1>2, <4>1
    <3>2. CASE z = 3
      <4>1. k - 2 = x + 2 /\ k - 1 = x + 3
        BY <3>2
      <4>2. QED
        BY <1>2, <3>2, <4>1
    <3>3. QED
      BY <3>1, <3>2
  <2>3. bytes[k] > 2 /\ bytes[k] = 1
    BY <1>2, <1>3, <2>1, <2>2
  <2>4. QED
    BY <2>3
<1>6. QED
  BY <1>4, <1>5

(* The next start code is the one of the next unit.                        *)
LEMMA NextStartCode ==
  ASSUME NEW bytes \in Seq(Nat), NEW begin \in Nat, NEW e \in Nat, IsBefore(bytes, begin, e),
         NEW o \in Nat, o < Len(bytes), IsGap(bytes, e, o)
  PROVE  /\ CodeStart(e, o) \in Nat
         /\ FindStartCode(bytes, begin) = CodeStart(e, o)
<1> DEFINE x == CodeStart(e, o)
           found == {i \in begin..(Len(bytes) - 3) :
                       ZerosThenOne(bytes, i, 2) \/ ZerosThenOne(bytes, i, 3)}
<1>1. /\ e + 3 <= o /\ bytes[o] = 1 /\ Len(bytes) \in Nat
      /\ \A j \in (e + 1)..(o - 1) : bytes[j] = 0
      /\ begin <= e
  BY DEF IsGap, IsBefore, IsClosed
<1>2. x \in Nat /\ begin <= x /\ x <= Len(bytes) - 3
  BY <1>1 DEF CodeStart
<1>3. x \in found
  <2>1. CASE e + 4 <= o
    <3>1. /\ x + 3 + 1 = o /\ x + 3 + 1 <= Len(bytes)
          /\ x + 1 \in (e + 1)..(o - 1) /\ x + 2 \in (e + 1)..(o - 1) /\ x + 3 \in (e + 1)..(o - 1)
      BY <1>1, <2>1 DEF CodeStart
    <3>2. ZerosThenOne(bytes, x, 3)
      BY <1>1, <1>2, <3>1, CodeBytes
    <3>3. QED
      BY <1>2, <3>2
  <2>2. CASE ~ e + 4 <= o
    <3>1. /\ x + 2 + 1 = o /\ x + 2 + 1 <= Len(bytes)
          /\ x + 1 \in (e + 1)..(o - 1) /\ x + 2 \in (e + 1)..(o - 1)
      BY <1>1, <2>2 DEF CodeStart
    <3>2. ZerosThenOne(bytes, x, 2)
      BY <1>1, <1>2, <3>1, CodeBytes
    <3>3. QED
      BY <1>2, <3>2
  <2>3. QED
    BY <2>1, <2>2
<1>4. ASSUME NEW i \in found PROVE x <= i
  <2>1. i \in Nat /\ begin <= i
    OBVIOUS
  <2>2. PICK z \in {2, 3} : ZerosThenOne(bytes, i, z)
    OBVIOUS
  <2>3. e <= i /\ bytes[i + z + 1] = 1
    BY <2>1, <2>2, CodeIsAfter, CodeBytes
  <2>4. ~ (i + z + 1 \in (e + 1)..(o - 1))
    BY <1>1, <2>3
  <2>5. i + z + 1 >= o
    BY <2>1, <2>3, <2>4
  <2>6. QED
    BY <1>1, <2>1, <2>3, <2>5 DEF CodeStart
<1>5. found \subseteq Nat /\ found # {}
  BY <1>3
<1>6. Min(found) = x
  <2> HIDE DEF found, x
  <2>1. Min(found) \in found /\ Min(found) <= x
    BY <1>3, <1>5, MinIsLeast
  <2>2. x <= Min(found) /\ Min(found) \in Nat
    BY <1>4, <1>5, <2>1
  <2>3. QED
    BY <1>2, <2>1, <2>2
<1>7. FindStartCode(bytes, begin) = IF found = {} THEN None ELSE Min(found)
  BY DEF FindStartCode
<1> HIDE DEF found
<1>8. QED
  BY <1>2, <1>5, <1>6, <1>7

(* After the last unit there is none.                                      *)
LEMMA NoNextStartCode ==
  ASSUME NEW bytes \in Seq(Nat), NEW begin \in Nat, NEW e \in Nat, IsBefore(bytes, begin, e),
         \A j \in (e + 1)..Len(bytes) : bytes[j] = 0
  PROVE  FindStartCode(bytes, begin) = None
<1>1. SUFFICES ASSUME NEW i \in begin..(Len(bytes) - 3), NEW z \in {2, 3}, ZerosThenOne(bytes, i, z)
               PROVE  FALSE
  BY DEF FindStartCode
<1>2. i \in Nat /\ begin <= i /\ Len(bytes) \in Nat
  OBVIOUS
<1>3. e <= i /\ bytes[i + z + 1] = 1 /\ i + z + 1 <= Len(bytes)
  <2>1. e <= i
    BY <1>1, <1>2, CodeIsAfter
  <2>2. bytes[i + z + 1] = 1 /\ i + z + 1 <= Len(bytes)
    BY <1>1, <1>2, CodeBytes
  <2>3. QED
    BY <2>1, <2>2
<1>4. i + z + 1 \in (e + 1)..Len(bytes)
  BY <1>2, <1>3
<1>5. QED
  BY <1>3, <1>4

(* The start code has as many bytes as there are before the payload.       *)
LEMMA CodeSize ==
  ASSUME NEW bytes \in Seq(Nat), NEW e \in Nat, NEW o \in Nat, IsGap(bytes, e, o)
  PROVE  CodeStart(e, o) + StartCodeSize(bytes, CodeStart(e, o)) = o
<1>1. /\ e + 3 <= o /\ bytes[o] = 1
      /\ \A j \in (e + 1)..(o - 1) : bytes[j] = 0
  BY DEF IsGap
<1>2. CASE e + 4 <= o
  <2>1. CodeStart(e, o) = o - 4 /\ (o - 4) + 2 + 1 = o - 1 /\ o - 1 \in (e + 1)..(o - 1)
    BY <1>1, <1>2 DEF CodeStart
  <2>2. At(bytes, (o - 4) + 2) = 0
    BY <1>1, <2>1 DEF At
  <2>3. QED
    BY <2>1, <2>2 DEF StartCodeSize
<1>3. CASE ~ e + 4 <= o
  <2>1. CodeStart(e, o) = o - 3 /\ (o - 3) + 2 + 1 = o
    BY <1>1, <1>3 DEF CodeStart
  <2>2. At(bytes, (o - 3) + 2) = 1
    BY <1>1, <2>1 DEF At
  <2>3. QED
    BY <2>1, <2>2 DEF StartCodeSize
<1>4. QED
  BY <1>2, <1>3

(* Cutting the zeros before the limit leaves the unit.                     *)
LEMMA UnitEnds ==
  ASSUME NEW bytes \in Seq(Nat), NEW o, NEW e, IsClosed(bytes, o, e),
         NEW limit \in Nat, e <= limit, \A j \in (e + 1)..limit : bytes[j] = 0
  PROVE  PayloadEnd(bytes, o, limit) = e
<1> DEFINE ends == {o} \cup {end \in (o + 1)..limit : At(bytes, end - 1) # 0}
<1>1. o \in Nat /\ e \in Nat /\ o < e /\ bytes[e] # 0
  BY DEF IsClosed
<1>2. \A end \in (o + 1)..limit : At(bytes, end - 1) = bytes[end]
  BY <1>1 DEF At
<1>3. e \in ends
  BY <1>1, <1>2
<1>4. ASSUME NEW end \in ends PROVE end \in Nat /\ end <= e
  <2>1. CASE end = o
    BY <1>1, <2>1
  <2>2. CASE end # o
    <3>1. end \in (o + 1)..limit /\ bytes[end] # 0
      BY <1>2, <2>2
    <3>2. end \notin (e + 1)..limit
      BY <3>1
    <3>3. QED
      BY <1>1, <3>1, <3>2
  <2>3. QED
    BY <2>1, <2>2
<1>5. Max(ends) = e
  <2> HIDE DEF ends
  <2>1. \E m \in ends : \A n \in ends : m >= n
    BY <1>1, <1>3, <1>4
  <2>2. Max(ends) \in ends /\ \A n \in ends : Max(ends) >= n
    BY <2>1 DEF Max
  <2> DEFINE m == Max(ends)
  <2>3. m \in ends /\ m >= e
    BY <1>3, <2>2
  <2>4. m \in Nat /\ m <= e
    BY <1>4, <2>3
  <2> HIDE DEF m
  <2>5. m = e
    BY <1>1, <2>3, <2>4
  <2>6. QED
    BY <2>5 DEF m
<1>6. QED
  BY <1>5 DEF PayloadEnd

-----------------------------------------------------------------------------
(* scan_annex_b on a file of NAL units.                                    *)

(* What the frame of a file says of its units, unit by unit: bytes, ends,  *)
(* gaps before them, and zeros behind the last one.                        *)
LEMMA Layout ==
  ASSUME NEW bytes, NEW units, Framed(bytes, units)
  PROVE  /\ bytes \in Seq(Nat) /\ Len(bytes) \in Nat /\ Len(units) \in Nat
         /\ \A i \in 0..Len(units) : EndOf(units, i) \in Nat /\ EndOf(units, i) <= Len(bytes)
         /\ \A i \in 1..Len(units) :
              /\ IsClosed(bytes, units[i].payload_offset, EndOf(units, i))
              /\ IsGap(bytes, EndOf(units, i - 1), units[i].payload_offset)
              /\ units[i].payload_offset \in Nat
              /\ units[i].payload_size = EndOf(units, i) - units[i].payload_offset
         /\ \A j \in (EndOf(units, Len(units)) + 1)..Len(bytes) : bytes[j] = 0
<1>1. bytes \in Seq(Nat) /\ Len(bytes) \in Nat /\ Len(units) \in Nat /\ units \in Seq(WrittenUnit)
  BY DEF Framed
<1>2. ASSUME NEW i \in 1..Len(units)
      PROVE  /\ IsClosed(bytes, units[i].payload_offset, EndOf(units, i))
             /\ units[i].payload_offset \in Nat
             /\ units[i].payload_size = EndOf(units, i) - units[i].payload_offset
             /\ EndOf(units, i) \in Nat /\ EndOf(units, i) <= Len(bytes)
  <2> DEFINE unit == units[i]
  <2>1. unit \in WrittenUnit /\ IsNal(bytes, unit)
    BY <1>1 DEF Framed
  <2>2. EndOf(units, i) = unit.payload_offset + unit.payload_size
    BY <1>1 DEF EndOf
  <2>3. IsClosed(bytes, unit.payload_offset, EndOf(units, i))
    BY <1>1, <2>1, <2>2, NalIsClosed
  <2>4. unit.payload_offset \in Nat /\ unit.payload_size \in Nat
    BY <2>1 DEF WrittenUnit
  <2> DEFINE o == unit.payload_offset
             size == unit.payload_size
  <2>5. size = (o + size) - o
    <3> HIDE DEF o, size
    <3>1. o \in Nat /\ size \in Nat
      BY <2>4 DEF o, size
    <3>2. QED
      BY <3>1
  <2>6. EndOf(units, i) \in Nat /\ EndOf(units, i) <= Len(bytes)
    BY <2>3 DEF IsClosed
  <2>7. QED
    BY <2>2, <2>3, <2>4, <2>5, <2>6
<1>3. ASSUME NEW i \in 0..Len(units)
      PROVE  EndOf(units, i) \in Nat /\ EndOf(units, i) <= Len(bytes)
  <2>1. CASE i = 0
    BY <1>1, <2>1 DEF EndOf
  <2>2. CASE i # 0
    <3>1. i \in 1..Len(units)
      BY <1>1, <2>2
    <3>2. QED
      BY <1>2, <3>1
  <2>3. QED
    BY <2>1, <2>2
<1>4. \A i \in 1..Len(units) : IsGap(bytes, EndOf(units, i - 1), units[i].payload_offset)
  BY DEF Framed
<1>5. \A j \in (EndOf(units, Len(units)) + 1)..Len(bytes) : bytes[j] = 0
  BY DEF Framed
<1>6. QED
  BY <1>1, <1>2, <1>3, <1>4, <1>5

(* A file has at least a byte for each of its units.                       *)
LEMMA UnitsFit ==
  ASSUME NEW bytes, NEW units, Framed(bytes, units)
  PROVE  Len(units) <= Len(bytes)
<1> DEFINE n == Len(units)
           Fits == {i \in Nat : i <= n => i <= EndOf(units, i)}
<1>1. /\ n \in Nat /\ Len(bytes) \in Nat
      /\ \A i \in 0..n : EndOf(units, i) \in Nat /\ EndOf(units, i) <= Len(bytes)
  BY Layout
<1>2. \A i \in 1..n : EndOf(units, i - 1) < EndOf(units, i)
  <2>1. SUFFICES ASSUME NEW i \in 1..n PROVE EndOf(units, i - 1) < EndOf(units, i)
    OBVIOUS
  <2> DEFINE o == units[i].payload_offset
             d == EndOf(units, i - 1)
             e == EndOf(units, i)
  <2>2. o \in Nat /\ IsClosed(bytes, o, e) /\ IsGap(bytes, d, o)
    BY Layout
  <2>3. i - 1 \in 0..n /\ i \in 0..n
    BY <1>1
  <2>4. d \in Nat /\ e \in Nat
    BY <1>1, <2>3
  <2>5. d + 3 <= o /\ o < e
    BY <2>2 DEF IsClosed, IsGap
  <2> HIDE DEF d, o, e
  <2>6. d < e
    BY <2>2, <2>4, <2>5
  <2>7. QED
    BY <2>6 DEF d, e
<1>3. 0 \in Fits
  BY <1>1
<1>4. ASSUME NEW i \in Nat, i \in Fits PROVE i + 1 \in Fits
  <2>1. SUFFICES ASSUME i + 1 <= n PROVE i + 1 <= EndOf(units, i + 1)
    OBVIOUS
  <2>2. i + 1 \in 1..n /\ i + 1 \in 0..n /\ i \in 0..n /\ (i + 1) - 1 = i /\ i <= EndOf(units, i)
    BY <1>1, <1>4, <2>1
  <2>3. EndOf(units, i) < EndOf(units, i + 1)
    BY <1>2, <2>2
  <2>4. QED
    BY <1>1, <2>2, <2>3
<1>5. Nat \subseteq Fits
  <2> HIDE DEF Fits
  <2>1. QED
    BY <1>3, <1>4, InductionOnSet
<1>6. n <= EndOf(units, n) /\ n \in 0..n
  BY <1>1, <1>5
<1>7. QED
  BY <1>1, <1>6

(* Where the search for the next start code begins, and where it ends.     *)
Begin(units, i) == IF i = 0 THEN 0 ELSE units[i].payload_offset

Code(units, i) ==
  IF i < Len(units) THEN CodeStart(EndOf(units, i), units[i + 1].payload_offset) ELSE None

(* From the start of a unit's payload, or of the file, the search finds    *)
(* the start code of the next unit, or none behind the last one.           *)
LEMMA SearchFinds ==
  ASSUME NEW bytes, NEW units, Framed(bytes, units), NEW i \in 0..Len(units)
  PROVE  /\ FindStartCode(bytes, Begin(units, i)) = Code(units, i)
         /\ i < Len(units) => Code(units, i) \in Nat
<1> DEFINE n == Len(units)
           begin == Begin(units, i)
           e == EndOf(units, i)
<1>1. /\ bytes \in Seq(Nat) /\ Len(bytes) \in Nat /\ n \in Nat /\ e \in Nat
  BY Layout
<1>2. begin \in Nat /\ IsBefore(bytes, begin, e)
  <2>1. CASE i = 0
    BY <2>1 DEF Begin, EndOf, IsBefore
  <2>2. CASE i # 0
    <3>1. i \in 1..n
      BY <1>1, <2>2
    <3>2. begin = units[i].payload_offset
      BY <2>2 DEF Begin
    <3>3. QED
      BY <3>1, <3>2, Layout DEF IsBefore
  <2>3. QED
    BY <2>1, <2>2
<1> HIDE DEF begin, e
<1>3. CASE i < n
  <2> DEFINE o == units[i + 1].payload_offset
  <2>1. i + 1 \in 1..n /\ (i + 1) - 1 = i
    BY <1>1, <1>3
  <2>2. o \in Nat /\ IsGap(bytes, e, o) /\ IsClosed(bytes, o, EndOf(units, i + 1))
    BY <2>1, Layout DEF e
  <2>3. o < Len(bytes)
    BY <1>1, <2>2 DEF IsClosed
  <2>4. Code(units, i) = CodeStart(e, o)
    BY <1>3 DEF Code, e
  <2> HIDE DEF o
  <2>5. CodeStart(e, o) \in Nat /\ FindStartCode(bytes, begin) = CodeStart(e, o)
    BY <1>1, <1>2, <2>2, <2>3, NextStartCode
  <2>6. QED
    BY <2>4, <2>5 DEF begin
<1>4. CASE ~ i < n
  <2>1. i = n
    BY <1>1, <1>4
  <2>2. \A j \in (e + 1)..Len(bytes) : bytes[j] = 0
    BY <2>1, Layout DEF e
  <2>3. FindStartCode(bytes, begin) = None
    BY <1>1, <1>2, <2>2, NoNextStartCode
  <2>4. QED
    BY <1>4, <2>3 DEF Code, begin
<1>5. QED
  BY <1>3, <1>4

(* What the loop knows after k turns.                                      *)
Found(units, k) ==
  [i \in 1..k |-> [payload_offset |-> units[i].payload_offset,
                   payload_size |-> units[i].payload_size]]

State(units, k) ==
  [error |-> "none",
   units |-> Found(units, IF k < Len(units) THEN k ELSE Len(units)),
   current |-> Code(units, k)]

(* One unit more is one element more.                                      *)
LEMMA OneFound ==
  ASSUME NEW units, NEW k \in Nat, NEW unit,
         unit = [payload_offset |-> units[k + 1].payload_offset,
                 payload_size |-> units[k + 1].payload_size]
  PROVE  Append(Found(units, k), unit) = Found(units, k + 1)
<1> DEFINE s == Found(units, k)
           S == {s[i] : i \in 1..k} \cup {unit}
           t == Append(s, unit)
<1>1. s \in Seq(S) /\ Len(s) = k /\ unit \in S
  <2>1. s \in [1..k -> S]
    BY DEF Found
  <2>2. QED
    BY <2>1
<1> HIDE DEF S
<1>2. /\ t \in Seq(S) /\ Len(t) = k + 1
      /\ \A i \in 1..k : t[i] = s[i]
      /\ t[k + 1] = unit
  <2> HIDE DEF s
  <2>1. QED
    BY <1>1
<1> HIDE DEF t
<1>3. t = [i \in 1..(k + 1) |-> t[i]]
  BY <1>2
<1>4. ASSUME NEW i \in 1..(k + 1) PROVE t[i] = Found(units, k + 1)[i]
  <2>1. CASE i = k + 1
    BY <1>2, <2>1 DEF Found
  <2>2. CASE i # k + 1
    <3>1. i \in 1..k
      BY <2>2
    <3>2. t[i] = s[i]
      BY <1>2, <3>1
    <3>3. QED
      BY <3>1, <3>2 DEF Found
  <2>3. QED
    BY <2>1, <2>2
<1>5. Found(units, k + 1) = [i \in 1..(k + 1) |-> Found(units, k + 1)[i]]
  BY DEF Found
<1>6. QED
  BY <1>3, <1>4, <1>5 DEF t

-----------------------------------------------------------------------------
(* One turn of the loop finds the next unit, whole.                        *)
LEMMA TurnFinds ==
  ASSUME NEW bytes, NEW units, Framed(bytes, units), NEW k \in 0..(Len(units) - 1)
  PROVE  /\ Code(units, k) # None
         /\ ScanUnit(bytes, State(units, k)) = State(units, k + 1)
<1> DEFINE n == Len(units)
           scan == State(units, k)
           d == EndOf(units, k)
           o == units[k + 1].payload_offset
           e == EndOf(units, k + 1)
           next == Code(units, k + 1)
           limit == IF next = None THEN Len(bytes) ELSE next
           unit == [payload_offset |-> o, payload_size |-> e - o]
<1>1. /\ bytes \in Seq(Nat) /\ Len(bytes) \in Nat /\ n \in Nat
  BY Layout
<1>2. /\ k \in 0..n /\ k + 1 \in 1..n /\ k + 1 \in 0..n /\ (k + 1) - 1 = k /\ k < n
      /\ k \in Nat /\ k + 1 # 0
  BY <1>1
<1>3. /\ d \in Nat /\ e \in Nat /\ e <= Len(bytes) /\ o \in Nat
      /\ IsGap(bytes, d, o) /\ IsClosed(bytes, o, e)
      /\ units[k + 1].payload_size = e - o
  BY <1>2, Layout
<1>4. Code(units, k) = CodeStart(d, o) /\ CodeStart(d, o) \in Nat
  BY <1>2, SearchFinds DEF Code
<1>5. FindStartCode(bytes, o) = next
  BY <1>2, SearchFinds DEF Begin
<1>6. limit \in Nat /\ e <= limit /\ \A j \in (e + 1)..limit : bytes[j] = 0
  <2>1. CASE k + 1 < n
    <3> DEFINE p == units[k + 2].payload_offset
    <3>1. k + 2 \in 1..n /\ (k + 2) - 1 = k + 1 /\ (k + 1) + 1 = k + 2
      BY <1>1, <1>2, <2>1
    <3>2. IsGap(bytes, e, p) /\ p \in Nat
      BY <3>1, Layout
    <3>3. next = CodeStart(e, p) /\ next \in Nat
      BY <1>2, <2>1, <3>1, SearchFinds DEF Code
    <3>4. limit = CodeStart(e, p)
      BY <3>3 DEF None
    <3> HIDE DEF d, o, e, next, limit, p
    <3>5. e <= limit /\ limit <= p - 3 /\ limit \in Nat
      BY <1>3, <3>2, <3>3, <3>4 DEF CodeStart, IsGap
    <3>6. \A j \in (e + 1)..limit : j \in (e + 1)..(p - 1)
      BY <1>3, <3>2, <3>5
    <3>7. QED
      BY <3>2, <3>5, <3>6 DEF IsGap
  <2>2. CASE ~ k + 1 < n
    <3>1. k + 1 = n
      BY <1>1, <1>2, <2>2
    <3>2. limit = Len(bytes)
      BY <2>2 DEF Code
    <3>3. \A j \in (e + 1)..Len(bytes) : bytes[j] = 0
      BY <3>1, Layout
    <3> HIDE DEF limit, e
    <3>4. QED
      BY <1>1, <1>3, <3>2, <3>3
  <2>3. QED
    BY <2>1, <2>2
<1> HIDE DEF d, o, e, next, limit
<1>7. PayloadEnd(bytes, o, limit) = e
  BY <1>1, <1>3, <1>6, UnitEnds
<1>8. CodeStart(d, o) + StartCodeSize(bytes, CodeStart(d, o)) = o
  BY <1>1, <1>3, CodeSize
<1>9. e # o
  BY <1>3 DEF IsClosed
<1>10. scan.current = CodeStart(d, o) /\ scan.units = Found(units, k)
  BY <1>2, <1>4 DEF State
<1>11. ScanUnit(bytes, scan) = [error |-> "none", units |-> Append(scan.units, unit),
                                current |-> next]
  <2>1. scan.current + StartCodeSize(bytes, scan.current) = o
    BY <1>8, <1>10
  <2> HIDE DEF scan
  <2>2. QED
    BY <1>5, <1>7, <1>9, <2>1 DEF ScanUnit, limit
<1>12. Append(Found(units, k), unit) = Found(units, k + 1)
  BY <1>2, <1>3, OneFound DEF o
<1>13. State(units, k + 1) = [error |-> "none", units |-> Found(units, k + 1), current |-> next]
  <2>1. (IF k + 1 < n THEN k + 1 ELSE n) = k + 1
    BY <1>1, <1>2
  <2>2. QED
    BY <2>1 DEF State, next
<1>14. Code(units, k) # None
  BY <1>4 DEF None
<1>15. QED
  BY <1>10, <1>11, <1>12, <1>13, <1>14

(* The loop of scan_annex_b as a function of the turns it has made.        *)
Turn(bytes, before) == IF before.current = None THEN before ELSE ScanUnit(bytes, before)

Scanned(bytes, first) ==
  CHOOSE scan : scan = [n \in 0..Len(bytes) |->
                          IF n = 0 THEN [error |-> "none", units |-> <<>>, current |-> first]
                          ELSE LET before == scan[n - 1]
                               IN  IF before.current = None THEN before
                                   ELSE ScanUnit(bytes, before)]

(* It is the function that TurnFinds describes: there is no other.         *)
LEMMA ScanIsState ==
  ASSUME NEW bytes, NEW units, Framed(bytes, units), units # <<>>, NEW k \in 0..Len(bytes)
  PROVE  Scanned(bytes, Code(units, 0))[k] = State(units, k)
<1> DEFINE n == Len(units)
           N == Len(bytes)
           first == [error |-> "none", units |-> <<>>, current |-> Code(units, 0)]
           state == [m \in 0..N |-> State(units, m)]
           scan == Scanned(bytes, Code(units, 0))
<1>1. N \in Nat /\ n \in Nat /\ n # 0
  <2>1. units \in Seq(WrittenUnit)
    BY DEF Framed
  <2>2. QED
    BY <2>1, Layout
<1>2. State(units, 0) = first
  <2>1. Found(units, 0) = <<>>
    BY DEF Found
  <2>2. (IF 0 < n THEN 0 ELSE n) = 0
    BY <1>1
  <2>3. QED
    BY <2>1, <2>2 DEF State
<1>3. ASSUME NEW m \in 1..N PROVE State(units, m) = Turn(bytes, State(units, m - 1))
  <2>1. m - 1 \in Nat /\ (m - 1) + 1 = m
    BY <1>1
  <2>2. State(units, m - 1).current = Code(units, m - 1)
    BY DEF State
  <2>3. CASE m <= n
    <3>1. m - 1 \in 0..(n - 1)
      BY <1>1, <2>1, <2>3
    <3>2. /\ Code(units, m - 1) # None
          /\ ScanUnit(bytes, State(units, m - 1)) = State(units, (m - 1) + 1)
      BY <3>1, TurnFinds
    <3>3. QED
      BY <2>1, <2>2, <3>2 DEF Turn
  <2>4. CASE ~ m <= n
    <3>1. ~ m - 1 < n /\ ~ m < n
      BY <1>1, <2>4
    <3>2. Code(units, m - 1) = None /\ Code(units, m) = None
      BY <3>1 DEF Code
    <3>3. State(units, m) = State(units, m - 1)
      BY <3>1, <3>2 DEF State
    <3>4. QED
      BY <2>2, <3>2, <3>3 DEF Turn
  <2>5. QED
    BY <2>3, <2>4
<1> HIDE DEF N, first
<1>4. state = [m \in 0..N |-> IF m = 0 THEN first ELSE Turn(bytes, state[m - 1])]
  <2>1. ASSUME NEW m \in 0..N
        PROVE  State(units, m) = IF m = 0 THEN first ELSE Turn(bytes, state[m - 1])
    <3>1. CASE m = 0
      BY <1>2, <3>1
    <3>2. CASE m # 0
      <4>1. m \in 1..N /\ m - 1 \in 0..N
        BY <1>1, <3>2
      <4>2. state[m - 1] = State(units, m - 1)
        BY <4>1
      <4>3. QED
        BY <1>3, <3>2, <4>1, <4>2
    <3>3. QED
      BY <3>1, <3>2
  <2>2. QED
    BY <2>1
<1>5. scan = [m \in 0..N |-> IF m = 0 THEN first ELSE Turn(bytes, scan[m - 1])]
  <2> HIDE DEF state
  <2>1. QED
    BY <1>4 DEF Scanned, Turn, N, first
<1> HIDE DEF state, scan
<1>6. /\ scan[0] = first
      /\ \A m \in 1..N : scan[m] = Turn(bytes, scan[m - 1])
  <2>1. \A m \in 0..N : scan[m] = IF m = 0 THEN first ELSE Turn(bytes, scan[m - 1])
    BY <1>5
  <2>2. 0 \in 0..N /\ \A m \in 1..N : m \in 0..N /\ m # 0
    BY <1>1
  <2>3. QED
    BY <2>1, <2>2
<1> DEFINE Same == {m \in Nat : m <= N => scan[m] = State(units, m)}
<1>7. 0 \in Same
  BY <1>2, <1>6
<1>8. ASSUME NEW m \in Nat, m \in Same PROVE m + 1 \in Same
  <2>1. SUFFICES ASSUME m + 1 <= N PROVE scan[m + 1] = State(units, m + 1)
    OBVIOUS
  <2>2. m + 1 \in 1..N /\ (m + 1) - 1 = m /\ scan[m] = State(units, m)
    BY <1>1, <1>8, <2>1
  <2>3. QED
    BY <1>3, <1>6, <2>2
<1>9. Nat \subseteq Same
  <2> HIDE DEF Same
  <2>1. QED
    BY <1>7, <1>8, InductionOnSet
<1>10. k \in Nat /\ k <= N
  BY <1>1 DEF N
<1>11. QED
  BY <1>9, <1>10 DEF scan

(* The scanner finds the units of a framed file, and nothing else.         *)
LEMMA FileIsScanned ==
  ASSUME NEW bytes, NEW units, Framed(bytes, units), units # <<>>
  PROVE  ScanAnnexB(bytes) = [error |-> "none", units |-> Found(units, Len(units))]
<1> DEFINE n == Len(units)
           N == Len(bytes)
           first == Code(units, 0)
           o == units[1].payload_offset
<1>1. N \in Nat /\ n \in Nat /\ n # 0 /\ n <= N
  <2>1. units \in Seq(WrittenUnit)
    BY DEF Framed
  <2>2. QED
    BY <2>1, Layout, UnitsFit
<1>2. FindStartCode(bytes, 0) = first /\ first \in Nat
  <2>1. 0 \in 0..n /\ 0 < n
    BY <1>1
  <2>2. QED
    BY <2>1, SearchFinds DEF Begin
<1>3. \A i \in 0..(first - 1) : At(bytes, i) = 0
  <2>1. 1 \in 1..n /\ 0 < n
    BY <1>1
  <2>2. IsGap(bytes, 0, o) /\ o \in Nat
    BY <2>1, Layout DEF EndOf
  <2>3. first = CodeStart(0, o)
    BY <2>1 DEF Code, EndOf
  <2> HIDE DEF o, first
  <2>4. first <= o - 3 /\ \A j \in 1..(o - 1) : bytes[j] = 0
    BY <2>2, <2>3 DEF IsGap, CodeStart
  <2>5. \A i \in 0..(first - 1) : i + 1 \in 1..(o - 1)
    BY <1>2, <2>2, <2>4
  <2>6. QED
    BY <2>4, <2>5 DEF At
<1>4. ScanAnnexB(bytes) = ScanFrom(bytes, first)
  <2>1. first # None
    BY <1>2 DEF None
  <2> HIDE DEF first
  <2>2. QED
    BY <1>2, <1>3, <2>1 DEF ScanAnnexB
<1>5. ScanFrom(bytes, first) = [error |-> Scanned(bytes, first)[N].error,
                                units |-> Scanned(bytes, first)[N].units]
  BY DEF ScanFrom, Scanned
<1>6. Scanned(bytes, first)[N] = State(units, N)
  <2>1. N \in 0..N
    BY <1>1
  <2>2. QED
    BY <2>1, ScanIsState
<1>7. State(units, N).error = "none" /\ State(units, N).units = Found(units, n)
  <2>1. (IF N < n THEN N ELSE n) = n
    BY <1>1
  <2>2. QED
    BY <2>1 DEF State
<1>8. QED
  BY <1>4, <1>5, <1>6, <1>7

(* Whatever the muxer writes, scan_annex_b (annex_b.cpp) finds every NAL   *)
(* unit at its place with its size, and no other.                          *)
THEOREM UnitsAreFound == Spec => []ScanFindsNals
<1>1. FileInv => ScanFindsNals
  <2>1. SUFFICES ASSUME Framed(file, written), written # <<>>
                 PROVE  ScanAnnexB(file) =
                          [error |-> "none",
                           units |-> [i \in DOMAIN written |->
                                        [payload_offset |-> Unit(i).payload_offset,
                                         payload_size |-> Unit(i).payload_size]]]
    BY DEF FileInv, ScanFindsNals
  <2>2. DOMAIN written = 1..Len(written)
    BY <2>1 DEF Framed
  <2>3. QED
    BY <2>1, <2>2, FileIsScanned DEF Found, Unit
<1>2. QED
  BY <1>1, FileInvariance, PTL

-----------------------------------------------------------------------------
(* The powers of two and the values of bit strings.                        *)

(* The recursive functions of BitReader.                                   *)
Shifted ==
  CHOOSE f : f = [n \in 0..(Width + 2) |-> IF n = 0 THEN 1 ELSE 2 * f[n - 1]]

Valued(bytes, position) ==
  CHOOSE f : f = [n \in 0..BitsRemaining(bytes, position) |->
                    IF n = 0 THEN 0 ELSE 2 * f[n - 1] + bytes[position + n]]

(* The powers of two double from each to the next.                         *)
LEMMA ShiftedSteps ==
  /\ Shifted \in [0..(Width + 2) -> Nat] /\ Shifted[0] = 1
  /\ \A n \in 1..(Width + 2) : Shifted[n] = 2 * Shifted[n - 1]
<1> DEFINE N == Width + 2
           step == [n \in 1..N |-> [before \in Nat |-> 2 * before]]
           Is(f) == f = [n \in 0..N |-> IF n = 0 THEN 1 ELSE 2 * f[n - 1]]
           shifted == Shifted
<1>1. N \in Nat
  BY BitReaderAssumption
<1>2. step \in [1..N -> [Nat -> Nat]] /\ \A n \in 1..N, v \in Nat : step[n][v] = 2 * v
  OBVIOUS
<1> HIDE DEF step, N
<1>3. PICK f : Takes(f, N, Nat, 1, step)
  BY <1>1, <1>2, StepsAreTaken
<1>4. f \in [0..N -> Nat] /\ f[0] = 1 /\ \A n \in 1..N : f[n] = 2 * f[n - 1]
  <2>1. \A n \in 1..N : n - 1 \in 0..N
    BY <1>1
  <2>2. QED
    BY <1>2, <1>3, <2>1 DEF Takes
<1>5. Is(f)
  <2>1. \A n \in 0..N : f[n] = IF n = 0 THEN 1 ELSE 2 * f[n - 1]
    BY <1>1, <1>4
  <2>2. f = [n \in 0..N |-> f[n]]
    BY <1>4
  <2>3. QED
    BY <2>1, <2>2
<1>6. shifted = [n \in 0..N |-> IF n = 0 THEN 1 ELSE 2 * shifted[n - 1]]
  BY <1>5 DEF Shifted, N
<1> HIDE DEF shifted
<1>7. /\ shifted[0] = 1 /\ \A n \in 1..N : shifted[n] = 2 * shifted[n - 1]
      /\ shifted = [n \in 0..N |-> shifted[n]]
  <2>1. \A n \in 0..N : shifted[n] = IF n = 0 THEN 1 ELSE 2 * shifted[n - 1]
    BY <1>6
  <2>2. 0 \in 0..N /\ \A n \in 1..N : n \in 0..N /\ n # 0
    BY <1>1
  <2>3. shifted = [n \in 0..N |-> shifted[n]]
    BY <1>6
  <2>4. QED
    BY <2>1, <2>2, <2>3
<1>8. \A n \in 0..N : shifted[n] \in Nat
  <2> DEFINE Typed == {n \in Nat : n <= N => shifted[n] \in Nat}
  <2>1. 0 \in Typed
    BY <1>7
  <2>2. ASSUME NEW n \in Nat, n \in Typed PROVE n + 1 \in Typed
    <3>1. SUFFICES ASSUME n + 1 <= N PROVE shifted[n + 1] \in Nat
      OBVIOUS
    <3>2. shifted[n] \in Nat /\ n + 1 \in 1..N /\ (n + 1) - 1 = n
      BY <1>1, <2>2, <3>1
    <3>3. shifted[n + 1] = 2 * shifted[n]
      BY <1>7, <3>2
    <3>4. QED
      BY <3>2, <3>3
  <2>3. Nat \subseteq Typed
    <3> HIDE DEF Typed
    <3>1. QED
      BY <2>1, <2>2, InductionOnSet
  <2>4. QED
    BY <1>1, <2>3
<1>9. QED
  BY <1>7, <1>8 DEF shifted, N

(* The value of a bit string is computed bit by bit.                       *)
LEMMA ValuedSteps ==
  ASSUME NEW bytes \in Seq(Bit), NEW position \in 0..Len(bytes)
  PROVE  LET value == Valued(bytes, position)
             remaining == BitsRemaining(bytes, position)
         IN  /\ value \in [0..remaining -> Nat] /\ value[0] = 0
             /\ \A n \in 1..remaining : value[n] = 2 * value[n - 1] + bytes[position + n]
<1> DEFINE N == BitsRemaining(bytes, position)
           After(n, before) == 2 * before + bytes[position + n]
           step == [n \in 1..N |-> [before \in Nat |-> After(n, before)]]
           Is(f) == f = [n \in 0..N |-> IF n = 0 THEN 0 ELSE After(n, f[n - 1])]
           value == Valued(bytes, position)
<1>1. N \in Nat
  BY DEF BitsRemaining
<1>2. \A n \in 1..N, v \in Nat : After(n, v) \in Nat
  <2>1. SUFFICES ASSUME NEW n \in 1..N, NEW v \in Nat PROVE After(n, v) \in Nat
    OBVIOUS
  <2> DEFINE b == bytes[position + n]
  <2>2. b \in {0, 1}
    <3>1. position + n \in 1..Len(bytes)
      BY DEF BitsRemaining
    <3>2. QED
      BY <3>1 DEF Bit
  <2> HIDE DEF b
  <2>3. 2 * v + b \in Nat
    BY <2>2
  <2>4. QED
    BY <2>3 DEF b
<1>3. step \in [1..N -> [Nat -> Nat]] /\ \A n \in 1..N, v \in Nat : step[n][v] = After(n, v)
  BY <1>2
<1> HIDE DEF step, N
<1>4. PICK f : Takes(f, N, Nat, 0, step)
  BY <1>1, <1>3, StepsAreTaken
<1> HIDE DEF After
<1>5. f \in [0..N -> Nat] /\ f[0] = 0 /\ \A n \in 1..N : f[n] = After(n, f[n - 1])
  <2>1. \A n \in 1..N : n - 1 \in 0..N
    BY <1>1
  <2>2. QED
    BY <1>3, <1>4, <2>1 DEF Takes
<1>6. Is(f)
  <2>1. \A n \in 0..N : f[n] = IF n = 0 THEN 0 ELSE After(n, f[n - 1])
    BY <1>1, <1>5
  <2>2. f = [n \in 0..N |-> f[n]]
    BY <1>5
  <2>3. QED
    BY <2>1, <2>2
<1>7. value = [n \in 0..N |-> IF n = 0 THEN 0 ELSE After(n, value[n - 1])]
  BY <1>6 DEF Valued, N, After
<1> HIDE DEF value
<1>8. /\ value[0] = 0 /\ \A n \in 1..N : value[n] = After(n, value[n - 1])
      /\ value = [n \in 0..N |-> value[n]]
  <2>1. \A n \in 0..N : value[n] = IF n = 0 THEN 0 ELSE After(n, value[n - 1])
    BY <1>7
  <2>2. 0 \in 0..N /\ \A n \in 1..N : n \in 0..N /\ n # 0
    BY <1>1
  <2>3. value = [n \in 0..N |-> value[n]]
    BY <1>7
  <2>4. QED
    BY <2>1, <2>2, <2>3
<1>9. \A n \in 0..N : value[n] \in Nat
  <2> DEFINE Typed == {n \in Nat : n <= N => value[n] \in Nat}
  <2>1. 0 \in Typed
    BY <1>8
  <2>2. ASSUME NEW n \in Nat, n \in Typed PROVE n + 1 \in Typed
    <3>1. SUFFICES ASSUME n + 1 <= N PROVE value[n + 1] \in Nat
      OBVIOUS
    <3>2. value[n] \in Nat /\ n + 1 \in 1..N /\ (n + 1) - 1 = n
      BY <1>1, <2>2, <3>1
    <3>3. value[n + 1] = After(n + 1, value[n])
      BY <1>8, <3>2
    <3>4. QED
      BY <1>2, <3>2, <3>3
  <2>3. Nat \subseteq Typed
    <3> HIDE DEF Typed
    <3>1. QED
      BY <2>1, <2>2, InductionOnSet
  <2>4. QED
    BY <1>1, <2>3
<1>10. QED
  BY <1>8, <1>9 DEF value, N, After

(* The model computes with these functions.                                *)
LEMMA AsFunctions ==
  /\ TwoTo = Shifted
  /\ \A bytes, position, count :
       BitValue(bytes, position, count) = Valued(bytes, position)[count]
BY DEF TwoTo, Shifted, BitValue, Valued

(* The powers grow.                                                        *)
LEMMA Powers ==
  /\ TwoTo[0] = 1
  /\ \A n \in 1..(Width + 2) : TwoTo[n] = 2 * TwoTo[n - 1]
  /\ \A n \in 0..(Width + 2) : TwoTo[n] \in Nat \ {0}
  /\ \A m, n \in 0..(Width + 2) : m < n => 2 * TwoTo[m] <= TwoTo[n]
<1> DEFINE N == Width + 2
           Grown == {n \in Nat : n <= N => /\ TwoTo[n] \in Nat \ {0}
                                           /\ \A m \in 0..N : m < n => 2 * TwoTo[m] <= TwoTo[n]}
<1>1. N \in Nat
  BY BitReaderAssumption
<1> HIDE DEF N
<1>2. /\ TwoTo[0] = 1 /\ \A n \in 1..N : TwoTo[n] = 2 * TwoTo[n - 1]
      /\ \A n \in 0..N : TwoTo[n] \in Nat
  BY AsFunctions, ShiftedSteps DEF N
<1>3. 0 \in Grown
  BY <1>1, <1>2
<1>4. ASSUME NEW n \in Nat, n \in Grown PROVE n + 1 \in Grown
  <2>1. SUFFICES ASSUME n + 1 <= N
                 PROVE  /\ TwoTo[n + 1] \in Nat \ {0}
                        /\ \A m \in 0..N : m < n + 1 => 2 * TwoTo[m] <= TwoTo[n + 1]
    OBVIOUS
  <2>2. TwoTo[n + 1] = 2 * TwoTo[n] /\ TwoTo[n] \in Nat \ {0}
    <3>1. n + 1 \in 1..N /\ (n + 1) - 1 = n /\ n <= N
      BY <1>1, <2>1
    <3>2. QED
      BY <1>2, <1>4, <3>1
  <2>3. ASSUME NEW m \in 0..N, m < n + 1 PROVE 2 * TwoTo[m] <= TwoTo[n + 1]
    <3> DEFINE p == TwoTo[m]
               q == TwoTo[n]
    <3>1. CASE m = n
      BY <2>2, <3>1
    <3>2. CASE m < n
      <4>1. p \in Nat /\ q \in Nat /\ 2 * p <= q /\ TwoTo[n + 1] = 2 * q
        BY <1>1, <1>2, <1>4, <2>1, <2>2, <3>2
      <4> HIDE DEF p, q
      <4>2. 2 * p <= 2 * q
        BY <4>1
      <4>3. QED
        BY <4>1, <4>2 DEF p
    <3>3. QED
      BY <1>1, <2>3, <3>1, <3>2
  <2>4. TwoTo[n + 1] \in Nat \ {0}
    <3> DEFINE q == TwoTo[n]
    <3> HIDE DEF q
    <3>1. 2 * q \in Nat \ {0}
      BY <2>2 DEF q
    <3>2. QED
      BY <2>2, <3>1 DEF q
  <2>5. QED
    BY <2>3, <2>4
<1>5. Nat \subseteq Grown
  <2> HIDE DEF Grown
  <2>1. QED
    BY <1>3, <1>4, InductionOnSet
<1>6. \A n \in 0..N : n \in Grown /\ n <= N
  BY <1>1, <1>5
<1>7. QED
  BY <1>2, <1>6 DEF N

(* The number of whole turns is the quotient.                              *)
LEMMA QuotientIsUnique ==
  ASSUME NEW m \in Nat \ {0}, NEW a \in Int, NEW turns \in Int,
         NEW r \in 0..(m - 1), a = m * turns + r
  PROVE  a \div m = turns
OBVIOUS

(* Dividing by twice a number is halving the quotient.                     *)
LEMMA HalvedQuotient ==
  ASSUME NEW v \in Nat, NEW m \in Nat \ {0}
  PROVE  /\ v \div m \in Nat
         /\ v \div (2 * m) = (v \div m) \div 2
         /\ v \div m = 2 * (v \div (2 * m)) + ((v \div m) % 2)
<1> DEFINE q == v \div m
           r == v % m
           h == q \div 2
           b == q % 2
<1>1. q \in Int /\ r \in 0..(m - 1) /\ v = m * q + r
  BY DivisionWithRemainder
<1>2. q \in Nat
  <2>1. 0 * m <= v
    OBVIOUS
  <2>2. 0 <= v \div m
    BY <2>1, QuotientIsLargest
  <2>3. QED
    BY <1>1, <2>2
<1> HIDE DEF q, r
<1>3. h \in Nat /\ b \in 0..1 /\ q = 2 * h + b
  BY <1>2
<1> HIDE DEF h, b
<1>4. v = (2 * m) * h + (m * b + r)
  BY <1>1, <1>3
<1>5. m * b + r \in 0..(2 * m - 1)
  <2>1. CASE b = 0
    BY <1>1, <2>1
  <2>2. CASE b = 1
    BY <1>1, <2>2
  <2>3. QED
    BY <1>3, <2>1, <2>2
<1>6. v \div (2 * m) = h
  <2> DEFINE mm == 2 * m
             rr == m * b + r
  <2>1. mm \in Nat \ {0} /\ rr \in 0..(mm - 1) /\ v = mm * h + rr
    BY <1>4, <1>5
  <2> HIDE DEF mm, rr
  <2>2. v \div mm = h
    BY <1>3, <2>1, QuotientIsUnique
  <2>3. QED
    BY <2>2 DEF mm
<1>7. QED
  BY <1>2, <1>3, <1>6 DEF q, h, b

(* Dividing by more, or by one.                                            *)
LEMMA SmallQuotients ==
  ASSUME NEW v \in Nat, NEW m \in Nat \ {0}
  PROVE  /\ v \div 1 = v
         /\ v < m => v \div m = 0
         /\ m <= v /\ v < 2 * m => v \div m = 1
<1>1. v \div 1 = v
  OBVIOUS
<1> DEFINE q == v \div m
<1>2. q \in Int /\ v % m \in 0..(m - 1) /\ v = m * q + (v % m)
  BY DivisionWithRemainder
<1> DEFINE r == v % m
<1> HIDE DEF q, r
<1>3. r \in 0..(m - 1) /\ v = m * q + r /\ q \in Int
  BY <1>2 DEF r
<1>4. ASSUME v < 2 * m PROVE q <= 1
  <2>1. SUFFICES ASSUME 1 < q PROVE FALSE
    BY <1>3
  <2>2. m * q >= m * 1 + m
    BY <1>3, <2>1, TurnsAreApart
  <2>3. m * 1 = m /\ m * q \in Int
    BY <1>3
  <2>4. QED
    BY <1>3, <1>4, <2>2, <2>3
<1>5. q >= 0
  <2>1. SUFFICES ASSUME q < 0 PROVE FALSE
    BY <1>3
  <2>2. m * 0 >= m * q + m
    BY <1>3, <2>1, TurnsAreApart
  <2>3. m * 0 = 0 /\ m * q \in Int
    BY <1>3
  <2>4. QED
    BY <1>3, <2>2, <2>3
<1>6. ASSUME v < m PROVE q = 0
  <2>1. q = 0 \/ q = 1
    BY <1>3, <1>4, <1>5, <1>6
  <2>2. q # 1
    <3>1. SUFFICES ASSUME q = 1 PROVE FALSE
      OBVIOUS
    <3>2. v = m + r
      BY <1>3, <3>1
    <3>3. QED
      BY <1>3, <1>6, <3>2
  <2>3. QED
    BY <2>1, <2>2
<1>7. ASSUME m <= v, v < 2 * m PROVE q = 1
  <2>1. q = 0 \/ q = 1
    BY <1>3, <1>4, <1>5, <1>7
  <2>2. q # 0
    <3>1. SUFFICES ASSUME q = 0 PROVE FALSE
      OBVIOUS
    <3>2. v = r
      BY <1>3, <3>1
    <3>3. QED
      BY <1>3, <1>7, <3>2
  <2>3. QED
    BY <2>1, <2>2
<1>8. QED
  BY <1>1, <1>6, <1>7 DEF q

(* The value of no bits is 0, that of one more is twice as much and the    *)
(* bit.                                                                    *)
LEMMA BitValues ==
  ASSUME NEW bytes \in Seq(Bit), NEW position \in 0..Len(bytes)
  PROVE  /\ BitValue(bytes, position, 0) = 0
         /\ \A n \in 0..BitsRemaining(bytes, position) : BitValue(bytes, position, n) \in Nat
         /\ \A n \in 1..BitsRemaining(bytes, position) :
              BitValue(bytes, position, n) =
                2 * BitValue(bytes, position, n - 1) + bytes[position + n]
BY AsFunctions, ValuedSteps

(* A bit is 0 or 1.                                                        *)
LEMMA BitIsNumber ==
  ASSUME NEW bytes \in Seq(Bit), NEW position \in 0..Len(bytes),
         NEW n \in 1..BitsRemaining(bytes, position)
  PROVE  bytes[position + n] \in 0..1
<1>1. position + n \in 1..Len(bytes)
  BY DEF BitsRemaining
<1>2. QED
  BY <1>1 DEF Bit

(* What remains of the data is a number of bits.                           *)
LEMMA BitsRemain ==
  ASSUME NEW bytes \in Seq(Bit), NEW position \in 0..Len(bytes)
  PROVE  BitsRemaining(bytes, position) \in Nat
BY DEF BitsRemaining

(* The value of count bits is below 2^count.                               *)
LEMMA ValueFits ==
  ASSUME NEW bytes \in Seq(Bit), NEW position \in 0..Len(bytes),
         NEW count \in 0..BitsRemaining(bytes, position), count <= Width + 2
  PROVE  BitValue(bytes, position, count) < TwoTo[count]
<1> DEFINE V(n) == BitValue(bytes, position, n)
           R == BitsRemaining(bytes, position)
           Fits == {n \in Nat : n <= count => V(n) < TwoTo[n]}
<1>0. R \in Nat /\ count \in 0..R /\ Width + 2 \in Nat
  BY BitsRemain, BitReaderAssumption
<1>1. /\ V(0) = 0 /\ \A n \in 0..R : V(n) \in Nat
      /\ \A n \in 1..R : V(n) = 2 * V(n - 1) + bytes[position + n]
      /\ \A n \in 1..R : bytes[position + n] \in 0..1
  BY BitValues, BitIsNumber
<1> HIDE DEF V, R
<1>2. 0 \in Fits
  BY <1>1, Powers
<1>3. ASSUME NEW n \in Nat, n \in Fits PROVE n + 1 \in Fits
  <2>1. SUFFICES ASSUME n + 1 <= count PROVE V(n + 1) < TwoTo[n + 1]
    OBVIOUS
  <2> DEFINE v == V(n)
             p == TwoTo[n]
             b == bytes[position + (n + 1)]
  <2>2. n + 1 \in 1..R /\ n \in 0..R /\ (n + 1) - 1 = n /\ n + 1 \in 1..(Width + 2) /\ n \in 0..(Width + 2)
    BY <1>0, <2>1
  <2>3. V(n + 1) = 2 * v + b /\ v \in Nat /\ b \in 0..1
    BY <1>1, <2>2
  <2>4. TwoTo[n + 1] = 2 * p /\ p \in Nat
    BY <2>2, Powers
  <2>5. v < p
    BY <1>0, <1>3, <2>1
  <2> HIDE DEF v, p, b
  <2>6. QED
    BY <2>3, <2>4, <2>5
<1>4. Nat \subseteq Fits
  <2> HIDE DEF Fits
  <2>1. QED
    BY <1>2, <1>3, InductionOnSet
<1>5. QED
  BY <1>0, <1>4 DEF V

(* The binary digits of the value of count bits are the bits.              *)
LEMMA ValueIsBinary ==
  ASSUME NEW bytes \in Seq(Bit), NEW position \in 0..Len(bytes),
         NEW count \in 0..BitsRemaining(bytes, position), count <= Width + 2
  PROVE  \A i \in 1..count :
           Binary(BitValue(bytes, position, count), count)[i] = bytes[position + i]
<1> DEFINE V(n) == BitValue(bytes, position, n)
           R == BitsRemaining(bytes, position)
           Holds == {j \in Nat : j <= count => V(count) \div TwoTo[j] = V(count - j)}
<1>0. R \in Nat /\ count \in 0..R /\ Width + 2 \in Nat
  BY BitsRemain, BitReaderAssumption
<1>1. /\ V(0) = 0 /\ \A n \in 0..R : V(n) \in Nat
      /\ \A n \in 1..R : V(n) = 2 * V(n - 1) + bytes[position + n]
      /\ \A n \in 1..R : bytes[position + n] \in 0..1
  BY BitValues, BitIsNumber
<1> HIDE DEF V, R
<1> DEFINE whole == V(count)
<1>2. whole \in Nat
  BY <1>0, <1>1
<1>3. 0 \in Holds
  <2>1. TwoTo[0] = 1 /\ whole \div 1 = whole /\ count - 0 = count
    <3> HIDE DEF whole
    <3>1. QED
      BY <1>0, <1>2, Powers, SmallQuotients
  <2>2. QED
    BY <2>1
<1>4. ASSUME NEW n \in 1..R
      PROVE  V(n) \div 2 = V(n - 1) /\ V(n) % 2 = bytes[position + n]
  <2> DEFINE v == V(n)
             u == V(n - 1)
             b == bytes[position + n]
  <2>1. n - 1 \in 0..R
    BY <1>0
  <2>2. v = 2 * u + b /\ u \in Nat /\ b \in 0..1 /\ v \in Nat
    BY <1>0, <1>1, <2>1
  <2> HIDE DEF v, u, b
  <2>3. v \div 2 = u /\ v % 2 = b
    BY <2>2
  <2>4. QED
    BY <2>3 DEF v, u, b
<1>5. ASSUME NEW j \in Nat, j \in Holds PROVE j + 1 \in Holds
  <2>1. SUFFICES ASSUME j + 1 <= count PROVE whole \div TwoTo[j + 1] = V(count - (j + 1))
    OBVIOUS
  <2>2. /\ count - j \in 1..R /\ (count - j) - 1 = count - (j + 1) /\ j <= count
        /\ j + 1 \in 1..(Width + 2) /\ (j + 1) - 1 = j /\ j \in 0..(Width + 2)
    BY <1>0, <2>1
  <2> DEFINE p == TwoTo[j]
  <2>3. TwoTo[j + 1] = 2 * p /\ p \in Nat \ {0}
    BY <2>2, Powers
  <2>4. whole \div p = V(count - j)
    BY <1>5, <2>2
  <2> HIDE DEF p, whole
  <2>5. whole \div (2 * p) = (whole \div p) \div 2
    BY <1>2, <2>3, HalvedQuotient
  <2>6. V(count - j) \div 2 = V(count - (j + 1))
    BY <1>4, <2>2
  <2>7. QED
    BY <2>3, <2>4, <2>5, <2>6
<1>6. Nat \subseteq Holds
  <2> HIDE DEF Holds
  <2>1. QED
    BY <1>3, <1>5, InductionOnSet
<1>7. ASSUME NEW i \in 1..count PROVE Binary(whole, count)[i] = bytes[position + i]
  <2>1. count - i \in Nat /\ count - i <= count /\ count - (count - i) = i /\ i \in 1..R
    BY <1>0
  <2>2. whole \div TwoTo[count - i] = V(i)
    BY <1>6, <2>1
  <2>3. V(i) % 2 = bytes[position + i]
    BY <1>4, <2>1
  <2> HIDE DEF whole
  <2>4. Binary(whole, count)[i] = (whole \div TwoTo[count - i]) % 2
    BY DEF Binary
  <2>5. QED
    BY <2>2, <2>3, <2>4
<1>8. QED
  BY <1>7 DEF V

(* Bits that are the binary digits of a number have it as their value.     *)
LEMMA BinaryIsValue ==
  ASSUME NEW bytes \in Seq(Bit), NEW position \in 0..Len(bytes),
         NEW count \in 0..BitsRemaining(bytes, position), count <= Width + 2,
         NEW v \in Nat, v < TwoTo[count],
         \A i \in 1..count : bytes[position + i] = Binary(v, count)[i]
  PROVE  BitValue(bytes, position, count) = v
<1> DEFINE V(n) == BitValue(bytes, position, n)
           R == BitsRemaining(bytes, position)
           Holds == {i \in Nat : i <= count => V(i) = v \div TwoTo[count - i]}
<1>0. R \in Nat /\ count \in 0..R /\ Width + 2 \in Nat
  BY BitsRemain, BitReaderAssumption
<1>1. /\ V(0) = 0 /\ \A n \in 0..R : V(n) \in Nat
      /\ \A n \in 1..R : V(n) = 2 * V(n - 1) + bytes[position + n]
  BY BitValues
<1> HIDE DEF V, R
<1>2. 0 \in Holds
  <2> DEFINE p == TwoTo[count]
  <2>1. p \in Nat \ {0} /\ v < p /\ count - 0 = count
    BY <1>0, Powers
  <2> HIDE DEF p
  <2>2. v \div p = 0
    BY <2>1, SmallQuotients
  <2>3. QED
    BY <1>1, <2>1, <2>2 DEF p
<1>3. ASSUME NEW i \in Nat, i \in Holds PROVE i + 1 \in Holds
  <2>1. SUFFICES ASSUME i + 1 <= count PROVE V(i + 1) = v \div TwoTo[count - (i + 1)]
    OBVIOUS
  <2>2. /\ i + 1 \in 1..count /\ i + 1 \in 1..R /\ (i + 1) - 1 = i /\ i <= count
        /\ count - i \in 1..(Width + 2) /\ (count - i) - 1 = count - (i + 1)
        /\ count - (i + 1) \in 0..(Width + 2)
    BY <1>0, <2>1
  <2> DEFINE p == TwoTo[count - (i + 1)]
  <2>3. TwoTo[count - i] = 2 * p /\ p \in Nat \ {0}
    BY <2>2, Powers
  <2>4. V(i) = v \div (2 * p)
    BY <1>3, <2>2, <2>3
  <2>5. bytes[position + (i + 1)] = (v \div p) % 2
    BY <2>2 DEF Binary
  <2>6. V(i + 1) = 2 * V(i) + bytes[position + (i + 1)]
    BY <1>1, <2>2
  <2> HIDE DEF p
  <2>7. v \div p = 2 * (v \div (2 * p)) + ((v \div p) % 2)
    BY <2>3, HalvedQuotient
  <2>8. V(i + 1) = v \div p
    BY <2>4, <2>5, <2>6, <2>7
  <2>9. QED
    BY <2>8 DEF p
<1>4. Nat \subseteq Holds
  <2> HIDE DEF Holds
  <2>1. QED
    BY <1>2, <1>3, InductionOnSet
<1>5. V(count) = v \div TwoTo[count - count]
  BY <1>0, <1>4
<1>6. count - count = 0 /\ TwoTo[0] = 1 /\ v \div 1 = v
  BY <1>0, Powers, SmallQuotients
<1>7. QED
  BY <1>5, <1>6 DEF V

(* A 1 before count bits adds 2^count to their value.                      *)
LEMMA LeadingOne ==
  ASSUME NEW bytes \in Seq(Bit), NEW position \in 0..(Len(bytes) - 1),
         NEW count \in Nat, position + 1 + count <= Len(bytes), count <= Width + 1,
         bytes[position + 1] = 1
  PROVE  BitValue(bytes, position, count + 1) =
           TwoTo[count] + BitValue(bytes, position + 1, count)
<1> DEFINE V(n) == BitValue(bytes, position, n)
           W(n) == BitValue(bytes, position + 1, n)
           R == BitsRemaining(bytes, position)
           Q == BitsRemaining(bytes, position + 1)
           Holds == {n \in Nat : n <= count => V(n + 1) = TwoTo[n] + W(n)}
<1>0. /\ R \in Nat /\ Q \in Nat /\ count <= Q /\ count + 1 <= R /\ Width + 2 \in Nat
      /\ position \in 0..Len(bytes) /\ position + 1 \in 0..Len(bytes)
  BY BitReaderAssumption DEF BitsRemaining
<1>1. /\ V(0) = 0 /\ \A n \in 0..R : V(n) \in Nat
      /\ \A n \in 1..R : V(n) = 2 * V(n - 1) + bytes[position + n]
  BY <1>0, BitValues
<1>2. /\ W(0) = 0 /\ \A n \in 0..Q : W(n) \in Nat
      /\ \A n \in 1..Q : W(n) = 2 * W(n - 1) + bytes[position + 1 + n]
  BY <1>0, BitValues
<1> HIDE DEF V, W, R, Q
<1>3. 0 \in Holds
  <2>1. 1 \in 1..R /\ 1 - 1 = 0
    BY <1>0
  <2>2. V(1) = 1
    BY <1>1, <2>1
  <2>3. QED
    BY <1>2, <2>2, Powers
<1>4. ASSUME NEW n \in Nat, n \in Holds PROVE n + 1 \in Holds
  <2>1. SUFFICES ASSUME n + 1 <= count PROVE V((n + 1) + 1) = TwoTo[n + 1] + W(n + 1)
    OBVIOUS
  <2>2. /\ n <= count /\ n + 2 \in 1..R /\ (n + 2) - 1 = n + 1
        /\ n + 1 \in 1..Q /\ (n + 1) - 1 = n /\ n \in 0..Q
        /\ n + 1 \in 1..(Width + 2) /\ n \in 0..(Width + 2)
        /\ (n + 1) + 1 = n + 2 /\ position + (n + 2) = position + 1 + (n + 1)
    <3>1. n + 1 <= count /\ n \in Nat /\ position \in Nat /\ Width \in Nat
      BY <2>1, BitReaderAssumption
    <3>2. (n + 2) - 1 = n + 1 /\ (n + 1) - 1 = n /\ (n + 1) + 1 = n + 2
      BY <3>1
    <3>3. n + 2 \in 1..R /\ n + 1 \in 1..Q /\ n \in 0..Q
      BY <1>0, <3>1
    <3>4. n + 1 \in 1..(Width + 2) /\ n \in 0..(Width + 2)
      BY <3>1
    <3>5. position + (n + 2) = position + 1 + (n + 1)
      BY <3>1
    <3>6. QED
      BY <3>1, <3>2, <3>3, <3>4, <3>5
  <2> DEFINE p == TwoTo[n]
             u == W(n)
             b == bytes[position + (n + 2)]
  <2>3. TwoTo[n + 1] = 2 * p /\ p \in Nat
    BY <2>2, Powers
  <2>4. V(n + 2) = 2 * V(n + 1) + b /\ W(n + 1) = 2 * u + b /\ u \in Nat
    BY <1>1, <1>2, <2>2
  <2>5. V(n + 1) = p + u
    BY <1>4, <2>2
  <2>6. b \in 0..1
    BY <1>0, <2>2, BitIsNumber DEF R
  <2> HIDE DEF p, u, b
  <2>7. V(n + 2) = 2 * p + (2 * u + b)
    BY <2>3, <2>4, <2>5, <2>6
  <2>8. QED
    BY <2>2, <2>3, <2>4, <2>7
<1>5. Nat \subseteq Holds
  <2> HIDE DEF Holds
  <2>1. QED
    BY <1>3, <1>4, InductionOnSet
<1>6. QED
  BY <1>5 DEF V, W

-----------------------------------------------------------------------------
(* The codes of read_exp_golomb_code_num.                                  *)

(* So many zero bits come next, and then a 1 or the end of the data.       *)
AreZeros(bytes, position, n) ==
  /\ n \in 0..BitsRemaining(bytes, position)
  /\ \A i \in (position + 1)..(position + n) : bytes[i] = 0
  /\ n < BitsRemaining(bytes, position) => bytes[position + n + 1] = 1

(* There is one such number, and the reader counts it.                     *)
LEMMA ZerosAreCounted ==
  ASSUME NEW bytes \in Seq(Bit), NEW position \in 0..Len(bytes)
  PROVE  /\ AreZeros(bytes, position, LeadingZeros(bytes, position))
         /\ \A n : AreZeros(bytes, position, n) => n = LeadingZeros(bytes, position)
<1> DEFINE R == BitsRemaining(bytes, position)
           Ends == {n \in 0..R : n < R => bytes[position + n + 1] = 1}
           zeros == LeadingZeros(bytes, position)
<1>0. R \in Nat /\ position + R = Len(bytes) /\ position \in Nat
  BY DEF BitsRemaining
<1>1. \A i \in 1..Len(bytes) : bytes[i] \in {0, 1}
  BY DEF Bit
<1> HIDE DEF R
<1>2. R \in Ends /\ Ends \subseteq Nat
  BY <1>0
<1> DEFINE first == Min(Ends)
<1> HIDE DEF first
<1>3. first \in Ends /\ \A n \in Ends : first <= n
  <2> HIDE DEF Ends
  <2>1. QED
    BY <1>2, MinIsLeast DEF first
<1>4. first \in 0..R /\ (first < R => bytes[position + first + 1] = 1)
  BY <1>3
<1>5. ASSUME NEW i \in (position + 1)..(position + first) PROVE bytes[i] = 0
  <2> DEFINE n == i - position - 1
  <2>1. n \in 0..R /\ n < R /\ n < first /\ position + n + 1 = i /\ i \in 1..Len(bytes)
    BY <1>0, <1>4
  <2> HIDE DEF n
  <2>2. n \notin Ends
    BY <1>3, <1>4, <2>1
  <2>3. bytes[i] # 1
    BY <2>1, <2>2
  <2>4. QED
    BY <1>1, <2>1, <2>3
<1>6. AreZeros(bytes, position, first)
  BY <1>4, <1>5 DEF AreZeros, R
<1>7. zeros = CHOOSE n \in 0..R : AreZeros(bytes, position, n)
  BY DEF LeadingZeros, AreZeros, R
<1>8. AreZeros(bytes, position, zeros)
  <2> HIDE DEF zeros
  <2>1. QED
    BY <1>4, <1>6, <1>7
<1>9. ASSUME NEW m, NEW n, AreZeros(bytes, position, m), AreZeros(bytes, position, n)
      PROVE  ~ m < n
  <2>1. SUFFICES ASSUME m < n PROVE FALSE
    OBVIOUS
  <2>2. m \in 0..R /\ n \in 0..R /\ m < R
    BY <1>0, <1>9, <2>1 DEF AreZeros, R
  <2>3. bytes[position + m + 1] = 1
    BY <1>9, <2>2 DEF AreZeros, R
  <2>4. position + m + 1 \in (position + 1)..(position + n)
    BY <1>0, <2>1, <2>2
  <2>5. bytes[position + m + 1] = 0
    BY <1>9, <2>4 DEF AreZeros
  <2>6. QED
    BY <2>3, <2>5
<1>10. ASSUME NEW n, AreZeros(bytes, position, n) PROVE n = zeros
  <2>1. n \in 0..R /\ zeros \in 0..R
    BY <1>8, <1>10 DEF AreZeros, R
  <2>2. ~ n < zeros /\ ~ zeros < n
    <3> HIDE DEF zeros
    <3>1. QED
      BY <1>8, <1>9, <1>10
  <2> HIDE DEF zeros
  <2>3. QED
    BY <1>0, <2>1, <2>2
<1>11. QED
  BY <1>8, <1>10

(* A number has the length n in binary from 2^(n - 1) on up to 2^n.        *)
LEMMA LengthIs ==
  ASSUME NEW k \in Nat, NEW n \in 1..(Width + 2), TwoTo[n - 1] <= k, k < TwoTo[n]
  PROVE  LengthOf(k) = n
<1> DEFINE N == Width + 2
           Is(m) == TwoTo[m - 1] <= k /\ k < TwoTo[m]
           length == LengthOf(k)
<1>0. N \in Nat
  BY BitReaderAssumption
<1>1. ASSUME NEW a \in 1..N, NEW b \in 1..N, Is(a), Is(b) PROVE ~ a < b
  <2>1. SUFFICES ASSUME a < b PROVE FALSE
    OBVIOUS
  <2> DEFINE p == TwoTo[a]
             q == TwoTo[b - 1]
  <2>2. p \in Nat /\ q \in Nat /\ k < p /\ q <= k
    BY <1>0, <1>1, Powers
  <2>3. p <= q
    <3>1. a \in 0..N /\ b - 1 \in 0..N /\ (a = b - 1 \/ a < b - 1)
      BY <1>0, <2>1
    <3>2. a < b - 1 => 2 * p <= q
      BY <3>1, Powers
    <3> HIDE DEF p, q
    <3>3. CASE a < b - 1
      BY <2>2, <3>2, <3>3
    <3>4. CASE a = b - 1
      BY <2>2, <3>4 DEF p, q
    <3>5. QED
      BY <3>1, <3>3, <3>4
  <2> HIDE DEF p, q
  <2>4. QED
    BY <2>2, <2>3
<1>2. length = CHOOSE m \in 1..N : Is(m)
  BY DEF LengthOf
<1>3. n \in 1..N /\ Is(n)
  OBVIOUS
<1> HIDE DEF N, Is, length
<1>4. length \in 1..N /\ Is(length)
  BY <1>2, <1>3
<1>5. ~ length < n /\ ~ n < length
  BY <1>1, <1>3, <1>4
<1>6. length = n
  BY <1>0, <1>3, <1>4, <1>5
<1>7. QED
  BY <1>6 DEF length

(* Every number from 1 on that Width + 2 bits can hold has a length.       *)
LEMMA LengthExists ==
  ASSUME NEW k \in Nat \ {0}, NEW m \in 1..(Width + 2), k < TwoTo[m]
  PROVE  /\ LengthOf(k) \in 1..m
         /\ TwoTo[LengthOf(k) - 1] <= k /\ k < TwoTo[LengthOf(k)]
<1> DEFINE N == Width + 2
           Above == {n \in 1..N : k < TwoTo[n]}
           first == Min(Above)
<1>0. N \in Nat
  BY BitReaderAssumption
<1>1. m \in Above /\ Above \subseteq Nat
  BY <1>0
<1> HIDE DEF first
<1>2. first \in Above /\ \A n \in Above : first <= n
  <2> HIDE DEF Above
  <2>1. QED
    BY <1>1, MinIsLeast DEF first
<1>3. first \in 1..m /\ first \in 1..N /\ k < TwoTo[first]
  BY <1>0, <1>1, <1>2
<1>4. TwoTo[first - 1] <= k
  <2>1. CASE first = 1
    <3>1. TwoTo[first - 1] = 1
      BY <2>1, Powers
    <3>2. QED
      BY <3>1
  <2>2. CASE first # 1
    <3>1. first - 1 \in 1..N /\ ~ first <= first - 1 /\ first - 1 \in 0..(Width + 2)
      BY <1>0, <1>3, <2>2
    <3>2. first - 1 \notin Above
      BY <1>2, <3>1
    <3>3. ~ k < TwoTo[first - 1]
      BY <3>1, <3>2
    <3>4. TwoTo[first - 1] \in Nat
      BY <3>1, Powers
    <3>5. QED
      BY <3>3, <3>4
  <2>3. QED
    BY <2>1, <2>2
<1>5. LengthOf(k) = first
  BY <1>3, <1>4, LengthIs
<1>6. QED
  BY <1>3, <1>4, <1>5

(* The code of a value, bit by bit.                                        *)
LEMMA UeCodeBits ==
  ASSUME NEW v \in Nat, NEW n \in 1..(Width + 2), LengthOf(v + 1) = n
  PROVE  /\ UeCode(v) \in Seq(Int) /\ Len(UeCode(v)) = 2 * n - 1
         /\ \A i \in 1..(n - 1) : UeCode(v)[i] = 0
         /\ \A i \in 1..n : UeCode(v)[n - 1 + i] = Binary(v + 1, n)[i]
<1> DEFINE zeros == [i \in 1..(n - 1) |-> 0]
           digits == Binary(v + 1, n)
<1>0. n \in Nat \ {0}
  BY BitReaderAssumption
<1>1. UeCode(v) = zeros \o digits
  BY DEF UeCode
<1>2. zeros \in Seq(Int) /\ Len(zeros) = n - 1 /\ \A i \in 1..(n - 1) : zeros[i] = 0
  BY <1>0
<1>3. digits \in Seq(Int) /\ Len(digits) = n
  <2>1. ASSUME NEW i \in 1..n PROVE ((v + 1) \div TwoTo[n - i]) % 2 \in Int
    <3> DEFINE p == TwoTo[n - i]
    <3>1. p \in Nat \ {0}
      BY BitReaderAssumption, Powers
    <3> HIDE DEF p
    <3> DEFINE k == v + 1
    <3>2. k \in Nat
      OBVIOUS
    <3> HIDE DEF k
    <3>3. k \div p \in Nat
      BY <3>1, <3>2, HalvedQuotient
    <3>4. QED
      BY <3>3 DEF p, k
  <2>2. digits \in [1..n -> Int]
    BY <2>1 DEF Binary
  <2> HIDE DEF digits
  <2>3. QED
    BY <1>0, <2>2
<1> HIDE DEF zeros, digits
<1>4. UeCode(v) \in Seq(Int) /\ Len(UeCode(v)) = 2 * n - 1
  <2>1. zeros \o digits \in Seq(Int) /\ Len(zeros \o digits) = (n - 1) + n
    BY <1>2, <1>3
  <2>2. (n - 1) + n = 2 * n - 1
    BY <1>0
  <2>3. QED
    BY <1>1, <2>1, <2>2
<1>5. ASSUME NEW i \in 1..(n - 1) PROVE UeCode(v)[i] = 0
  BY <1>0, <1>1, <1>2, <1>3, <1>5
<1>6. ASSUME NEW i \in 1..n PROVE UeCode(v)[n - 1 + i] = digits[i]
  <2> DEFINE j == n - 1 + i
  <2>1. j > n - 1 /\ j <= (n - 1) + n /\ j - (n - 1) = i /\ j \in Nat \ {0}
    BY <1>0
  <2> HIDE DEF j
  <2>2. (zeros \o digits)[j] = digits[j - (n - 1)]
    BY <1>2, <1>3, <2>1
  <2>3. QED
    BY <1>1, <2>1, <2>2 DEF j
<1>7. QED
  BY <1>4, <1>5, <1>6 DEF digits

(* The bits from a position on are those of a code.                        *)
StandsAt(bytes, position, code) ==
  /\ position + Len(code) <= Len(bytes)
  /\ \A i \in 1..Len(code) : bytes[position + i] = code[i]

(* Where the code of a number stands, read_exp_golomb_code_num returns the *)
(* number and the position behind the code.                                *)
LEMMA CodeIsRead ==
  ASSUME NEW bytes \in Seq(Bit), NEW position \in 0..Len(bytes), NEW v \in Nat,
         v + 1 < TwoTo[Width + 1], StandsAt(bytes, position, UeCode(v))
  PROVE  ReadExpGolombCodeNum(bytes, position) = Result(v, position + Len(UeCode(v)))
<1> DEFINE k == v + 1
           n == LengthOf(k)
           z == n - 1
           start == position + z
           p == TwoTo[z]
           suffix == BitValue(bytes, start + 1, z)
<1>0. Width \in Nat \ {0} /\ position \in Nat /\ Len(bytes) \in Nat /\ k \in Nat \ {0}
  BY BitReaderAssumption
<1>1. n \in 1..(Width + 1) /\ TwoTo[n - 1] <= k /\ k < TwoTo[n]
  <2> HIDE DEF k
  <2>1. Width + 1 \in 1..(Width + 2) /\ k < TwoTo[Width + 1]
    BY <1>0 DEF k
  <2>2. QED
    BY <1>0, <2>1, LengthExists
<1> HIDE DEF n
<1>2. /\ Len(UeCode(v)) = 2 * n - 1
      /\ \A i \in 1..(n - 1) : UeCode(v)[i] = 0
      /\ \A i \in 1..n : UeCode(v)[n - 1 + i] = Binary(k, n)[i]
  <2>1. n \in 1..(Width + 2)
    BY <1>0, <1>1
  <2>2. QED
    BY <2>1, UeCodeBits DEF n
<1>3. /\ z \in 0..Width /\ n = z + 1 /\ 2 * n - 1 = z + (z + 1)
      /\ start \in 0..Len(bytes) /\ start + 1 + z = position + Len(UeCode(v))
      /\ start + 1 + z <= Len(bytes)
  <2>1. position + (2 * n - 1) <= Len(bytes)
    BY <1>2 DEF StandsAt
  <2>2. QED
    BY <1>0, <1>1, <1>2, <2>1
<1>4. \A i \in 1..z : bytes[position + i] = 0
  <2>1. \A i \in 1..z : i \in 1..Len(UeCode(v)) /\ i \in 1..(n - 1)
    BY <1>1, <1>2
  <2>2. QED
    BY <1>2, <2>1 DEF StandsAt
<1>5. \A i \in 1..n : bytes[start + i] = Binary(k, n)[i]
  <2>1. SUFFICES ASSUME NEW i \in 1..n PROVE bytes[start + i] = Binary(k, n)[i]
    OBVIOUS
  <2>2. n - 1 + i \in 1..Len(UeCode(v)) /\ start + i = position + (n - 1 + i)
    BY <1>0, <1>1, <1>2
  <2>3. bytes[position + (n - 1 + i)] = UeCode(v)[n - 1 + i]
    BY <2>2 DEF StandsAt
  <2>4. UeCode(v)[n - 1 + i] = Binary(k, n)[i]
    BY <1>2
  <2>5. QED
    BY <2>2, <2>3, <2>4
<1>6. bytes[start + 1] = 1
  <2>1. 1 \in 1..n /\ n \in 1..(Width + 2)
    BY <1>0, <1>1
  <2>2. Binary(k, n)[1] = (k \div p) % 2
    BY <2>1 DEF Binary
  <2>3. p \in Nat \ {0} /\ TwoTo[n] = 2 * p
    BY <1>0, <1>3, <2>1, Powers
  <2>4. p <= k /\ k < 2 * p
    BY <1>1, <2>3
  <2> HIDE DEF p, k
  <2>5. k \div p = 1
    BY <1>0, <2>3, <2>4, SmallQuotients
  <2>6. bytes[start + 1] = Binary(k, n)[1]
    BY <1>5, <2>1
  <2>7. QED
    BY <2>2, <2>5, <2>6
<1>7. LeadingZeros(bytes, position) = z
  <2>1. z \in 0..BitsRemaining(bytes, position)
    BY <1>0, <1>3 DEF BitsRemaining
  <2>2. ASSUME NEW i \in (position + 1)..(position + z) PROVE bytes[i] = 0
    <3>1. i - position \in 1..z /\ position + (i - position) = i
      BY <1>0, <1>3
    <3>2. QED
      BY <1>4, <3>1
  <2>3. AreZeros(bytes, position, z)
    BY <1>6, <2>1, <2>2 DEF AreZeros
  <2>4. QED
    BY <2>3, ZerosAreCounted
<1>8. k = p + suffix
  <2>1. n \in 0..BitsRemaining(bytes, start) /\ n <= Width + 2 /\ start \in 0..Len(bytes)
    BY <1>0, <1>1, <1>3 DEF BitsRemaining
  <2> HIDE DEF start, k
  <2>2. BitValue(bytes, start, n) = k
    BY <1>0, <1>1, <1>5, <2>1, BinaryIsValue
  <2>3. start \in 0..(Len(bytes) - 1) /\ z \in Nat /\ start + 1 + z <= Len(bytes) /\ z <= Width + 1
    BY <1>0, <1>3
  <2> HIDE DEF z
  <2>4. BitValue(bytes, start, z + 1) = TwoTo[z] + BitValue(bytes, start + 1, z)
    BY <1>6, <2>3, LeadingOne
  <2>5. QED
    BY <1>3, <2>2, <2>4
<1>9. suffix \in Nat
  <2> DEFINE second == start + 1
  <2>1. start \in Nat /\ z \in Nat /\ start + 1 + z <= Len(bytes)
    BY <1>0, <1>3
  <2> HIDE DEF start, z
  <2>2. second \in 0..Len(bytes) /\ z \in 0..(Len(bytes) - second)
    BY <1>0, <2>1
  <2> HIDE DEF second
  <2>3. BitValue(bytes, second, z) \in Nat
    BY <2>2, BitValues DEF BitsRemaining
  <2>4. QED
    BY <2>3 DEF second
<1>10. ReadBits(bytes, z, start + 1) = Result(suffix, start + 1 + z)
  <2>1. ~ z > Width /\ ~ z > BitsRemaining(bytes, start + 1)
    BY <1>0, <1>3 DEF BitsRemaining
  <2> HIDE DEF z, start
  <2>2. QED
    BY <2>1 DEF ReadBits
<1>11. ~ z > Width /\ z # BitsRemaining(bytes, position)
  BY <1>0, <1>3 DEF BitsRemaining
<1>12. p - 1 + suffix = v
  <2>1. p \in Nat
    <3>1. z \in 0..(Width + 2)
      BY <1>0, <1>3
    <3> HIDE DEF z
    <3>2. QED
      BY <3>1, Powers
  <2> HIDE DEF p, suffix
  <2>2. QED
    BY <1>8, <1>9, <2>1
<1> HIDE DEF z, p, suffix
<1>13. ReadExpGolombCodeNum(bytes, position) = Result(p - 1 + suffix, start + 1 + z)
  BY <1>7, <1>10, <1>11 DEF ReadExpGolombCodeNum, Result, p
<1>14. QED
  BY <1>3, <1>12, <1>13

(* What read_exp_golomb_code_num returns without an error is the number    *)
(* whose code stands there; it never leaves the data.                      *)
LEMMA ReadIsCode ==
  ASSUME NEW bytes \in Seq(Bit), NEW position \in 0..Len(bytes)
  PROVE  LET read == ReadExpGolombCodeNum(bytes, position)
         IN  /\ read.position \in position..Len(bytes)
             /\ read.error = "none" =>
                  /\ read.value \in Nat /\ read.value + 1 < TwoTo[Width + 1]
                  /\ StandsAt(bytes, position, UeCode(read.value))
<1> DEFINE z == LeadingZeros(bytes, position)
           start == position + z
           p == TwoTo[z]
           suffix == BitValue(bytes, start + 1, z)
           read == ReadExpGolombCodeNum(bytes, position)
           part == ReadBits(bytes, z, start + 1)
<1>0. Width \in Nat \ {0} /\ position \in Nat /\ Len(bytes) \in Nat
  BY BitReaderAssumption
<1>1. AreZeros(bytes, position, z)
  BY ZerosAreCounted
<1>2. /\ z \in Nat /\ start \in position..Len(bytes)
      /\ (z = BitsRemaining(bytes, position) <=> start = Len(bytes))
      /\ (start < Len(bytes) => bytes[start + 1] = 1)
  <2> HIDE DEF z
  <2>1. /\ z \in Nat /\ start \in position..Len(bytes)
        /\ (z = BitsRemaining(bytes, position) <=> start = Len(bytes))
    BY <1>0, <1>1 DEF AreZeros, BitsRemaining
  <2>2. start < Len(bytes) => z < BitsRemaining(bytes, position)
    BY <1>0, <1>1, <2>1 DEF AreZeros, BitsRemaining
  <2>3. QED
    BY <1>1, <2>1, <2>2 DEF AreZeros
<1>3. read = IF z > Width THEN Failure("exp_golomb_overflow", position + Width + 1)
             ELSE IF start = Len(bytes) THEN Failure("unexpected_end_of_data", start)
             ELSE IF part.error # "none" THEN part
             ELSE Result(p - 1 + part.value, part.position)
  <2> HIDE DEF part
  <2>1. QED
    BY <1>2 DEF ReadExpGolombCodeNum, part
<1>4. \A n \in (position + 1)..(position + z) : bytes[n] = 0
  BY <1>1 DEF AreZeros
<1> HIDE DEF z, read, start
<1>5. start = position + z
  BY DEF start
<1>6. CASE z > Width
  <2>1. read.error = "exp_golomb_overflow" /\ read.position = position + Width + 1
    BY <1>3, <1>6 DEF Failure
  <2>2. position + Width + 1 \in position..Len(bytes)
    BY <1>0, <1>2, <1>5, <1>6
  <2>3. QED
    BY <2>1, <2>2 DEF read
<1>7. CASE ~ z > Width /\ start = Len(bytes)
  <2>1. read.error = "unexpected_end_of_data" /\ read.position = start
    BY <1>3, <1>7 DEF Failure
  <2>2. QED
    BY <1>2, <2>1 DEF read
<1>8. CASE ~ z > Width /\ start # Len(bytes) /\ z > BitsRemaining(bytes, start + 1)
  <2>1. part = Failure("unexpected_end_of_data", start + 1)
    BY <1>8 DEF ReadBits
  <2>2. read.error = "unexpected_end_of_data" /\ read.position = start + 1
    BY <1>3, <1>8, <2>1 DEF Failure
  <2>3. start + 1 \in position..Len(bytes)
    BY <1>0, <1>2, <1>8
  <2>4. QED
    BY <2>2, <2>3 DEF read
<1>9. CASE ~ z > Width /\ start # Len(bytes) /\ ~ z > BitsRemaining(bytes, start + 1)
  <2>1. part = Result(suffix, start + 1 + z)
    BY <1>9 DEF ReadBits
  <2>2. read.error = "none" /\ read.value = p - 1 + suffix /\ read.position = start + 1 + z
    BY <1>3, <1>9, <2>1 DEF Result
  <2> DEFINE n == z + 1
             k == BitValue(bytes, start, n)
  <2>3. /\ start < Len(bytes) /\ start + 1 + z <= Len(bytes) /\ z <= Width /\ start \in 0..(Len(bytes) - 1)
        /\ start + 1 \in 0..Len(bytes) /\ z \in 0..BitsRemaining(bytes, start + 1)
        /\ n \in 0..BitsRemaining(bytes, start) /\ n \in 1..(Width + 1) /\ n <= Width + 2
        /\ start \in 0..Len(bytes)
    BY <1>0, <1>2, <1>9 DEF BitsRemaining
  <2> HIDE DEF part
  <2>4. k = p + suffix
    BY <1>2, <2>3, LeadingOne, <1>0
  <2>5. suffix \in Nat /\ suffix < p
    <3> DEFINE second == start + 1
    <3>1. second \in 0..Len(bytes) /\ z \in 0..BitsRemaining(bytes, second) /\ z <= Width + 2
      BY <1>0, <1>2, <2>3
    <3> HIDE DEF second
    <3>2. BitValue(bytes, second, z) \in Nat /\ BitValue(bytes, second, z) < TwoTo[z]
      BY <3>1, BitValues, ValueFits
    <3>3. QED
      BY <3>2 DEF second
  <2>6. k \in Nat /\ k < TwoTo[n]
    BY <2>3, BitValues, ValueFits
  <2>7. p \in Nat \ {0} /\ TwoTo[n - 1] = p /\ n - 1 = z
    BY <1>0, <1>2, <2>3, Powers
  <2> HIDE DEF k, suffix, p
  <2>8. read.value = k - 1 /\ read.value \in Nat /\ read.value + 1 = k /\ TwoTo[n - 1] <= k
    BY <2>2, <2>4, <2>5, <2>6, <2>7
  <2>9. LengthOf(read.value + 1) = n
    BY <1>0, <2>3, <2>6, <2>8, LengthIs
  <2> DEFINE code == UeCode(read.value)
  <2>10. /\ Len(code) = 2 * n - 1
         /\ \A i \in 1..(n - 1) : code[i] = 0
         /\ \A i \in 1..n : code[n - 1 + i] = Binary(k, n)[i]
    <3>1. n \in 1..(Width + 2)
      BY <1>0, <2>3
    <3>2. QED
      BY <2>8, <2>9, <3>1, UeCodeBits
  <2>11. \A i \in 1..n : Binary(k, n)[i] = bytes[start + i]
    BY <2>3, ValueIsBinary DEF k
  <2> HIDE DEF code
  <2>12. ASSUME NEW i \in 1..Len(code) PROVE bytes[position + i] = code[i]
    <3>0. i \in 1..(2 * n - 1)
      BY <2>10
    <3>1. CASE i <= z
      <4>1. i \in 1..(n - 1) /\ position + i \in (position + 1)..(position + z)
        BY <1>0, <1>2, <2>7, <3>0, <3>1
      <4>2. QED
        BY <1>4, <2>10, <4>1
    <3>2. CASE i > z
      <4>1. i - z \in 1..n /\ n - 1 + (i - z) = i /\ start + (i - z) = position + i
        BY <1>0, <1>2, <1>5, <3>0, <3>2
      <4>2. QED
        BY <2>10, <2>11, <4>1
    <3>3. QED
      BY <1>2, <3>0, <3>1, <3>2
  <2>13. StandsAt(bytes, position, code)
    <3>1. position + Len(code) <= Len(bytes)
      BY <1>0, <1>2, <1>5, <2>3, <2>10
    <3>2. QED
      BY <2>12, <3>1 DEF StandsAt
  <2>14. k < TwoTo[Width + 1]
    <3> DEFINE a == TwoTo[n]
               b == TwoTo[Width + 1]
    <3>1. a \in Nat /\ b \in Nat /\ (n < Width + 1 => 2 * a <= b) /\ (n = Width + 1 => a = b)
      BY <1>0, <2>3, Powers
    <3> HIDE DEF a, b
    <3>2. a <= b
      BY <1>0, <2>3, <3>1
    <3>3. k < a
      BY <2>6 DEF a
    <3>4. QED
      BY <2>6, <3>1, <3>2, <3>3 DEF b
  <2>15. read.position \in position..Len(bytes)
    BY <1>0, <1>2, <2>2, <2>3
  <2>16. QED
    BY <2>8, <2>13, <2>14, <2>15 DEF read, code
<1>10. QED
  BY <1>6, <1>7, <1>8, <1>9

(* Only the code of a value of the result type is read as ue(v), and as    *)
(* this value.                                                             *)
LEMMA UeIsDecoded ==
  ASSUME NEW bytes \in Seq(Bit), NEW position \in 0..Len(bytes)
  PROVE  LET read == ReadUe(bytes, position)
         IN  /\ read.position \in position..Len(bytes)
             /\ \A v \in UeValues :
                  StandsAt(bytes, position, UeCode(v)) =>
                    read = Result(v, position + Len(UeCode(v)))
             /\ read.error = "none" =>
                  read.value \in UeValues /\ StandsAt(bytes, position, UeCode(read.value))
<1> DEFINE read == ReadUe(bytes, position)
           code_num == ReadExpGolombCodeNum(bytes, position)
           p == TwoTo[Width]
<1>1. p \in Nat \ {0} /\ TwoTo[Width + 1] = 2 * p
  <2>1. Width \in 0..(Width + 2) /\ Width + 1 \in 1..(Width + 2) /\ (Width + 1) - 1 = Width
    BY BitReaderAssumption
  <2>2. QED
    BY <2>1, Powers
<1>2. /\ code_num.position \in position..Len(bytes)
      /\ code_num.error = "none" =>
           code_num.value \in Nat /\ StandsAt(bytes, position, UeCode(code_num.value))
  BY ReadIsCode
<1>3. \A v \in Nat : v <= p - 1 /\ StandsAt(bytes, position, UeCode(v)) =>
        code_num = Result(v, position + Len(UeCode(v)))
  <2>1. SUFFICES ASSUME NEW v \in Nat, v <= p - 1, StandsAt(bytes, position, UeCode(v))
                 PROVE  code_num = Result(v, position + Len(UeCode(v)))
    OBVIOUS
  <2>2. v + 1 < TwoTo[Width + 1]
    <3> HIDE DEF p
    <3>1. v + 1 < 2 * p
      BY <1>1, <2>1
    <3>2. QED
      BY <1>1, <3>1
  <2>3. QED
    BY <2>1, <2>2, CodeIsRead
<1>4. read = IF code_num.error = "none" /\ code_num.value > p - 1
             THEN Failure("exp_golomb_overflow", code_num.position) ELSE code_num
  BY DEF ReadUe
<1>5. UeValues = 0..(p - 1)
  BY DEF UeValues
<1> HIDE DEF code_num, read, p
<1>6. read.position \in position..Len(bytes)
  BY <1>2, <1>4 DEF Failure
<1>7. ASSUME NEW v \in UeValues, StandsAt(bytes, position, UeCode(v))
      PROVE  read = Result(v, position + Len(UeCode(v)))
  <2>1. v \in Nat /\ v <= p - 1
    BY <1>1, <1>5
  <2>2. code_num = Result(v, position + Len(UeCode(v)))
    BY <1>3, <1>7, <2>1
  <2>3. ~ code_num.value > p - 1
    BY <1>1, <2>1, <2>2 DEF Result
  <2>4. QED
    BY <1>4, <2>2, <2>3
<1>8. ASSUME read.error = "none"
      PROVE  read.value \in UeValues /\ StandsAt(bytes, position, UeCode(read.value))
  <2>1. read = code_num /\ ~ (code_num.error = "none" /\ code_num.value > p - 1)
    BY <1>4, <1>8 DEF Failure
  <2>2. QED
    BY <1>1, <1>2, <1>5, <1>8, <2>1
<1>9. QED
  BY <1>6, <1>7, <1>8 DEF read

(* The same of se(v), down to the least value.                             *)
LEMMA SeIsDecoded ==
  ASSUME NEW bytes \in Seq(Bit), NEW position \in 0..Len(bytes)
  PROVE  LET read == ReadSe(bytes, position)
         IN  /\ read.position \in position..Len(bytes)
             /\ \A v \in SeValues :
                  StandsAt(bytes, position, SeCode(v)) =>
                    read = Result(v, position + Len(SeCode(v)))
             /\ read.error = "none" =>
                  read.value \in SeValues /\ StandsAt(bytes, position, SeCode(read.value))
<1> DEFINE read == ReadSe(bytes, position)
           code_num == ReadExpGolombCodeNum(bytes, position)
           p == TwoTo[Width - 1]
           odd == code_num.value % 2 = 1
           magnitude == (code_num.value + 1) \div 2
           signed == IF odd THEN magnitude ELSE -magnitude
<1>1. p \in Nat \ {0} /\ TwoTo[Width + 1] = 2 * (2 * p)
  <2>1. /\ Width - 1 \in 0..(Width + 2) /\ Width \in 1..(Width + 2)
        /\ Width + 1 \in 1..(Width + 2) /\ (Width + 1) - 1 = Width
    BY BitReaderAssumption
  <2>2. QED
    BY <2>1, Powers
<1>2. /\ code_num.position \in position..Len(bytes)
      /\ code_num.error = "none" =>
           code_num.value \in Nat /\ StandsAt(bytes, position, UeCode(code_num.value))
  BY ReadIsCode
<1>3. \A k \in Nat : k <= 2 * p /\ StandsAt(bytes, position, UeCode(k)) =>
        code_num = Result(k, position + Len(UeCode(k)))
  <2>1. SUFFICES ASSUME NEW k \in Nat, k <= 2 * p, StandsAt(bytes, position, UeCode(k))
                 PROVE  code_num = Result(k, position + Len(UeCode(k)))
    OBVIOUS
  <2>2. k + 1 < TwoTo[Width + 1]
    <3> HIDE DEF p
    <3>1. k + 1 < 2 * (2 * p)
      BY <1>1, <2>1
    <3>2. QED
      BY <1>1, <3>1
  <2>3. QED
    BY <2>1, <2>2, CodeIsRead
<1>4. read = IF code_num.error # "none" THEN code_num
             ELSE IF magnitude > (IF odd THEN p - 1 ELSE p)
             THEN Failure("exp_golomb_overflow", code_num.position)
             ELSE Result(signed, code_num.position)
  BY DEF ReadSe
<1>5. SeValues = (-p)..(p - 1)
  BY DEF SeValues
<1> HIDE DEF code_num, read, p
<1>6. read.position \in position..Len(bytes)
  <2> HIDE DEF odd, magnitude, signed
  <2>1. read.position = code_num.position
    BY <1>4 DEF Failure, Result
  <2>2. QED
    BY <1>2, <2>1
<1>7. ASSUME NEW v \in SeValues, StandsAt(bytes, position, SeCode(v))
      PROVE  read = Result(v, position + Len(SeCode(v)))
  <2> DEFINE k == IF v > 0 THEN 2 * v - 1 ELSE -2 * v
  <2>1. v \in Int /\ v <= p - 1 /\ -p <= v
    BY <1>1, <1>5
  <2>2. k \in Nat /\ k <= 2 * p
    BY <1>1, <2>1
  <2>3. SeCode(v) = UeCode(k)
    BY DEF SeCode
  <2>4. code_num = Result(k, position + Len(SeCode(v)))
    <3> HIDE DEF k
    <3>1. QED
      BY <1>3, <1>7, <2>2, <2>3
  <2>5. code_num.error = "none" /\ code_num.value = k /\ code_num.position = position + Len(SeCode(v))
    BY <2>4 DEF Result
  <2>6. (odd <=> v > 0) /\ magnitude = IF v > 0 THEN v ELSE -v
    <3>1. CASE v > 0
      <4>1. (2 * v - 1) % 2 = 1 /\ ((2 * v - 1) + 1) \div 2 = v
        BY <2>1
      <4>2. QED
        BY <2>5, <3>1, <4>1
    <3>2. CASE ~ v > 0
      <4> DEFINE w == -v
      <4>1. w \in Nat /\ -2 * v = 2 * w
        BY <2>1, <3>2
      <4> HIDE DEF w
      <4>2. (2 * w) % 2 = 0 /\ (2 * w + 1) \div 2 = w
        BY <4>1
      <4>3. code_num.value = 2 * w
        BY <2>5, <3>2, <4>1
      <4>4. QED
        BY <3>2, <4>2, <4>3 DEF w
    <3>3. QED
      BY <3>1, <3>2
  <2>7. signed = v /\ ~ magnitude > (IF odd THEN p - 1 ELSE p)
    <3> HIDE DEF magnitude, odd
    <3>1. signed = v
      BY <2>1, <2>6
    <3>2. ~ magnitude > (IF odd THEN p - 1 ELSE p)
      BY <1>1, <2>1, <2>6
    <3>3. QED
      BY <3>1, <3>2
  <2> HIDE DEF odd, magnitude, signed
  <2>8. QED
    BY <1>4, <2>5, <2>7
<1>8. ASSUME read.error = "none"
      PROVE  read.value \in SeValues /\ StandsAt(bytes, position, SeCode(read.value))
  <2> HIDE DEF odd, magnitude, signed
  <2>1. code_num.error = "none"
    BY <1>4, <1>8
  <2>2. ~ magnitude > (IF odd THEN p - 1 ELSE p)
    BY <1>4, <1>8, <2>1 DEF Failure
  <2>3. read.value = signed
    BY <1>4, <2>1, <2>2 DEF Result
  <2> DEFINE k == code_num.value
  <2>4. k \in Nat /\ StandsAt(bytes, position, UeCode(k))
    BY <1>2, <2>1
  <2> HIDE DEF k
  <2>5. (odd <=> k % 2 = 1) /\ magnitude = (k + 1) \div 2
    BY DEF odd, magnitude, k
  <2>6. signed \in SeValues /\ k = IF signed > 0 THEN 2 * signed - 1 ELSE -2 * signed
    <3>1. CASE odd
      <4>1. k = 2 * magnitude - 1 /\ magnitude \in Nat \ {0} /\ magnitude <= p - 1 /\ signed = magnitude
        BY <1>1, <2>2, <2>4, <2>5, <3>1 DEF signed
      <4>2. QED
        BY <1>1, <1>5, <4>1
    <3>2. CASE ~ odd
      <4>1. k = 2 * magnitude /\ magnitude \in Nat /\ magnitude <= p /\ signed = -magnitude
        BY <1>1, <2>2, <2>4, <2>5, <3>2 DEF signed
      <4>2. QED
        BY <1>1, <1>5, <4>1
    <3>3. QED
      BY <3>1, <3>2
  <2>7. SeCode(signed) = UeCode(k)
    BY <2>6 DEF SeCode
  <2>8. QED
    BY <2>3, <2>4, <2>6, <2>7
<1>9. QED
  BY <1>6, <1>7, <1>8 DEF read

-----------------------------------------------------------------------------
(* The last read is that of its kind where the one before it had stopped.  *)
BitsInv ==
  /\ bits \in Seq(Bit)
  /\ last.from \in 0..Len(bits)
  /\ bit_position = last.result.position
  /\ bit_position \in last.from..Len(bits)
  /\ last.read = "bits" =>
       last.count \in Nat /\ last.result = ReadBits(bits, last.count, last.from)
  /\ last.read = "ue" => last.result = ReadUe(bits, last.from)
  /\ last.read = "se" => last.result = ReadSe(bits, last.from)

(* read_bits stays in the data.                                            *)
LEMMA BitsAreInside ==
  ASSUME NEW bytes \in Seq(Bit), NEW position \in 0..Len(bytes), NEW count \in Nat
  PROVE  ReadBits(bytes, count, position).position \in position..Len(bytes)
<1>1. CASE ~ count > Width /\ ~ count > BitsRemaining(bytes, position)
  <2>1. ReadBits(bytes, count, position).position = position + count
    BY <1>1 DEF ReadBits, Result
  <2>2. QED
    BY <1>1, <2>1 DEF BitsRemaining
<1>2. CASE count > Width \/ count > BitsRemaining(bytes, position)
  <2>1. ReadBits(bytes, count, position).position = position
    BY <1>2 DEF ReadBits, Failure
  <2>2. QED
    BY <2>1
<1>3. QED
  BY <1>1, <1>2

(* For every bit string and every sequence of reads: each read starts      *)
(* where the one before it had stopped, and none leaves the data.          *)
THEOREM BitsInvariance == Spec => []BitsInv
<1>1. Init => BitsInv
  <2>1. ASSUME NEW bytes \in Seq(Bit), BitReaderInit(bytes) PROVE BitsInv
    <3>1. last = [read |-> "none", count |-> 0, from |-> 0, reads |-> 0,
                  result |-> Result(0, 0)] /\ bits = bytes /\ bit_position = 0
      BY <2>1 DEF BitReaderInit
    <3>2. QED
      BY <3>1 DEF BitsInv, Result
  <2>2. NoBits \in Seq(Bit)
    BY DEF NoBits
  <2>3. \A bytes \in Rbsp : bytes \in Seq(Bit)
    BY DEF Rbsp
  <2>4. QED
    BY <2>1, <2>2, <2>3 DEF Init
<1>2. BitsInv /\ [Next]_<<subject, byteStreamVars, bitReaderVars, rtpHeaderVars, syntaxVars>>
        => BitsInv'
  <2> SUFFICES ASSUME BitsInv,
                      [Next]_<<subject, byteStreamVars, bitReaderVars, rtpHeaderVars, syntaxVars>>
               PROVE  BitsInv'
    OBVIOUS
  <2>1. bits \in Seq(Bit) /\ bit_position \in 0..Len(bits)
    BY DEF BitsInv
  <2>2. ASSUME NEW count \in 0..(Width + 1), Read("bits", count, ReadBits(bits, count, bit_position))
        PROVE  BitsInv'
    <3>1. count \in Nat /\ ReadBits(bits, count, bit_position).position \in bit_position..Len(bits)
      BY <2>1, BitReaderAssumption, BitsAreInside
    <3>2. QED
      BY <2>1, <2>2, <3>1 DEF BitsInv, Read
  <2>3. CASE Read("ue", 0, ReadUe(bits, bit_position))
    <3>1. ReadUe(bits, bit_position).position \in bit_position..Len(bits)
      BY <2>1, UeIsDecoded
    <3>2. QED
      BY <2>1, <2>3, <3>1 DEF BitsInv, Read
  <2>4. CASE Read("se", 0, ReadSe(bits, bit_position))
    <3>1. ReadSe(bits, bit_position).position \in bit_position..Len(bits)
      BY <2>1, SeIsDecoded
    <3>2. QED
      BY <2>1, <2>4, <3>1 DEF BitsInv, Read
  <2>5. CASE UNCHANGED bitReaderVars
    BY <2>5 DEF BitsInv, bitReaderVars
  <2>6. BitReaderNext \/ UNCHANGED bitReaderVars
    BY DEF Next, WriteFile, ReadBitString, ParseHeader, ParseSyntax
  <2>7. QED
    BY <2>2, <2>3, <2>4, <2>5, <2>6 DEF BitReaderNext
<1>3. QED
  BY <1>1, <1>2, PTL DEF Spec

(* The rest of the data starts with a code where the code stands.          *)
LEMMA StartsWhereItStands ==
  ASSUME bits \in Seq(Bit), last.from \in 0..Len(bits), NEW code \in Seq(Int)
  PROVE  StartsWith(code) <=> StandsAt(bits, last.from, code)
<1> DEFINE from == last.from
           start == SubSeq(Rest, 1, Len(code))
<1>1. Rest \in Seq(Bit) /\ Len(Rest) = Len(bits) - from
  BY DEF Rest
<1>2. \A i \in 1..Len(Rest) : Rest[i] = bits[from + i]
  BY DEF Rest
<1>3. Len(code) <= Len(Rest) <=> from + Len(code) <= Len(bits)
  BY <1>1
<1> HIDE DEF from
<1>4. ASSUME Len(code) <= Len(Rest)
      PROVE  start = code <=> \A i \in 1..Len(code) : bits[from + i] = code[i]
  <2>1. start \in Seq(Bit) /\ Len(start) = Len(code)
    BY <1>1, <1>4
  <2>2. \A i \in 1..Len(code) : start[i] = Rest[i] /\ Rest[i] = bits[from + i]
    BY <1>1, <1>2, <1>4
  <2> HIDE DEF start
  <2>3. ASSUME \A i \in 1..Len(code) : start[i] = code[i] PROVE start = code
    BY <2>1, <2>3
  <2>4. QED
    BY <2>2, <2>3
<1>5. QED
  BY <1>3, <1>4 DEF StartsWith, StandsAt, from

(* For every bit string, every width and every sequence of reads: ue(v),   *)
(* se(v) and u(n) return what was written, and reject all other bits.      *)
THEOREM ElementsAreReadAsWritten == Spec => []ReadsWhatWasWritten
<1>1. BitsInv => ReadsWhatWasWritten
  <2> SUFFICES ASSUME BitsInv PROVE ReadsWhatWasWritten
    OBVIOUS
  <2>1. bits \in Seq(Bit) /\ last.from \in 0..Len(bits)
    BY DEF BitsInv
  <2>2. bit_position = last.result.position /\ bit_position \in last.from..Len(bits)
    BY DEF BitsInv
  <2>3. \A v \in Nat : v < TwoTo[Width + 1] - 1 => UeCode(v) \in Seq(Int)
    <3>1. SUFFICES ASSUME NEW v \in Nat, v < TwoTo[Width + 1] - 1 PROVE UeCode(v) \in Seq(Int)
      OBVIOUS
    <3> DEFINE k == v + 1
               m == Width + 1
    <3>2. k \in Nat \ {0} /\ m \in 1..(Width + 2) /\ TwoTo[m] \in Nat
      BY BitReaderAssumption, Powers
    <3>3. k < TwoTo[m]
      BY <3>1, <3>2
    <3> HIDE DEF m, k
    <3>4. LengthOf(k) \in 1..m
      BY <3>2, <3>3, LengthExists
    <3>5. LengthOf(v + 1) \in 1..(Width + 2)
      BY <3>4, BitReaderAssumption DEF m, k
    <3>6. QED
      BY <3>5, UeCodeBits
  <2> DEFINE p == TwoTo[Width - 1]
  <2>4. p \in Nat \ {0} /\ TwoTo[Width] = 2 * p /\ TwoTo[Width + 1] = 2 * (2 * p)
    <3>1. /\ Width - 1 \in 0..(Width + 2) /\ Width \in 1..(Width + 2)
          /\ Width + 1 \in 1..(Width + 2) /\ (Width + 1) - 1 = Width
      BY BitReaderAssumption
    <3>2. QED
      BY <3>1, Powers
  <2>5. UeValues = 0..(2 * p - 1) /\ SeValues = (-p)..(p - 1)
    BY <2>4 DEF UeValues, SeValues
  <2> HIDE DEF p
  <2>6. \A v \in UeValues : UeCode(v) \in Seq(Int)
    <3>1. \A v \in UeValues : v \in Nat /\ v < 2 * (2 * p) - 1
      BY <2>4, <2>5
    <3>2. QED
      BY <2>3, <2>4, <3>1
  <2>7. \A v \in SeValues : SeCode(v) \in Seq(Int)
    <3>1. SUFFICES ASSUME NEW v \in SeValues PROVE SeCode(v) \in Seq(Int)
      OBVIOUS
    <3> DEFINE k == IF v > 0 THEN 2 * v - 1 ELSE -2 * v
    <3>2. k \in Nat /\ k < 2 * (2 * p) - 1
      BY <2>4, <2>5
    <3> HIDE DEF k
    <3>3. UeCode(k) \in Seq(Int)
      BY <2>3, <2>4, <3>2
    <3>4. QED
      BY <3>3 DEF SeCode, k
  <2>8. ASSUME last.read = "ue"
        PROVE  /\ \A v \in UeValues :
                    StartsWith(UeCode(v)) =>
                      /\ last.result.error = "none" /\ last.result.value = v
                      /\ bit_position = last.from + Len(UeCode(v))
               /\ last.result.error = "none" =>
                    last.result.value \in UeValues /\ StartsWith(UeCode(last.result.value))
    <3>1. last.result = ReadUe(bits, last.from)
      BY <2>8 DEF BitsInv
    <3>2. \A v \in UeValues : StartsWith(UeCode(v)) <=> StandsAt(bits, last.from, UeCode(v))
      BY <2>1, <2>6, StartsWhereItStands
    <3>3. QED
      BY <2>1, <2>2, <3>1, <3>2, UeIsDecoded DEF Result
  <2>9. ASSUME last.read = "se"
        PROVE  /\ \A v \in SeValues :
                    StartsWith(SeCode(v)) =>
                      /\ last.result.error = "none" /\ last.result.value = v
                      /\ bit_position = last.from + Len(SeCode(v))
               /\ last.result.error = "none" =>
                    last.result.value \in SeValues /\ StartsWith(SeCode(last.result.value))
    <3>1. last.result = ReadSe(bits, last.from)
      BY <2>9 DEF BitsInv
    <3>2. \A v \in SeValues : StartsWith(SeCode(v)) <=> StandsAt(bits, last.from, SeCode(v))
      BY <2>1, <2>7, StartsWhereItStands
    <3>3. QED
      BY <2>1, <2>2, <3>1, <3>2, SeIsDecoded DEF Result
  <2>10. ASSUME last.read = "bits", last.result.error = "none"
         PROVE  SubSeq(Rest, 1, last.count) = Binary(last.result.value, last.count)
    <3> DEFINE count == last.count
               from == last.from
               value == BitValue(bits, from, count)
               digits == Binary(value, count)
               start == SubSeq(Rest, 1, count)
    <3>1. count \in Nat /\ last.result = ReadBits(bits, count, from)
      BY <2>10 DEF BitsInv
    <3>2. ~ count > Width /\ ~ count > BitsRemaining(bits, from) /\ last.result.value = value
      BY <2>10, <3>1 DEF ReadBits, Result, Failure
    <3>3. count \in 0..BitsRemaining(bits, from) /\ count <= Width + 2
      BY <2>1, <3>1, <3>2, BitReaderAssumption DEF BitsRemaining
    <3>4. \A i \in 1..count : digits[i] = bits[from + i]
      BY <2>1, <3>3, ValueIsBinary
    <3>5. digits = [i \in 1..count |-> digits[i]]
      BY DEF Binary
    <3>6. Rest \in Seq(Bit) /\ count <= Len(Rest) /\ \A i \in 1..Len(Rest) : Rest[i] = bits[from + i]
      BY <2>1, <3>1, <3>2 DEF Rest, BitsRemaining
    <3> HIDE DEF digits, count, from
    <3>7. start = [i \in 1..count |-> start[i]] /\ \A i \in 1..count : start[i] = bits[from + i]
      BY <3>1, <3>6
    <3> HIDE DEF start, value
    <3>8. start = digits
      BY <3>4, <3>5, <3>7
    <3>9. QED
      BY <3>2, <3>8 DEF start, digits, count
  <2>11. QED
    BY <2>2, <2>8, <2>9, <2>10 DEF ReadsWhatWasWritten
<1>2. QED
  BY <1>1, BitsInvariance, PTL
=============================================================================
