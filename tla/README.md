# SemiStreamProbe in TLA+

SemiStreamProbe inspects H.264 files and listens to H.264 over RTP and UDP. It
reports what the stream contains and what the transport did to it. This
directory holds TLA+ models of its analysis core and of its listener, TLC
configurations that check them on small instances, and TLAPS proofs, for all
values of the parameters, about the RTP session analyzer, its delivery, the
H.264 RTP layer above it, the NAL units and the report of a whole session, the
H.264 stream model with its GOP statistics, the listener, and the parsers of
bytes and bits below them all. Paths below are relative to the
repository; `PROJECT.json` maps every definition to the lines it models.

    tlc -config <name>.cfg <module>.tla      a run, as listed under "Runs"
    tlapm <module>Proofs.tla                 the proofs about a module

## 1. The system

| Component | State it keeps | Operations |
|---|---|---|
| RTP packet parser, `src/core/rtp.cpp` | none | `parse_rtp_packet` |
| RTP session analyzer, `src/core/rtp_stream_analyzer.cpp` | statistics; SSRC; base and highest extended number; a table from each 16-bit number to the extended number last seen under it; jitter; diagnostics | `push` |
| FU-A reassembler, `src/core/h264_rtp.cpp` | the NAL unit being collected, the next number expected | `push`, `reset` |
| H.264 RTP stream analyzer, `src/core/h264_rtp_stream_analyzer.cpp` | the three components it owns; reassembly statistics; diagnostics | `push`, `finish` |
| H.264 stream model, `src/core/h264_stream_model.cpp`, `parameter_sets.cpp` | active SPS and PPS, counters, access units, diagnostics | `push`, `finish` |
| Access units, GOP, `src/core/access_unit.cpp`, `gop.cpp` | current picture; NAL units waiting for the next one | `push`, `finish`; `analyze_gop` |
| inspect, `src/application/inspect.cpp` | the results of its passes over a file | `inspect_file` |
| Annex-B, RBSP, bits, `src/core/annex_b.cpp`, `rbsp.cpp`, `bit_reader.cpp` | bit position | `scan_annex_b`, `ebsp_to_rbsp`, `read_bits`, `read_ue`, `read_se` |
| SPS, PPS, slice syntax, `src/core/h264_syntax.cpp`, `slice.cpp` | none | `parse_sps`, `parse_pps`, `parse_slice_header` |
| UDP receiver, `src/infrastructure/udp_receiver.cpp` | a socket | `bind`, `receive`, `close` |
| Listener, `src/application/listen.cpp` | clock readings, the end of the analysis | `listen_udp_h264` |
| Report, `src/application/rtp_analysis.cpp`, `report.cpp` | none | mapping and rendering |
| Command line, `src/cli/main.cpp` | the stop flag | options, signal handler |
| Demo sender `tools/rtp_demo.cpp`, fuzz target `fuzz/` | | test tools |

How they interact: the listener's thread calls `receive` and hands each datagram
to the H.264 RTP stream analyzer. This calls the RTP session analyzer; only a
packet with the disposition *accepted* goes on to the payload formats and the
reassembler, and every complete NAL unit goes on to the stream model, which
reads parameter sets and slices and feeds the access-unit assembler. `inspect`
gets the same facts from a file, with the whole file in view. The signal handler
communicates with the listener through one flag. There are no other threads.

What is hard:

- *The network.* Packets are lost, repeated, delayed, reordered and foreign.
  Two layers (session analyzer, reassembler) keep a sequence number each.
- *Modular arithmetic.* Sequence numbers and timestamps wrap; the table of the
  session analyzer is shared by all turns of a number; the loss and several
  sizes are unsigned subtractions.
- *Diagnostics must add up.* A gap is reported when it opens, and may close
  later. No way out of `push` or `finish` may drop a NAL unit silently or
  count it twice.
- *Parameter sets change* under the slices that need them, and the two entries
  (stream, file) resolve them differently.
- *The loop of the listener* polls a flag, a clock and a socket.

What makes each component correct is stated by the properties in section 3;
`hazards` in `PROJECT.json` lists what can go wrong, line by line, with the
properties that would show it.

## 2. The modules

**`RtpReception`** is the abstract specification of the session analyzer:
packets have unbounded numbers, a set remembers those received, the loss is the
size of what is missing. **`RtpStreamAnalyzer`** is the detailed one, one action
per way through `push` (`PushInvalid`, `PushUnexpectedPayloadType`,
`PushUnexpectedSsrc`, `PushFirst`, `PushAhead`, `PushDuplicate`, `PushLate`), with
the forward and backward distances modulo `SequenceModulus`, the table
`seen_extended_sequences`, the clamped loss and the jitter with its denominator.
History variables record which extended numbers arrived. `Reception` maps it to
the abstract one. **`RtpDelivery`** composes it with a sender and a network.

**`H264Rtp`** has the payload formats and `Reassemble`, the function from a
packet and the active NAL unit to the next one and an outcome.
**`H264FuAReassembler`** drives it through its public interface.
**`H264RtpStreamAnalyzer`** extends `RtpStreamAnalyzer`, so that a push is one
step of both layers, as one call is in the code. **`H264Delivery`** composes it
with a sender of aggregated, single and fragmented NAL units, a network, and the
end of the session. **`H264Session`** adds an instance of `H264StreamModel`, fed with
the NAL units of a push one after the other (`AppendCompleteNal`, nothing else
happens in between), stray datagrams, `finish` of both, and the status of the
report (`ReportStatus`). What the report should say is defined by what the
sender sent and the network delivered.

**`AccessUnits`** holds the assembler and the GOP statistics as operators,
**`H264StreamModel`** the stream model with an action per kind of NAL unit,
**`InspectFile`** the passes of `inspect_file` as a function of the NAL units, to
be compared with the stream model on the same input. A slice or a PPS is a
function from what its reading depends on to what is read, so that reading it with
the wrong parameter set is visible: for a PPS the chroma format of its SPS, for a
slice the formats of its SPS and of its PPS.

**`UdpListener`** is the listener's loop and the receiver, between clock readings,
select, recv and the decision to end; traffic, signal, clock and failures are
actions of the environment. **`RtpHeader`**, **`ByteStream`** and **`BitReader`** are
the pure algorithms on bytes and bits with a writer as their reference: an RTP
layout, an Annex-B muxer with emulation prevention, the codes of ue(v) and se(v).

**`SyntaxElements`**, **`ParameterSetSyntax`** and **`SliceSyntax`** are `parse_sps`,
`parse_pps` and `parse_slice_header`, element by element. An RBSP is the sequence
of the elements written into it; `BitReader` shows what their bits are. An
element that is asked for by another code, or in another width, than it was
written in is *desynchronized*: the parser has lost its place, and no property
allows that. The reference is a writer that follows the syntax tables of H.264
(`SpsElements`, `PpsElements`, `SliceElements`) and the ranges the parsers allow, which
are those of its semantics or, where section 6 says so, wider
(`IsLegalSps`, `IsLegalPps`, `IsLegalSlice`), with a record that has a value for every
field. **`SyntaxStreams`** writes an SPS, a PPS and a slice and parses them with the
look-ups of the stream model. **`Parsers`** lets a run choose one of these four
subjects.

**`RtpStreamAnalyzerProofs`**, **`RtpDeliveryProofs`**,
**`H264FuAReassemblerProofs`**, **`H264SessionProofs`**, **`H264StreamModelProofs`**,
**`UdpListenerProofs`** and **`ParsersProofs`** hold the theorems about the modules they
are named for (`H264SessionProofs` also those of `H264RtpStreamAnalyzer` and
`H264Delivery`, `H264StreamModelProofs` those of `AccessUnits` and `InspectFile`, `ParsersProofs` those of
`RtpHeader`, `ByteStream` and `BitReader`), and
**`SequenceArithmetic`** the lemmas on remainders and natural numbers they share.
The modules `MC...` only give constants their values.

Conventions: names are the source's names. Texts of diagnostics and formatting
are left out. A definition under a comment `Mutation: ...` is not part of the
model: it has the shape of the definition that follows it and one plausible
bug, and a run with the mutation put in its place must break the property that
`PROJECT.json` names.

## 3. The runs

| Run | Question | Bounds |
|---|---|---|
| `RtpStreamAnalyzer` | Any datagrams in any order: are loss, duplicates, gaps and the SSRC lock exact, does the detailed analyzer implement the abstract one, and is the invariant of the proof true? | 8 numbers, 6 datagrams, a second payload type and SSRC |
| `RtpDelivery` | Is the report the truth about what a sender sent, through wraps and a bad network? | 8 numbers, 9 packets sent, 5 arrivals, delays up to 3 |
| `H264FuAReassembler` | Does it ever join what does not belong together? | runs of 4 fragments, NAL units of 4 bytes, `size_t` of 3 bits |
| `H264RtpStreamAnalyzer` | Every payload kind in any order: do statistics and diagnostics account for every NAL unit? | 6 numbers, 4 datagrams, 12 payloads |
| `H264Session` | Do NAL units come out whole, in order, and exactly when they can? Are the access units the sender's pictures, and is the report *complete* exactly when nothing is missing? | 8 packets, displaced by up to 3, 2 lost in a row, numbers wrap at 8; 9 arrivals, one stray datagram; 3 pictures |
| `H264StreamModel` | Does every NAL unit get into one, the right, access unit, and do the GOP statistics say what these are? | 6 of 10 kinds of NAL units |
| `InspectFile` | Do file and stream analysis agree? | 5 of 13 kinds of NAL units, two SPS ids, a PPS sent again with another format |
| `UdpListener` | Does the listener end when it should and not before, and clean up? | 10 ticks, 2 addresses, a buffer of 2 datagrams |
| `Parsers` | Is the scan the inverse of the muxer, and do errors point at their byte? Are exactly the codes within the result type read, and exactly the RFC's packets accepted? Are parameter sets and slice headers read back field by field, and exactly those within the parsers' limits? | files of two NAL units whose RBSPs have up to 5 bytes together; all strings of 9 bits, results of 3 bits, 2 reads; packets of every size up to 42 bytes, `size_t` of 6 bits; streams that vary a few fields at a time, values of 18 bits, 5 frames in a cycle, 4 map units, 3 memory management operations |
| `RtpSeenAgain`, `InspectLatePps`, `UdpListenerOverflow` | Violations, section 4 | |

Why the bounds are enough. With 6 or 8 sequence numbers a run of 4 to 6
datagrams, each up to half the circle ahead, wraps several times and meets every
slot again from another turn; the proofs cover all other moduli and lengths. In
`H264RtpStreamAnalyzer`, four datagrams open, extend, break and reopen a NAL unit,
and in `H264Session` a fragmented IDR NAL unit spans the wrap, with packets of one
and of two NAL units before it, and the two pictures after it have the same
`frame_num`. Widths of 3 and 6 bits put the limits of the
integer types within reach of the inputs. Six NAL units hold two pictures with prefix NAL units between and
two slices each. `BitReader` has strings with more zeros than any code. The fields of
a parameter set or slice header are independent but for the conditions between
them, so `MCParsers` varies the fields that meet in a condition together, from one
below to one above each limit, and keeps the others fixed: every branch of the
three parsers is taken, and each limit is passed by one. Values of 18 bits let
`idr_pic_id`, limited to 16 bits, exceed its limit; the limits of 255 frames in a cycle, 2^20
map units and 64 operations are constants of the modules and small in the run.

`PushPacket` never blocks and the sequential components have no liveness of
their own; a run stops where its bound is reached, so deadlock is not checked
there. In `UdpListener` the end of the loop is the end of the system.

*Fairness.* `UdpListener!Spec` asks for `WF_vars(Step)`, the operating system runs
the thread, and `WF_vars(Tick)`, time passes. `Step` contains no failure, and
neither the signal nor the traffic is fair: nothing forces a datagram to arrive
or to pause. `StopEndsListening` therefore rests on the 200 ms poll (a signal
between the test of the flag and select does not interrupt it) and on the
return to the top of the loop after each datagram.

## 4. Findings

- *A repeated packet from before the first one is not a duplicate.*
  `docs/report-contract.md:244` says it is. The code does not remember numbers below
  the first one (`src/core/rtp_stream_analyzer.cpp:186`) and counts such a packet as
  out of order each time. Run `RtpSeenAgain`.
- *File and stream disagree about a PPS that comes before its SPS.* inspect reads it
  with the SPS that follows, the stream model drops it with an error
  (`docs/roadmap.md:146` wants consistent results). Run `InspectLatePps`.
- *A huge `--duration` ends at once*: the option is accepted up to 2^63 ms, but the
  comparison is made in nanoseconds. Run `UdpListenerOverflow`.

## 5. The proofs

Every theorem holds for all values of the constants that satisfy the named
assumptions of its module; TLC evaluates these on every run.

| Theorem | Statement |
|---|---|
| **`RtpStreamAnalyzerProofs`** | |
| `Invariance`, `TypeCorrectness` | `Spec => []IInv`, `Spec => []TypeOK` |
| `LossCountCorrect` | `Spec => []LossCountIsExact` |
| `GapsCorrect` | `Spec => []GapsExplainLoss` |
| `MemoryCorrect` | `Spec => []MemoryIsNewest` |
| `DatagramsExplained` | `Spec => []EveryDatagramIsExplained` |
| `SsrcLocked` | `Spec => SsrcIsLockedByFirstPacket` |
| `Refinement` | `Spec => ImplementsReception` |
| **`RtpDeliveryProofs`** | |
| `DeliveryInvariance` | `DeliverySpec => []DeliveryInv` |
| `ReportCorrect` | `DeliverySpec => []ReportIsTruth` |
| `JitterCorrect` | `DeliverySpec => []JitterWithinDelayVariation` |
| **`H264FuAReassemblerProofs`** | |
| `RunInvariance` | `Spec => []RunInv` |
| `ActiveCorrect` | `Spec => []ActiveIsOneRun` |
| `CompletedCorrect` | `Spec => []CompletedIsOneRun` |
| **`H264SessionProofs`** | |
| `H264Invariance`, `H264TypeCorrectness` | `H264Spec => []H264Inv`, `H264Spec => []H264TypeOK` |
| `LayersAgree` | `H264Spec => []ActiveFollowsHighest` |
| `FuAccountingCorrect` | `H264Spec => []FuAccounting` |
| `FailuresDiagnosed` | `H264Spec => []FailuresAreDiagnosed` |
| `FuGapsAreRtpGaps` | `H264Spec => FuGapIsRtpGap` |
| `NothingDropsSilently` | `H264Spec => NoSilentDrop` |
| `SessionInvariance` | `SessionSpec => []SessionInv` |
| `NalsComeWholeAndInOrder` | `SessionSpec => []WholeNalsInOrder` |
| `NothingIsGivenUpInVain` | `SessionSpec => []ReceivedIffAccepted` |
| `IncompleteCountIsExact` | `SessionSpec => []IncompleteIsTruth` |
| `ReportInvariance` | `SessionSpec => []ReportInv` |
| `ReportStatusCorrect` | `SessionSpec => []ReportStatusIsTruth` |
| **`H264StreamModelProofs`** | |
| `StreamInvariance` | `Spec => []StreamInv` |
| `NalPlacesCorrect` | `Spec => []EveryNalHasOnePlace` |
| `PicturesCorrect` | `Spec => []AccessUnitsArePictures` |
| `GopCorrect` | `Spec => []GopIsConsistent` |
| `StreamsAgreeWithFiles` | `Spec => []CleanStreamsAgree` |
| **`UdpListenerProofs`** | |
| `ListenerInvariance`, `ListenerTypeCorrectness` | `Spec => []ListenerInv`, `Spec => []TypeOK` |
| `SocketsClosed` | `Spec => []SocketsAreClosed` |
| `StopIsPrompt` | `Spec => []AtMostOneAfterStop` |
| `DurationCovered` | `DurationsFit => (Spec => []ReportCoversDuration)` |
| **`ParsersProofs`** | |
| `HeaderInvariance` | `Spec => []HeaderInv` |
| `HeadersAreRfc3550` | `Spec => []AcceptsRfcPackets` |
| `FileInvariance` | `Spec => []FileInv` |
| `RbspsAreRecovered` | `Spec => []RbspIsRecovered` |
| `PositionsAreSources` | `Spec => []ErrorsPointAtSource` |
| `UnitsAreFound` | `Spec => []ScanFindsNals` |
| `BitsInvariance` | `Spec => []BitsInv` |
| `ElementsAreReadAsWritten` | `Spec => []ReadsWhatWasWritten` |

### The session analyzer

Assumed (`ConstantsAssumption`): an even `SequenceModulus` of at least 4; any sets
of payload types, SSRCs and timestamps, any clock rate, any number of datagrams.

The properties are not inductive. That `unique_packets_received` is the number of
distinct packets depends on the table recognizing every repetition, and this on
two facts about the table: an entry is a number that really arrived
(`MemoryIsSound`), and for every number that arrived, the entry of its slot is this
number or one of a later turn (`MemoryIsComplete`). From these, with the order of base, highest
and arrived numbers (`NumbersAreOrdered`) and the counters as cardinalities
(`CountersAreCardinalities`), follows `MemoryDecides`: for a number within half a turn
below the highest one, the entry of its slot equals it exactly when it was
received. A later turn of the same residue would lie above the highest number:
this is where `SequenceArithmetic` is used (numbers with the same residue are a
full turn apart). `IInv` is the conjunction; one lemma per action (`FirstStep`,
`AheadStep`, `DuplicateStep`, `LateStep`, `IgnoreStep`) shows what a step does to it, and
the same lemmas show that each step is a step of `RtpReception` or a stutter.
`IInv` is also checked by the run `RtpStreamAnalyzer`.

### Its delivery

Assumed (`DeliveryAssumption`, `SenderAssumption`): losses in a row and reordering
stay below half the number space, and a difference of timestamps below half the
timestamp space; the analyzer is configured for the sender's SSRC or for none.
These are the conditions under which RTP numbers can be told apart at all.

`DeliveryInv` adds to `IInv` that the extended numbers of the analyzer are the
indices of the sender, shifted by those of the first packet (`NumbersAreIndices`),
that its highest number is that of the newest packet (`NewestIsLargest`), and that
the jitter is measured from this packet (`PreviousIsNewest`). A delivered packet is
then ahead, late or repeated for the analyzer exactly when it is so for the
sender: the difference of two residues below half the modulus is the difference
of the numbers (`DifferenceOfResidues`). The truth of the counts follows since shifting is a
bijection between the packets delivered and the numbers that arrived. The bound
of the jitter needs the same of timestamps, which wrap like sequence numbers; then
the jitter, fifteen parts of its old value and one of a difference of delays, stays
below what bounds both.

### The reassembler

Assumed (`ReassemblerAssumption`): a packet's payload is a finite sequence of bytes, and
the largest NAL unit has a size that `size_t` can hold.

`RunInv` says that the history `run` is one NAL unit so far (`IsOneNalUnit`), and that `active`
is what its first packet opened, extended by the bytes of the others, with the next number
expected (`ActiveIsOfRun`). The bytes of a run are a recursive function
(`Collected`); what it yields for a run with one more fragment is `CollectedOfAppend`, proved by
induction on the length. The library's induction theorems take an operator that
the provers cannot instantiate, so `InductionOnSet` in `SequenceArithmetic` states induction
for a set: one that holds 0 and every successor holds all natural numbers.

### The H.264 RTP stream analyzer

Assumed (`H264Assumption`), besides the constants of the session analyzer: a packet has one
of the payload kinds, and an aggregation is a sequence of NAL units.

`H264Inv` is `IInv`, the type invariant, the three properties of the table, the
shape of the active NAL unit, and that the SSRC is known once a packet was
accepted. Its heart is `ActiveFollowsHighest`: the reassembler's expected number is always the
one after the session analyzer's highest, because whatever is accepted either
continues the active NAL unit or ends it, and nothing else moves either number.
So a gap of the one layer is a gap of the other (`FuGapsAreRtpGaps`). A push is analyzed once
per kind of payload, and a fragment once per outcome of the reassembler.

### The NAL units of a session

Assumed (`NetworkAssumption`, `ScriptAssumption`): losses in a row and reordering stay
below half the number space, and the sender packs by RFC 6184. A packet carries one
NAL unit, some NAL units in an aggregation, or a fragment of one; NAL units and their
fragments are sent in order, no two NAL units are equal, and the fragmented ones are
smaller than the limit of the reassembler. Any stream that is packed like this, of any
length, is a value of `Nals` and `Script`.

`SessionInv` adds to `H264Inv` what the two layers know of the sender. The highest
number is that of the newest packet (`HighestIsNewest`), so that the packets the
analyzer accepts are exactly those that are newer than all before (`AcceptedIsNewer`).
The active NAL unit is a prefix of one of the sender's, and its last fragment
is the newest packet (`ActiveIsPrefix`): whatever it is continued with is the next
fragment of the same NAL unit or ends it. This gives that nothing comes out which was
not sent. The converse, that nothing is given up which could still be completed, is
`PrefixIsActive`: if all packets of a NAL unit up to the newest one were accepted, and more
are to come, then a NAL unit is being collected. Both together make a NAL unit come out exactly when
all of its packets are accepted, and count the others as incomplete once. The proof
has one lemma for each kind of packet and each outcome of the reassembler
(`WholePacketStep`, `StartStep`, `ContinuationStep`, `OrphanStep`).

A NAL unit is *open* only while the newest packet is one of its own. A definition that
compared the start of the active NAL unit with a sequence number instead agrees with
this one in every short run, but not in a stream longer than one turn of the
numbers.

### The report of a session

Assumed (`ContentsAssumption`), besides the assumptions on the session: the sender is an
encoder. Its NAL units are well formed, and the parameter sets of the one id that
it uses can all be read. The SPS is the same whenever it is sent again; a PPS may change, as
long as every slice can be read with every PPS that is sent. Slices may come before the
parameter sets, and these may be sent any number of times, at any place.

Four classes report errors, and `make_rtp_analysis_report` only looks whether any of
them did. `ReportInv` says, in every state and not just at the end, what each one's silence means:
the RTP layer has a gap diagnostic exactly when a hole is left between the packets it
accepted (`GapsAreHoles`), a late packet exactly when not all that came were accepted
(`LateAreRefused`), the payload layer an error exactly when a NAL unit is lost that was
begun and is not open any more (`ErrorsAreLosses`), and the stream model one exactly when
it was handed a NAL unit before the parameter sets it is read with
(`StreamErrorsAreUndecodable`). The last needs what the stream model knows at each moment,
in terms of what it was handed (`SetsAreHandedOver`), and that it is handed what comes out,
in order (`QueueIsRest`); the first two need that the extended numbers of the analyzer are the indices
of the sender, shifted (`NumbersAreIndices`). At the end nothing is open and the
queue is empty, and the four together are `ReportStatusIsTruth` (`StatusAtTheEnd`).

The statement is the result of a proof that failed. An earlier one called a report
complete when all parameter sets were received. That is too much, since a session that
begins after the SPS and before any slice has lost nothing it would have
needed, and too little, since one that begins between SPS and PPS gets an error for the
PPS, although no slice was touched. `IsDecodable` says which parameter sets a NAL unit needs,
and the run begins with an access unit delimiter, an SPS and a PPS in three packets, so
that sessions begin between the parameter sets, and a report can be partial for a
late packet alone, when the delimiter comes late and nothing else is wrong.

### The stream model

Assumed (`StreamModelAssumption`): a PPS has a reading for the chroma format of every SPS,
and a slice for the formats of every SPS and of every reading of a PPS;
a reading is of an IDR slice if the NAL unit type is 5, and its slice type is one of the
five. There may be any number of NAL units, of any kinds and in any order.

`EveryNalHasOnePlace` puts the access units and the pending NAL units into one list of
*places*. A NAL unit waits in the last place, joins the last access unit while nothing
waits, or begins a new one and takes with it what waited. Each is an extension of this
list at its end (`PutLast`, `OpenPlace`), which keeps the order and adds one member.
`StreamInv` needs for this that an open picture has nothing waiting behind it. For
`AccessUnitsArePictures` it needs `PictureIsEnded`: if no picture is open, a NAL unit that
precedes a picture has come since the last one ended; without it, the next picture
would begin for no reason.

`GopCorrect` is about a loop. `analyze_gop` is a recursive function of the number
of turns; that one exists is proved with `InductionOnSet`, and with it, by induction on the
turns, that the loop has counted and listed the access units it has passed (`Counted`). The
list of IDR pictures has the `index` of each access unit, the intervals are differences of
positions; they agree since `StreamInv` says that `index` is the position.

### File and stream

`CleanStreamsAgree` compares the state of the stream model with a function of all NAL units
of the file, and a NAL unit at the end of a file can change what inspect reads at its
begin: a PPS without an SPS before it is read with one that follows. The invariant
(`AgreeInv`) therefore speaks of what is *read in order* (`ReadsInOrder`): without an error, and
every PPS with an SPS that precedes it. That is never changed by what follows
(`PpsStays`, `SliceStays`, `OrderStays`). As long as there are no diagnostics, all NAL units are read in
order, and the registry, the assembler and the access units are those of inspect after the
same NAL units (`NextActiveSets`, `NextAssembled`), since what the registry finds for a PPS
without an error inspect finds as well (`PpsReadAlike`). From the first diagnostic on,
the NAL units before it stay read in order, so that inspect, whichever pass it
fails in, fails at that NAL unit or behind it (`NoErrorInOrder`). The converse, a file that inspect
accepts, is the finding in section 4.

### The listener

Assumed (`ListenerAssumption`): the clock does not reach half of the range of its ticks, and
a buffer holds at least one datagram. `DurationCovered` also needs `DurationsFit`: every duration,
in ticks, is within the range of the count. The finding in section 4 is what happens without.

`ListenerInv` says at each line what the earlier ones have established: a socket is open
exactly in the loop, after select there is a datagram to receive, clock readings
are in the order of the lines that took them, a stop that was requested before
the last test has at most one datagram behind it, and a report has a reason.

### The parsers

Assumed (`ByteStreamAssumption`): the bytes are among 0 to 255 and include the 0, 1 and 3 that
the scanner and the converter tell apart, and the header byte of a NAL unit is not 0, as
every NAL unit type but the unspecified 0 makes it.
`RtpHeaderAssumption`: `size_t` can hold the size of every packet. `BitReaderAssumption`: the
result types have at least one bit. Files, RBSPs, packets and bit strings may have any
size, and so may the start codes and the zeros between NAL units.

*Headers.* `parse_rtp_packet` returns at its first failing check, and the sizes it
subtracts are unsigned. `ChecksRead` shows of each check that it says what RFC 3550 says,
provided that those before it have passed: then no subtraction wraps.

*The converter.* The scans are loops, and the theorems are about what they have
done after each turn: functions on the turns (`Protected`, `Run`, `Kept`, `Loop`, `ScanIsState`),
each of which exists by induction (`StepsAreTaken`). The encoder and the converter remember
different things, the bytes written and a run of zeros. They are compared byte by
byte: `Positions` gives the place of every byte of an RBSP in its payload. A 3 is inserted exactly
before a byte of at most 3 that follows two zeros (`OneByteWritten`). It has two zeros before it and a
byte of at most 3 behind it, and no byte of the RBSP has both (`WrittenIsKept`,
`InsertedIsDropped`), so the converter drops exactly what was inserted. The position of an
error in the payload is the place of its byte for the same reason (`ErrorsFindSource`).
`rbsp_offset_to_ebsp_offset` has a loop of its own that must drop the same bytes. It is
modelled as such (`PassByte`), so that a change of one copy alone would show, and `LoopsAgree`
proves that the two have the same run of zeros and the same count of kept bytes at each turn.

*The scanner.* `FileInv` says of the file what the muxer has made of it: every NAL unit is the header
and a protected RBSP, between two of them are zeros and a one, behind the last one zeros
only. Inside a NAL unit no start code begins and none overlaps its end (`NoStartCodeInside`,
`NalIsClosed`): the protection leaves no two zeros before a byte of at most 1, and the
last byte is not 0. Hence the search from the begin of one payload finds the start code of the
next (`NextStartCode`), the end of the payload is where the trailing zeros begin (`UnitEnds`), and
the loop finds one NAL unit in each turn (`TurnFinds`).

*The bit reader.* `BitsInv` says that each read begins where the one before it had stopped. The
rest is about numbers: the bits are the binary digits of their value (`ValueIsBinary`),
and only of this one (`BinaryIsValue`). The number of zeros before the first 1 is the length of
the code (`ZerosAreCounted`, `LengthIs`), and the 1 makes up for the `2^zeros` that the code adds
to the suffix (`LeadingOne`). `CodeIsRead` and `ReadIsCode` are the two directions: a
code is read as its number, and what is read without an error is the number whose
code stands there. `UeIsDecoded` and `SeIsDecoded` carry this to the limits of the result types,
down to the least value of se(v).

### Only model-checked

- Liveness of the listener (`StopEndsListening`, `DurationEndsListening`): fairness is out of
  the prover's reach.
- `PicturesAreReported`: the access units of a whole session, see section 7.
- The syntax modules (`ParameterSetsAreRecovered`, `PictureSizeIsExact`,
  `SliceHeadersAreRecovered`): the parsers are chains of some forty elements, each read under
  conditions on the ones before it and some in loops, and every field is a case of its own.

## 6. What is not modelled

- Rendering of the report, names of codes, profiles, levels and slice types,
  option parsing: output and input formatting. The report copies all numbers of
  the analyzers field by field; only its status is modelled.
- Slice data and VUI: the code stops before them.
- Where `IsLegalSps`, `IsLegalPps` and `IsLegalSlice` follow the code and not H.264,
  because the parser is laxer and its leniency harms nothing it computes: any
  `max_num_ref_frames`, up to 32 references also for frames, `pic_init_qp_minus26`
  down to -62 for every bit depth, profile 144 as a high profile, and field values
  that only the decoding process would reject.
- How large the diagnostics get: the models count them. The code never trims
  them, although `docs/architecture.md:145` asks for a bound of every collection.
- The demo sender and the fuzz target.
- Kernel behaviour: a datagram that select announced can be received.
  Jitter is exact in the model and a `double` in the code.
- A jump of half the sequence space or more is taken for a late packet by the
  code and by the models; `RtpDelivery` and `H264Session` keep loss bursts and
  reordering below it, as the algorithm assumes. Likewise a loss of so many
  pictures that `frame_num` and picture order count come around can join two
  pictures: H.264 has nothing in the slice header to tell them apart, and
  `H264Session` has no two pictures with equal headers.

## 7. Plan

Done: the modules and proofs above, in the order session analyzer and its
proofs; reassembler, stream analyzer and their delivery; stream model and
inspect; listener; bytes, bits and headers; the whole session with its report;
the syntax of parameter sets and slice headers.

Next, prove, from `ReportInv` and `StreamInv` of the instance `Stream`:
`PicturesAreReported`, for scripts whose pictures differ in the slice header.

Next, model: the listener composed with an abstract session, so that the report
covers what was received up to the stop; endpoints and options of the command
line.
