-------------------------- MODULE UdpListenerProofs --------------------------
(***************************************************************************)
(* Proofs about UdpListener for every duration, every poll interval, every *)
(* resolution of the clock and every buffer size.  That it ends is left to *)
(* TLC.                                                                    *)
(***************************************************************************)
EXTENDS UdpListener, SequenceArithmetic

-----------------------------------------------------------------------------
(* The inductive invariant.                                                *)

(* The socket lives as long as the receiver.                               *)
Listening == pc \in {"loop", "decide", "select", "receive"}

SocketWhileListening == sockets = IF Listening THEN 1 ELSE 0

(* recv is only called on a socket that select has reported.               *)
SomethingToReceive == pc = "receive" => queue > 0

(* No readings of the clock are from the future, and the one at the top of *)
(* the loop is not older than the last datagram.                           *)
TimesAreOrdered ==
  /\ now <= clock /\ last_arrival <= clock
  /\ pc = "decide" => last_arrival <= now
  /\ first_datagram_time # None =>
       last_arrival # None /\ first_datagram_time <= last_arrival

(* After the one datagram that was being received the flag is looked at.   *)
StopIsSeen ==
  /\ after_stop \in {0, 1}
  /\ ~ stop_requested => after_stop = 0
  /\ after_stop = 1 => pc \in {"loop", "decide", "reported", "failed"}

(* A report is made only for one of the two reasons.                       *)
ReportHasReason ==
  pc = "reported" =>
    /\ \/ stop_requested
       \/ duration # None /\ analysis_ended >= DurationTicks(duration)
    /\ last_arrival <= analysis_ended

ListenerInv ==
  /\ TypeOK
  /\ SocketWhileListening
  /\ SomethingToReceive
  /\ TimesAreOrdered
  /\ StopIsSeen
  /\ ReportHasReason

-----------------------------------------------------------------------------
(* Times.                                                                  *)

(* The constants and the clock are integers.                               *)
LEMMA TimeTypes ==
  ASSUME TypeOK
  PROVE  /\ clock \in Nat /\ now \in Nat /\ MaxTime \in Nat
         /\ clock <= MaxTime /\ now <= MaxTime
         /\ analysis_ended \in Nat /\ left \in Nat
         /\ first_datagram_time \in Nat \cup {None}
         /\ last_arrival \in Nat \cup {None}
         /\ duration # None => duration \in Nat
         /\ PollInterval \in Nat /\ TicksPerMs \in Nat \ {0}
         /\ TickModulus \in Nat \ {0}
<1>1. /\ MaxTime \in 1..(TickModulus \div 2 - 1) /\ TickModulus \in Nat
      /\ TickModulus % 2 = 0 /\ Durations \subseteq Nat \cup {None}
      /\ PollInterval \in Nat /\ TicksPerMs \in Nat \ {0}
  BY ListenerAssumption DEF ListenerAssumption
<1>2. TickModulus \in Nat \ {0} /\ MaxTime \in Nat
  BY <1>1
<1>3. QED
  BY <1>1, <1>2 DEF TypeOK

(* A duration is a number of ticks.                                        *)
LEMMA DurationTicksType ==
  ASSUME NEW ms \in Nat
  PROVE  DurationTicks(ms) \in Int
<1> DEFINE ticks == ms * TicksPerMs
<1>1. ticks \in Int /\ TickModulus \in Nat \ {0}
  <2>1. TicksPerMs \in Nat /\ TickModulus \in Nat \ {0}
    BY ListenerAssumption DEF ListenerAssumption
  <2>2. QED
    BY <2>1
<1> HIDE DEF ticks
<1>2. ticks % TickModulus \in Int
  BY <1>1, DivisionWithRemainder
<1>3. QED
  BY <1>1, <1>2 DEF DurationTicks, ticks

(* select is never given a negative wait, nor one beyond the poll interval,*)
(* so that a stop request is noticed within it.                            *)
LEMMA WaitIsBounded ==
  ASSUME TypeOK, ~ TimeIsUp
  PROVE  Wait \in 0..(PollInterval * TicksPerMs)
<1>1. /\ PollInterval \in Nat /\ TicksPerMs \in Nat \ {0} /\ now \in Nat
      /\ duration # None => duration \in Nat
  BY TimeTypes
<1>2. PICK polls \in 0..PollInterval : Wait = TicksPerMs * polls
  <2>1. CASE duration = None
    BY <1>1, <2>1 DEF Wait
  <2>2. CASE duration # None
    <3> DEFINE remaining == DurationTicks(duration) - now
    <3>1. remaining \in Int /\ remaining > 0
      BY <1>1, <2>2, DurationTicksType DEF TimeIsUp
    <3> HIDE DEF remaining
    <3>2. remaining \div TicksPerMs \in Nat
      <4>1. /\ remaining \in Nat /\ 0 * TicksPerMs <= remaining /\ 0 \in Int
            /\ remaining \div TicksPerMs \in Int
        BY <1>1, <3>1
      <4>2. 0 <= remaining \div TicksPerMs
        BY <1>1, <4>1, QuotientIsLargest
      <4>3. QED
        BY <4>1, <4>2
    <3>3. Wait = TicksPerMs * Smaller(PollInterval, remaining \div TicksPerMs)
      BY <2>2 DEF Wait, remaining
    <3>4. Smaller(PollInterval, remaining \div TicksPerMs) \in 0..PollInterval
      BY <1>1, <3>2 DEF Smaller
    <3>5. QED
      BY <3>3, <3>4
  <2>3. QED
    BY <2>1, <2>2
<1>3. /\ polls * TicksPerMs <= PollInterval * TicksPerMs
      /\ polls * TicksPerMs \in Nat
  <2>1. polls \in Nat /\ polls <= PollInterval /\ TicksPerMs \in Nat
    BY <1>1, <1>2
  <2>2. QED
    BY <1>1, <2>1, ProductIsMonotonic
<1>4. TicksPerMs * polls = polls * TicksPerMs
  BY <1>1, <1>2
<1>5. PollInterval * TicksPerMs \in Nat
  BY <1>1
<1>6. QED
  BY <1>2, <1>3, <1>4, <1>5

(* Without overflow the ticks are those of the duration.                   *)
LEMMA TicksOfDuration ==
  ASSUME NEW ms \in Nat, ms * TicksPerMs < TickModulus \div 2
  PROVE  DurationTicks(ms) = ms * TicksPerMs
<1> DEFINE ticks == ms * TicksPerMs
<1>1. /\ ticks \in Nat /\ TickModulus \in Nat \ {0}
      /\ TickModulus \div 2 \in Nat /\ TickModulus \div 2 < TickModulus
      /\ ticks < TickModulus \div 2
  <2>1. TicksPerMs \in Nat /\ TickModulus \in Nat \ {0}
    BY ListenerAssumption DEF ListenerAssumption
  <2>2. ticks \in Nat
    BY <2>1
  <2> HIDE DEF ticks
  <2>3. TickModulus \div 2 \in Nat /\ TickModulus \div 2 < TickModulus
    BY <2>1
  <2>4. QED
    BY <2>1, <2>2, <2>3 DEF ticks
<1> HIDE DEF ticks
<1>2. ticks % TickModulus = ticks
  <2>1. ticks \in 0..(TickModulus - 1) /\ ticks = TickModulus * 0 + ticks
    BY <1>1
  <2>2. QED
    BY <1>1, <2>1, ResidueIsUnique, 0 \in Int
<1>3. QED
  BY <1>1, <1>2 DEF DurationTicks, ticks

-----------------------------------------------------------------------------
(* Every step of the thread and of its environment.                        *)

(* bind tries addresses; it has a socket when it succeeds.                 *)
LEMMA BindingInv ==
  ASSUME ListenerInv, Start \/ BindSucceeds \/ BindFails \/ BindGivesUp
  PROVE  ListenerInv'
<1>1. /\ Addresses \in Nat /\ address \in Nat /\ pc' # "decide" /\ pc' # "receive"
      /\ pc' # "reported" /\ after_stop # 1 /\ pc \in {"start", "bind"}
  BY ListenerAssumption
     DEF ListenerAssumption, ListenerInv, TypeOK, StopIsSeen, Start, BindSucceeds,
         BindFails, BindGivesUp, Return
<1>2. TypeOK'
  BY <1>1 DEF ListenerInv, TypeOK, Start, BindSucceeds, BindFails, BindGivesUp,
              Return, times
<1>3. SocketWhileListening'
  BY DEF ListenerInv, SocketWhileListening, Listening, Start, BindSucceeds,
         BindFails, BindGivesUp, Return
<1>4. TimesAreOrdered'
  BY <1>1 DEF ListenerInv, TimesAreOrdered, Start, BindSucceeds, BindFails,
              BindGivesUp, times
<1>5. StopIsSeen'
  BY <1>1 DEF ListenerInv, StopIsSeen, Start, BindSucceeds, BindFails, BindGivesUp
<1>6. QED
  BY <1>1, <1>2, <1>3, <1>4, <1>5
     DEF ListenerInv, SomethingToReceive, ReportHasReason

(* The loop reads the clock and decides.                                   *)
LEMMA DecidingInv ==
  ASSUME ListenerInv, ReadClock \/ StopListening \/ KeepListening
  PROVE  ListenerInv'
<1> USE DEF ListenerInv
<1>1. CASE ReadClock
  <2>1. TypeOK'
    BY <1>1 DEF TypeOK, ReadClock
  <2>2. TimesAreOrdered'
    BY <1>1, TimeTypes DEF TimesAreOrdered, ReadClock
  <2>3. QED
    BY <1>1, <2>1, <2>2
       DEF ReadClock, SocketWhileListening, Listening, SomethingToReceive,
           StopIsSeen, ReportHasReason
<1>2. CASE StopListening
  <2>1. TypeOK'
    BY <1>2 DEF TypeOK, StopListening, Return
  <2>2. TimesAreOrdered'
    BY <1>2 DEF TimesAreOrdered, StopListening, Return
  <2>3. ReportHasReason'
    BY <1>2 DEF TimesAreOrdered, ReportHasReason, StopListening, TimeIsUp,
                DurationTicks
  <2>4. StopIsSeen'
    BY <1>2 DEF StopIsSeen, StopListening, Return
  <2>5. QED
    BY <1>2, <2>1, <2>2, <2>3, <2>4
       DEF StopListening, Return, SocketWhileListening, Listening,
           SomethingToReceive
<1>3. CASE KeepListening
  <2>1. left' \in 0..(PollInterval * TicksPerMs)
    BY <1>3, WaitIsBounded DEF KeepListening
  <2>2. TypeOK'
    BY <1>3, <2>1 DEF TypeOK, KeepListening, times
  <2>3. TimesAreOrdered'
    BY <1>3 DEF TimesAreOrdered, KeepListening, times
  <2>4. StopIsSeen'
    BY <1>3 DEF StopIsSeen, KeepListening
  <2>5. QED
    BY <1>3, <2>2, <2>3, <2>4
       DEF KeepListening, SocketWhileListening, Listening, SomethingToReceive,
           ReportHasReason
<1>4. QED
  BY <1>1, <1>2, <1>3

(* select and recv.                                                        *)
LEMMA ReceivingInv ==
  ASSUME ListenerInv, SelectReady \/ SelectTimesOut \/ Receive \/ ReceiverFails
  PROVE  ListenerInv'
<1> USE DEF ListenerInv
<1>1. CASE SelectReady \/ SelectTimesOut \/ ReceiverFails
  <2>1. TypeOK'
    BY <1>1 DEF TypeOK, SelectReady, SelectTimesOut, ReceiverFails, Return, times
  <2>2. TimesAreOrdered' /\ StopIsSeen'
    BY <1>1 DEF TimesAreOrdered, StopIsSeen, SelectReady, SelectTimesOut,
                ReceiverFails, Return, times
  <2>3. QED
    BY <1>1, <2>1, <2>2
       DEF SelectReady, SelectTimesOut, ReceiverFails, Return,
           SocketWhileListening, Listening, SomethingToReceive, ReportHasReason
<1>2. CASE Receive
  <2>1. queue \in 0..QueueCapacity /\ queue > 0 /\ QueueCapacity \in Nat
    BY <1>2, ListenerAssumption
       DEF ListenerAssumption, SomethingToReceive, TypeOK, Receive
  <2>2. queue' \in 0..QueueCapacity
    BY <1>2, <2>1 DEF Receive
  <2>3. TypeOK'
    BY <1>2, <2>2 DEF TypeOK, Receive
  <2>4. TimesAreOrdered'
    BY <1>2, TimeTypes DEF TimesAreOrdered, Receive, None
  <2>5. after_stop = 0
    BY <1>2 DEF StopIsSeen, Receive
  <2>6. StopIsSeen'
    BY <1>2, <2>5 DEF StopIsSeen, Receive, Smaller
  <2>7. QED
    BY <1>2, <2>3, <2>4, <2>6
       DEF Receive, SocketWhileListening, Listening, SomethingToReceive,
           ReportHasReason
<1>3. QED
  BY <1>1, <1>2

(* A signal, a datagram and a tick at any moment.                          *)
LEMMA EnvironmentInv ==
  ASSUME ListenerInv, Signal \/ Arrive \/ Tick
  PROVE  ListenerInv'
<1> USE DEF ListenerInv
<1>1. CASE Signal
  <2>1. TypeOK'
    BY <1>1 DEF TypeOK, Signal, times
  <2>2. TimesAreOrdered' /\ StopIsSeen'
    BY <1>1 DEF TimesAreOrdered, StopIsSeen, Signal, times
  <2>3. QED
    BY <1>1, <2>1, <2>2
       DEF Signal, Ended, SocketWhileListening, Listening, SomethingToReceive,
           ReportHasReason
<1>2. CASE Arrive
  <2>1. queue \in 0..QueueCapacity /\ QueueCapacity \in Nat
    BY ListenerAssumption DEF ListenerAssumption, TypeOK
  <2>2. queue' \in 0..QueueCapacity /\ queue' > 0
    BY <1>2, <2>1 DEF Arrive
  <2>3. TypeOK'
    BY <1>2, <2>2 DEF TypeOK, Arrive, times
  <2>4. TimesAreOrdered' /\ StopIsSeen' /\ ReportHasReason'
    BY <1>2 DEF TimesAreOrdered, StopIsSeen, ReportHasReason, DurationTicks,
                Arrive, times
  <2>5. QED
    BY <1>2, <2>2, <2>3, <2>4
       DEF Arrive, SocketWhileListening, Listening, SomethingToReceive
<1>3. CASE Tick
  <2>1. clock' \in 0..MaxTime /\ clock <= clock'
    BY <1>3, TimeTypes DEF Tick, Smaller
  <2>2. left' \in 0..(PollInterval * TicksPerMs)
    <3> DEFINE longest == PollInterval * TicksPerMs
    <3>1. longest \in Int /\ left \in 0..longest
      BY TimeTypes DEF TypeOK
    <3> HIDE DEF longest
    <3>2. left' \in 0..longest
      BY <1>3, <3>1 DEF Tick
    <3>3. QED
      BY <3>2 DEF longest
  <2>3. TypeOK'
    BY <1>3, <2>1, <2>2 DEF TypeOK, Tick, times
  <2>4. TimesAreOrdered'
    <3>1. now <= clock' /\ last_arrival <= clock'
      BY <2>1, TimeTypes DEF TimesAreOrdered, None
    <3>2. QED
      BY <1>3, <3>1 DEF TimesAreOrdered, Tick, times
  <2>5. QED
    BY <1>3, <2>3, <2>4
       DEF Tick, SocketWhileListening, Listening, SomethingToReceive, StopIsSeen,
           ReportHasReason, times
<1>4. QED
  BY <1>1, <1>2, <1>3

(* The invariant of the listener and its environment.                      *)
THEOREM ListenerInvariance == Spec => []ListenerInv
<1>1. Init => ListenerInv
  <2>1. Init => TypeOK
    <3>1. /\ MaxTime \in Nat /\ QueueCapacity \in Nat /\ Addresses \in Nat
          /\ PollInterval \in Nat /\ TicksPerMs \in Nat
      BY ListenerAssumption DEF ListenerAssumption
    <3>2. PollInterval * TicksPerMs \in Nat
      BY <3>1
    <3>3. /\ 0 \in 0..MaxTime /\ 0 \in 0..QueueCapacity /\ 0 \in 0..Addresses
          /\ 0 \in 0..(PollInterval * TicksPerMs)
      BY <3>1, <3>2
    <3>4. QED
      BY <3>3 DEF Init, TypeOK
  <2>2. QED
    BY <2>1 DEF Init, ListenerInv, SocketWhileListening, Listening,
                SomethingToReceive, TimesAreOrdered, StopIsSeen, ReportHasReason,
                None
<1>2. ListenerInv /\ [Next]_vars => ListenerInv'
  <2>1. ASSUME ListenerInv, UNCHANGED vars PROVE ListenerInv'
    BY <2>1 DEF vars, times, ListenerInv, TypeOK, SocketWhileListening, Listening,
                SomethingToReceive, TimesAreOrdered, StopIsSeen, ReportHasReason
  <2>2. QED
    BY <2>1, BindingInv, DecidingInv, ReceivingInv, EnvironmentInv DEF Next, Step
<1>3. QED
  BY <1>1, <1>2, PTL DEF Spec

(* Every variable has its type; in particular select is never asked to     *)
(* wait a negative time or longer than the poll interval.                  *)
THEOREM ListenerTypeCorrectness == Spec => []TypeOK
BY ListenerInvariance, PTL DEF ListenerInv

(* On every way through bind and the loop the socket is closed at the end. *)
THEOREM SocketsClosed == Spec => []SocketsAreClosed
<1>1. ListenerInv => SocketsAreClosed
  BY DEF ListenerInv, SocketWhileListening, Listening, SocketsAreClosed, Ended
<1>2. QED
  BY <1>1, ListenerInvariance, PTL

(* A stop request is noticed after one more datagram at the latest.        *)
THEOREM StopIsPrompt == Spec => []AtMostOneAfterStop
<1>1. ListenerInv => AtMostOneAfterStop
  BY DEF ListenerInv, StopIsSeen, AtMostOneAfterStop
<1>2. QED
  BY <1>1, ListenerInvariance, PTL

(* The durations that the 64-bit count of ticks can hold.                  *)
DurationsFit == \A ms \in Durations \ {None} : ms * TicksPerMs < TickModulus \div 2

(* A report that no signal asked for covers the whole duration, and its    *)
(* window holds the datagrams.  A duration that overflows the count of     *)
(* ticks is no duration: that is what the hypothesis excludes.             *)
THEOREM DurationCovered ==
  ASSUME DurationsFit
  PROVE  Spec => []ReportCoversDuration
<1>1. ListenerInv => ReportCoversDuration
  <2>1. SUFFICES ASSUME ListenerInv, pc = "reported"
                 PROVE  /\ ~ stop_requested =>
                             analysis_ended >= duration * TicksPerMs
                        /\ first_datagram_time # None =>
                             /\ first_datagram_time <= last_arrival
                             /\ last_arrival <= analysis_ended
    BY DEF ReportCoversDuration
  <2>2. first_datagram_time # None =>
          /\ first_datagram_time <= last_arrival
          /\ last_arrival <= analysis_ended
    BY <2>1 DEF ListenerInv, TimesAreOrdered, ReportHasReason
  <2>3. ASSUME ~ stop_requested PROVE analysis_ended >= duration * TicksPerMs
    <3>1. duration # None /\ analysis_ended >= DurationTicks(duration)
      BY <2>1, <2>3 DEF ListenerInv, ReportHasReason
    <3>2. duration \in Nat /\ duration \in Durations \ {None}
      BY <2>1, <3>1, TimeTypes DEF ListenerInv, TypeOK
    <3>3. DurationTicks(duration) = duration * TicksPerMs
      BY <3>2, TicksOfDuration DEF DurationsFit
    <3>4. QED
      BY <3>1, <3>3
  <2>4. QED
    BY <2>2, <2>3
<1>2. QED
  BY <1>1, ListenerInvariance, PTL
=============================================================================
