----------------------------- MODULE UdpListener -----------------------------
(***************************************************************************)
(* listen_udp_h264 (src/application/listen.cpp) over UdpReceiver           *)
(* (src/infrastructure/udp_receiver.cpp): one thread that polls the stop   *)
(* flag of the SIGINT handler, the duration and a UDP socket.  Around it,  *)
(* datagrams arrive, a signal comes at any moment, and time passes.        *)
(*                                                                         *)
(* The analyzer is left out: every datagram received is pushed to it, and  *)
(* it is modelled in H264RtpStreamAnalyzer.  Time is counted in ticks of   *)
(* the steady clock since listen_started; the clock stands still at        *)
(* MaxTime so that endless traffic has finitely many states.               *)
(***************************************************************************)
EXTENDS Integers

CONSTANTS
    Durations,      \* values of options.duration, in ms, None when not given
    ClockRates,     \* values of options.clock_rate_hz
    Addresses,      \* how many addresses getaddrinfo finds
    PollInterval,   \* the longest wait, 200 ms in the code
    TicksPerMs,     \* 10^6 in the code
    TickModulus,    \* values of the 64-bit count of ticks
    QueueCapacity,  \* datagrams that fit SO_RCVBUF
    MaxTime         \* bound: where the clock stops

(* std::nullopt *)
None == -1

ASSUME ListenerAssumption ==
    /\ Durations \subseteq Nat \cup {None}
    /\ ClockRates \subseteq Nat
    /\ Addresses \in Nat
    /\ PollInterval \in Nat
    /\ TicksPerMs \in Nat \ {0}
    /\ TickModulus \in Nat /\ TickModulus % 2 = 0
    /\ QueueCapacity \in Nat \ {0}
    /\ MaxTime \in 1..(TickModulus \div 2 - 1)

VARIABLES
    pc,              \* where the listener is
    duration,        \* options.duration, chosen at the start
    address,         \* how many addresses bind has tried
    sockets,         \* how many sockets the process holds
    stop_requested,  \* set by the SIGINT handler
    clock,           \* steady_clock, 0 at listen_started
    now,             \* the reading at the top of the loop
    left,            \* ticks until select times out
    queue,           \* datagrams in the socket's receive buffer
    first_datagram_time,
    analysis_ended,
    last_arrival,    \* history: arrival time of the last datagram pushed
    after_stop       \* history: datagrams pushed since the stop request

times == <<now, first_datagram_time, analysis_ended, last_arrival>>

vars == <<pc, duration, address, sockets, stop_requested, clock, left, queue,
          after_stop, times>>

Init ==
    /\ pc = "start"
    /\ duration \in Durations
    /\ address = 0
    /\ sockets = 0
    /\ stop_requested = FALSE
    /\ clock = 0
    /\ now = 0
    /\ left = 0
    /\ queue = 0
    /\ first_datagram_time = None
    /\ analysis_ended = 0
    /\ last_arrival = None
    /\ after_stop = 0

Ended == pc \in {"reported", "failed"}

(* The receiver goes out of scope, and with it its socket.                 *)
Return(result) ==
    /\ pc' = result
    /\ sockets' = 0

-----------------------------------------------------------------------------
(* listen_udp_h264 up to the loop, and UdpReceiver::bind                   *)

Start ==
    /\ pc = "start"
    /\ \E clock_rate \in ClockRates : pc' = IF clock_rate = 0 THEN "failed" ELSE "bind"
    /\ UNCHANGED <<duration, address, sockets, stop_requested, clock, left, queue,
                   after_stop, times>>

BindSucceeds ==
    /\ pc = "bind" /\ address < Addresses
    /\ pc' = "loop"
    /\ address' = address + 1
    /\ sockets' = sockets + 1
    /\ UNCHANGED <<duration, stop_requested, clock, left, queue, after_stop, times>>

(* Mutation: a socket that cannot be bound is not closed.                  *)
BindFailsKeepingSocket ==
    /\ pc = "bind" /\ address < Addresses
    /\ address' = address + 1
    /\ sockets' = sockets + 1
    /\ UNCHANGED <<pc, duration, stop_requested, clock, left, queue, after_stop, times>>

(* There is no such socket, no such receive buffer, or the address is      *)
(* taken: the socket, if any, is closed and the next address is tried.     *)
BindFails ==
    /\ pc = "bind" /\ address < Addresses
    /\ address' = address + 1
    /\ UNCHANGED <<pc, duration, sockets, stop_requested, clock, left, queue,
                   after_stop, times>>

(* getaddrinfo fails, or no address is left.                               *)
BindGivesUp ==
    /\ pc = "bind" /\ address \in {0, Addresses}
    /\ Return("failed")
    /\ UNCHANGED <<duration, address, stop_requested, clock, left, queue, after_stop,
                   times>>

-----------------------------------------------------------------------------
(* The loop.                                                               *)

(* Mutation: milliseconds are taken for ticks.                             *)
DurationInMs(ms) == ms

(* The duration as the comparison with now - listen_started sees it, in    *)
(* ticks: the multiplication wraps, as two's complement, when it overflows.*)
DurationTicks(ms) ==
    LET raw == (ms * TicksPerMs) % TickModulus
    IN  IF raw < TickModulus \div 2 THEN raw ELSE raw - TickModulus

TimeIsUp == duration # None /\ now >= DurationTicks(duration)

Smaller(i, j) == IF i <= j THEN i ELSE j

(* Mutation: without a duration, the wait is as long as it gets.           *)
WaitUntilData ==
    IF duration = None THEN MaxTime
    ELSE Smaller(PollInterval, (DurationTicks(duration) - now) \div TicksPerMs)
           * TicksPerMs

(* The wait of the next select: what remains is cut to whole milliseconds. *)
Wait ==
    TicksPerMs *
      (IF duration = None THEN PollInterval
       ELSE Smaller(PollInterval, (DurationTicks(duration) - now) \div TicksPerMs))

ReadClock ==
    /\ pc = "loop"
    /\ pc' = "decide"
    /\ now' = clock
    /\ UNCHANGED <<duration, address, sockets, stop_requested, clock, left, queue,
                   after_stop, first_datagram_time, analysis_ended, last_arrival>>

(* The analyzer is finished and the report is made.                        *)
StopListening ==
    /\ pc = "decide"
    /\ stop_requested \/ TimeIsUp
    /\ Return("reported")
    /\ analysis_ended' = now
    /\ UNCHANGED <<duration, address, stop_requested, clock, left, queue, after_stop,
                   now, first_datagram_time, last_arrival>>

KeepListening ==
    /\ pc = "decide"
    /\ ~ stop_requested /\ ~ TimeIsUp
    /\ pc' = "select"
    /\ left' = Wait
    /\ UNCHANGED <<duration, address, sockets, stop_requested, clock, queue,
                   after_stop, times>>

(* UdpReceiver::receive *)
SelectReady ==
    /\ pc = "select" /\ queue > 0
    /\ pc' = "receive"
    /\ UNCHANGED <<duration, address, sockets, stop_requested, clock, left, queue,
                   after_stop, times>>

(* Mutation: without a duration, select is given no time-out.              *)
SelectTimesOutForDuration ==
    /\ pc = "select" /\ queue = 0 /\ left = 0 /\ duration # None
    /\ pc' = "loop"
    /\ UNCHANGED <<duration, address, sockets, stop_requested, clock, left, queue,
                   after_stop, times>>

SelectTimesOut ==
    /\ pc = "select" /\ queue = 0 /\ left = 0
    /\ pc' = "loop"
    /\ UNCHANGED <<duration, address, sockets, stop_requested, clock, left, queue,
                   after_stop, times>>

(* Mutation: after a datagram, the next one is waited for at once.         *)
ReceiveUntilEmpty ==
    /\ pc = "receive"
    /\ pc' = "select"
    /\ queue' = queue - 1
    /\ first_datagram_time' = IF first_datagram_time = None THEN clock
                                                           ELSE first_datagram_time
    /\ analysis_ended' = clock
    /\ last_arrival' = clock
    /\ after_stop' = IF stop_requested THEN Smaller(after_stop + 1, 2) ELSE 0
    /\ UNCHANGED <<duration, address, sockets, stop_requested, clock, left,
                   now>>

(* recv, and the push of the datagram into the analyzer.                   *)
Receive ==
    /\ pc = "receive"
    /\ pc' = "loop"
    /\ queue' = queue - 1
    /\ first_datagram_time' = IF first_datagram_time = None THEN clock
                                                           ELSE first_datagram_time
    /\ analysis_ended' = clock
    /\ last_arrival' = clock
    /\ after_stop' = IF stop_requested THEN Smaller(after_stop + 1, 2) ELSE 0
    /\ UNCHANGED <<duration, address, sockets, stop_requested, clock, left,
                   now>>

(* select or recv fails: there is no report, whatever was analyzed.        *)
ReceiverFails ==
    /\ pc \in {"select", "receive"}
    /\ Return("failed")
    /\ UNCHANGED <<duration, address, stop_requested, clock, left, queue, after_stop,
                   times>>

-----------------------------------------------------------------------------
(* The environment.                                                        *)

(* SIGINT.  It interrupts a select (EINTR), except where the handler runs  *)
(* on another thread or select has not begun yet.                          *)
Signal ==
    /\ ~ Ended
    /\ ~ stop_requested
    /\ stop_requested' = TRUE
    /\ \/ UNCHANGED pc
       \/ pc = "select" /\ pc' = "loop"
    /\ UNCHANGED <<duration, address, sockets, clock, left, queue, after_stop, times>>

(* A datagram that finds the buffer full is lost without a trace.          *)
Arrive ==
    /\ sockets > 0 /\ queue < QueueCapacity
    /\ queue' = queue + 1
    /\ UNCHANGED <<pc, duration, address, sockets, stop_requested, clock, left,
                   after_stop, times>>

Tick ==
    /\ pc \notin {"start", "bind", "reported", "failed"}
    /\ clock' = Smaller(clock + 1, MaxTime)
    /\ left' = IF pc = "select" /\ left > 0 THEN left - 1 ELSE left
    /\ UNCHANGED <<pc, duration, address, sockets, stop_requested, queue, after_stop,
                   times>>

(* The steps of the thread that do not fail.                               *)
Step ==
    \/ Start \/ BindSucceeds \/ BindFails \/ BindGivesUp
    \/ ReadClock \/ StopListening \/ KeepListening
    \/ SelectReady \/ SelectTimesOut \/ Receive

Next == Step \/ ReceiverFails \/ Signal \/ Arrive \/ Tick

(* The system runs the thread, and time passes.  No fairness is asked of   *)
(* the signal, of the traffic, or of failures.                             *)
Spec == Init /\ [][Next]_vars /\ WF_vars(Step) /\ WF_vars(Tick)

-----------------------------------------------------------------------------
TypeOK ==
    /\ pc \in {"start", "bind", "loop", "decide", "select", "receive",
               "reported", "failed"}
    /\ duration \in Durations
    /\ address \in 0..Addresses
    /\ stop_requested \in BOOLEAN
    /\ left \in 0..(PollInterval * TicksPerMs)
    /\ queue \in 0..QueueCapacity
    /\ {clock, now, analysis_ended} \subseteq 0..MaxTime
    /\ {first_datagram_time, last_arrival} \subseteq (0..MaxTime) \cup {None}

(* The process holds one socket while it listens and none when it has      *)
(* returned, on every way out of bind and of the loop.                     *)
SocketsAreClosed ==
    /\ sockets <= 1
    /\ Ended => sockets = 0

(* A report that was not stopped by a signal covers the whole duration:    *)
(* the listener neither ends early nor takes the last datagram for the end *)
(* of the session; and the window of the report (duration_us) begins with  *)
(* the first datagram and holds them all.                                  *)
ReportCoversDuration ==
    pc = "reported" =>
      /\ ~ stop_requested =>
           analysis_ended >= duration * TicksPerMs
      /\ first_datagram_time # None =>
           /\ first_datagram_time <= last_arrival
           /\ last_arrival <= analysis_ended

(* After a stop request at most the datagram that is just being received   *)
(* is still analyzed, however many wait in the socket.                     *)
AtMostOneAfterStop == after_stop <= 1

(* A stop request ends the listener, even one that comes between the test  *)
(* of the flag and select, which it then does not interrupt, and under     *)
(* traffic that never pauses.                                              *)
StopEndsListening == stop_requested ~> Ended

(* So does the duration.                                                   *)
DurationEndsListening == duration # None ~> Ended

(* The command line takes durations of up to 2^63 ms (src/cli/main.cpp:187)*)
(* and README.md:36 promises a timed end.  Not so beyond 2^63 ns: the      *)
(* comparison overflows, and the listener ends at once.                    *)
EveryDurationIsKept == ReportCoversDuration
=============================================================================
