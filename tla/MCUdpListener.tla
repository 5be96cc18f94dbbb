---------------------------- MODULE MCUdpListener ----------------------------
(* Constants of the TLC runs of UdpListener.                               *)
EXTENDS UdpListener

(* No duration, one below and one above the poll interval.                 *)
MCDurations == {None, 1, 3}

(* The first overflows the count of ticks when it is converted.            *)
MCLongDurations == {5}
=============================================================================
