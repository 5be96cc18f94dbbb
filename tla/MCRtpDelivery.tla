---------------------------- MODULE MCRtpDelivery ----------------------------
(* Constants of the TLC runs of RtpDelivery.                               *)
EXTENDS RtpDelivery

MCNoSsrc == None

MCTimestamps == 0..(TimestampModulus - 1)

MCNoDeltas == {0}
=============================================================================
