------------------------- MODULE MCRtpStreamAnalyzer -------------------------
(* Constants of the TLC runs of RtpStreamAnalyzer.                         *)
EXTENDS RtpStreamAnalyzer, TLC

CONSTANTS s1, s2

MCSsrcs == {s1, s2}

(* Neither SSRC is configured, so they are interchangeable.                *)
MCSymmetry == Permutations(MCSsrcs)

MCNoSsrc == None

MCClockStandsStill == {0}
=============================================================================
