------------------------- MODULE MCLatencyTracker -------------------------
(* LatencyTracker for TLC: an ignored sample, one that becomes 1, one of    *)
(* the second bucket and one beyond the last bucket.                        *)
EXTENDS LatencyTracker

SomeSamples == {-1, 0, 2, 5}
============================================================================
