---------------------------- MODULE MCLiveStream ----------------------------
(* Instances of LiveStream for TLC. *)
EXTENDS LiveStream, TLC

CONSTANTS r1, r2, t1, x1, c1, c2

TwoReporters == {r1, r2}
OneTracker == {t1}
OneTransformer == {x1}
None == {}
OnlyTransformer == {x1}
TwoCallers == {c1, c2}
OneCaller == {c1}
OneReporter == {r1}

(* Callers are interchangeable, and so are the two reporters when neither  *)
(* is excluded.                                                            *)
Symmetry == Permutations(TwoCallers) \cup Permutations(TwoReporters)
=============================================================================
