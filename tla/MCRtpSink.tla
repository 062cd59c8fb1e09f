----------------------------- MODULE MCRtpSink -----------------------------
(* Model values for checking RtpSink. *)
EXTENDS RtpSink, TLC
CONSTANTS s1, s2, looper, binder
Binders == {binder}
OneSource == {s1}
Sources2 == {s1, s2}
SourcesAlike == Permutations(Sources2)
FirstIsZero == {0}
FirstNumbers == {2}
=============================================================================
