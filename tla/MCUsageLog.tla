----------------------------- MODULE MCUsageLog -----------------------------
(* A run before, two runs, two uploaders; the file left by the first run may *)
(* be too big to be sent.                                                    *)
EXTENDS UsageLog

CONSTANTS r0, r1, r2, u1, u2

MCLeft == {<<Torn, r0>>, <<r0, Torn, Torn>>}
=============================================================================
