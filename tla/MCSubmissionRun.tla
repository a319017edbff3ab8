--------------------------- MODULE MCSubmissionRun ---------------------------
(* A dependency and two graded tests, in a plain perf target and in the two *)
(* parts of a metatarget; a new version takes a second point to one test.   *)
EXTENDS SubmissionRun, TLC

CONSTANTS boot, locks, syscalls, asst1, asst2, NoTarget

MCSplitLists == {<<>>, <<asst1>>, <<asst2, asst1>>}
MCTestsOf == [l \in MCSplitLists |-> IF l = <<asst1>> THEN {boot, locks} ELSE Test]
MCTargetOf == (boot :> NoTarget) @@ (locks :> asst1) @@ (syscalls :> asst2)
MCPoints == <<(boot :> 0) @@ (locks :> 2) @@ (syscalls :> 1),
              (boot :> 0) @@ (locks :> 2) @@ (syscalls :> 2)>>
MCTypeOf == (Plain :> "perf") @@ (Meta :> "asst")
=============================================================================
