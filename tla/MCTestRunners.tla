------------------------- MODULE MCTestRunners -------------------------
(* Four test files, two of them tagged.  They make a diamond, or a cycle, or *)
(* name a dependency that nobody knows; the diamond is run.                  *)
EXTENDS TestRunners, TLC

CONSTANTS t1, t2, t3, t4, g1, g2, g3, g4, gnone, tag

Diamond == (t1 :> {}) @@ (t2 :> {t1}) @@ (t3 :> {t1}) @@ (t4 :> {t2, t3})

MCGlob == (g1 :> {t1}) @@ (g2 :> {t2}) @@ (g3 :> {t3}) @@ (g4 :> {t4}) @@ (gnone :> {})
MCTags == (t1 :> {}) @@ (t2 :> {tag}) @@ (t3 :> {tag}) @@ (t4 :> {})

MayDependOn ==
  (t1 :> {{}, {g4}, {gnone}}) @@ (t2 :> {{}, {g1}, {tag}})
  @@ (t3 :> {{g1}, {g1, g2}}) @@ (t4 :> {{tag}, {g2, g3}, {g3}})
MCDependsOf ==
  {d \in [TestFile -> UNION {MayDependOn[t] : t \in TestFile}] :
     \A t \in TestFile : d[t] \in MayDependOn[t]}
MCConfigTests == {{g4}, {g1, g2, g3, g4}, {g1, tag, g4}, {tag}, {g3, gnone}}
=============================================================================
