----------------------------- MODULE MCTargets -----------------------------
(* A target with two versions, and a metatarget of two subtargets.          *)
EXTENDS Targets, TLC

T(id, p) == [id |-> id, points |-> p, scoring |-> "entire", leak |-> 0, cmds |-> <<>>]
Cmd(id, p) == [id |-> id, points |-> p, args |-> <<>>]
\* Partial scoring, with two commands.
P(id, p, q) == [T(id, p + q) EXCEPT !.scoring = "partial", !.cmds = <<Cmd("x", p), Cmd("y", q)>>]
Of(name, version, points, tests) ==
  [name |-> name, version |-> version, active |-> TRUE, type |-> "asst", kernel |-> "ASST1",
   points |-> points, isMeta |-> FALSE, subs |-> <<>>, meta |-> None, tests |-> tests]

\* As it was, in another order and not active, with other points, with other
\* points of the commands, with one test twice, and with one test less.
Plain == Of("asst", 1, 3, <<P("a", 2, 0), T("b", 1)>>)
PlainContents ==
  {Plain, [Plain EXCEPT !.tests = <<T("b", 1), P("a", 2, 0)>>, !.active = FALSE],
   [Plain EXCEPT !.tests = <<P("a", 1, 0), T("b", 2)>>],
   [Plain EXCEPT !.tests = <<P("a", 1, 1), T("b", 1)>>],
   [Plain EXCEPT !.tests = <<P("a", 2, 0), P("a", 2, 0)>>],
   [Plain EXCEPT !.tests = <<P("a", 2, 0)>>]}
Meta == [Of("meta", 1, 3, <<>>) EXCEPT !.isMeta = TRUE, !.subs = <<"one", "two">>]
One == [Of("one", 1, 1, <<T("c", 1)>>) EXCEPT !.meta = "meta"]
Two == [Of("two", 1, 2, <<T("d", 2)>>) EXCEPT !.meta = "meta"]

MCFile == 1..5
MCContents == <<
  PlainContents,
  {None, Of("asst", 2, 1, <<T("a", 1)>>)},
  {Meta},
  {One,
   [One EXCEPT !.version = 2, !.tests = <<T("e", 1)>>], [One EXCEPT !.kernel = "ASST2"]},
  {Two}>>
============================================================================
