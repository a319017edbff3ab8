------------------------------ MODULE MCTestRun ------------------------------
(* A plain test of two commands, one that panics, one that may time out,
   and one of which the third command may panic. *)
EXTENDS TestRun

plain(p) == [panic |-> "no", timesout |-> "no", points |-> p, quit |-> FALSE]
quit == [panic |-> "no", timesout |-> "no", points |-> 0, quit |-> TRUE]

MCPrograms == {
  <<plain(0), plain(1), plain(2), quit>>,
  <<plain(0), [plain(2) EXCEPT !.panic = "yes"], quit>>,
  <<plain(0), [plain(1) EXCEPT !.timesout = "maybe"], quit>>,
  <<plain(0), plain(1), [plain(2) EXCEPT !.panic = "maybe"], plain(1), quit>>}
=============================================================================
