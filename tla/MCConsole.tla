------------------------------ MODULE MCConsole ------------------------------
(* All lists of up to three lines for the kernel, the shell and configured     *)
(* environments, valid or not, a list longer than the limit on the expansion,  *)
(* and a few tests that are run: in the shell and in environments behind it,   *)
(* with expected lines, partial credit and memory checks, with and without     *)
(* characters being sent again.                                                *)
EXTENDS Console

conf(p, start, end) == [prefix |-> p, prompt |-> p, start |-> start, end |-> Line(None, end)]
plain(l) == [mods |-> <<>>, line |-> l]
K(name) == Line(None, name)
S(name) == Line("$", name)

Behind == <<conf("!", S("go"), "x"), conf("@", Line("!", "at"), "x")>>

Confs1 == {
  <<>>, Behind, <<conf("!", K("go"), "x")>>,
  <<conf("!", Line("@", "go"), "x"), conf("@", Line("!", "at"), "x")>>,
  <<conf("!", K("s"), "x"), conf("@", S("exit"), "y")>>,
  <<conf("!", K("a"), "x"), conf("!", K("b"), "x")>>,
  <<conf("!", K("q"), "x"), conf("@", K("a"), "exit")>>,
  <<conf("!", K(None), "x")>>, <<conf("!", K("a"), None)>>}

Lines1 == {K("km1"), K("s"), K("q"), K(None), S("ls"), S("exit"),
           Line("!", "go"), Line("@", "at"), Line("%", "no")}

Contents ==
  {<<plain(a), plain(b), plain(c)>> : a, b, c \in Lines1}
    \cup {<<>>, <<plain(K("km1"))>>, <<[mods |-> <<60>>, line |-> K("km1")]>>, <<[mods |-> <<2, Pipe>>, line |-> K("km1")]>>,
          <<[mods |-> <<0>>, line |-> K("km1")], [mods |-> <<2, 1, 2>>, line |-> Line("!", "go")]>>}

make(confs, content, scoring, retry, expected) ==
  [confs |-> confs, content |-> content, scoring |-> scoring, retry |-> retry, expected |-> expected]

MCSelected == {
  make(<<>>, <<plain(K("km1")), plain(S("ls"))>>, "partial", TRUE, [km1 |-> <<"ok", "end">>]),
  make(<<>>, <<plain(K("km1")), plain(K("km1"))>>, "entire", FALSE, [km1 |-> <<"ok">>]),
  make(<<>>, <<[mods |-> <<Pipe>>, line |-> K("km1")]>>, "entire", TRUE, [km1 |-> <<"end">>]),
  make(Behind, <<plain(Line("@", "run"))>>, "entire", TRUE, <<>>)}

MCTests == MCSelected \cup {make(c, l, "entire", TRUE, <<>>) : c \in Confs1, l \in Contents}

MCReplies == [km1 |-> {<<>>, <<"ok", "x", "end">>, <<"half", "all">>, <<"all">>}, ls |-> {<<"x">>}]
MCOneCharacter == {"s", "q", "x"}
MCCredit == [half |-> <<1, 2>>, all |-> <<2, 2>>]

MCPrefix == {"!", "@", "%", "$"}
MCWord ==
  {"OS/161 kernel", "OS/161$", "boot", "khu", "modified", "s", "q", "exit", "banner"}
    \cup {"!", "@", "go", "at", "a", "b", "x", "y", "km1", "ls", "no", "run"}
    \cup {"ok", "end", "half", "all"}
=============================================================================
