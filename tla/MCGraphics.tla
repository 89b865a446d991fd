----------------------------- MODULE MCGraphics ------------------------------
(* Values for checking Graphics: what may be set in the environment, and what *)
(* may lie on a game's disc.                                                  *)
EXTENDS Graphics

CapabilitiesValue == {"vp", "fp", "reject"}
OptionsValue ==
  {{}} \cup {{o} : o \in {"NO_FBO", "NO_VP", "NO_FP", "NO_REJECT", "FP_SOLID",
                          "TRACE", "SHOT", "FBSTATS", "GLERR"}}
       \cup {{"TRACE", "NO_FBO"}, {"SHOT", "NO_VP"}}

UnwatchedValue == {{}, {"NO_FBO"}, {"NO_VP"}, {"GLERR"}}

CodeValue == {"i1", "i2", "c1", "c2", "c3", "x"}
HeadersValue == [h1 |-> <<"i1">>, h2 |-> <<"i2", COMMENT>>]
File(text, defs) == [text |-> text, defs |-> defs]
\* Files that end one another, that differ in definitions or includes only,
\* that have no code of their own before a comment, and one not compiled.
FilesValue ==
  {File(<<"h1", "c1", "x">>, <<"p">>), File(<<"h1", "h2", "c2", COMMENT, "x">>, <<"p">>),
   File(<<"h1", "x">>, <<"p">>), File(<<"c1", "h2", COMMENT>>, <<"q">>),
   File(<<COMMENT, "c1", "x">>, NOTHING), File(<<"h1", "c1", "x">>, <<"p", "q">>),
   File(<<"h2", "c3">>, <<"q">>)}
DiscsValue == {<<>>} \cup [1..3 -> FilesValue]
VariantsValue == {<<>>, <<"p">>, <<"q">>, <<"p", "q">>}
=============================================================================
