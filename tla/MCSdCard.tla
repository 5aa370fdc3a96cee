---- MODULE MCSdCard ----
\* Every file of at most three characters whose lines end with LF or CR LF, and
\* longer ones; McMacTexts are files whose lines end with CR.
EXTENDS SdCard

McAlphabet == {"x", "lf", "cr", "(", ")", ";"}
CrIsBeforeLf(t) == \A i \in DOMAIN t : t[i] = "cr" => i < Len(t) /\ t[i + 1] = "lf"
McTexts ==
    {t \in UNION {[1 .. n -> McAlphabet] : n \in 0 .. 3} : CrIsBeforeLf(t)}
    \cup {<<"x", "y", "cr", "lf", "y", "_", "x", "lf", "(", "x", ")", "y", "lf", "y">>,
          <<"x", "lf", "lf", ";", "y", "lf", "y", "y", "lf", "x", "cr", "lf">>,
          <<"_", "x", "lf", "y", "_", "x", "_", "y", "x", "lf", "x", "lf">>,
          <<"x", "cr", "lf", ";", "x", "cr", "lf", "y">>,
          <<"x", "(", ";", "lf", "y", ";", "(", "lf", "x">>,
          <<"(", "x", "lf", "x", "(", "y", "(", ")", "y", "lf">>,
          <<"cr", "lf", "lf", "x", ";", "x", "lf">>,
          <<"x", "x", "x", "x", "x", "x", "x", "y">>, <<"x", "x", "x", "y", "y", "y", "lf", "x">>}
McShortTexts == {<<>>, <<"x", "cr", "lf", "y", "lf">>, <<"(", "x", "lf", "x", "x", "lf", "y">>}
McMacTexts == {<<"x", "cr", ";", "y">>, <<"x", "y", "cr", "x", "y">>}
====
