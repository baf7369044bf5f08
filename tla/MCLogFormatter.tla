---------------------------- MODULE MCLogFormatter ----------------------------
(***************************************************************************)
(* Format patterns for TLC: m and d name items and q names none.           *)
(***************************************************************************)
EXTENDS LogFormatter

MCNames == {<<"m">>, <<"d">>, <<"q">>}
MCFmts == {<<>>, <<"q">>, <<"%", "{">>}
NoNames == {}
Nothing == {}
LongDates == {<<"q">>}
=============================================================================
