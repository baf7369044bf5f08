--------------------------- MODULE MCConfigRegistry ---------------------------
(***************************************************************************)
(* The registry of variables for TLC, with the conversions of LexicalCast. *)
(***************************************************************************)
EXTENDS ConfigRegistry, TLC

LC == INSTANCE LexicalCast
MCFromStr(type, text) == LC!From(type, text)
MCToStr(type, v) == LC!toString(type, v)
MCSame(type, v, w) == LC!Alike(type, v, w)
MCDump(node) == LC!Emit(node)

MCNames == {<<>>, <<"a">>, <<"a", "b">>, <<"n9">>}
MCLower == [k \in {"A"} |-> "a"]

int(n) == [int |-> n]
word(w) == [word |-> w]
Scalar(text) == [scalar |-> text]
List(nodes) == [seq |-> nodes]
\* "[1,~]", which yaml-cpp writes as "[1, ~]", and "a:  1".
TightList == [loose |-> List(<<Scalar(int(1)), LC!Null>>)]
WideMap == [loose |-> [map |-> <<[key |-> "a", node |-> Scalar(int(1))]>>]]
Map1(k, y) == [map |-> <<[key |-> k, node |-> y]>>]
Map2(k, y, j, z) == [map |-> <<[key |-> k, node |-> y], [key |-> j, node |-> z]>>]

Number == <<"int">>
Texts == <<"map", <<"string">>>>
Groups == <<"vector", <<"set", <<"int">>>>>>
MCTypes == {Number, Texts, Groups}

MCDefaults(type) ==
    CASE type = Number -> {0}
      [] type = Texts -> {[k \in {"a"} |-> word("s")],
                          [a |-> TightList, b |-> WideMap],
                          [a |-> LC!Empty, b |-> [quoted |-> TightList]]}
      [] type = Groups -> {<<{}, {1, 2}>>}
\* A string that is no YAML.
HardDefaults(type) ==
    IF type = Texts THEN {[k \in {"a"} |-> LC!Broken]} ELSE MCDefaults(type)

\* Documents whose keys are all legal.
Legal ==
    {Map2("a", Scalar(int(1)), "b", List(<<>>)),
     Map1("a", Map1("b", List(<<List(<<Scalar(int(2)), Scalar(int(2))>>), LC!Null>>))),
     Map1("a", Map2("b", Scalar(int(2)), "a", List(<<Scalar(word("s"))>>))),
     Map1("a", Map1("b", Map2("a", LC!Null, "a", Scalar(int(1))))),
     Map1("a", Map1("b", Map2("a", Scalar(TightList), "b", Scalar([quoted |-> word("s")]))))}
\* A key in upper case.
Cased == {Map1("A", Map1("b", Scalar(int(1))))}
=============================================================================
