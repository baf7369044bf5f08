----------------------------- MODULE LexicalCast -----------------------------
(***************************************************************************)
(* The conversions between values and YAML text of config.h, by recursion  *)
(* over the type.  A type is <<"int">>, <<"string">>, or <<c, T>> for a    *)
(* container of T: "vector" and std::list are sequences, "set" and         *)
(* std::unordered_set sets, "map" and std::unordered_map functions from    *)
(* keys.  A conversion that throws has no result: From and To give the set *)
(* of the result, or the empty set.                                        *)
(*                                                                         *)
(* A text is [int |-> n] or [word |-> w], which YAML reads as scalars;     *)
(* [block |-> n], the sequence or map n as yaml-cpp lays it out, or        *)
(* [loose |-> n], laid out in another way; [quoted |-> s], the scalar s in *)
(* quotes; Empty or Tilde, a null; or Broken, which is no YAML.  A node is *)
(* written in the style it was read in, [1, 2] or on lines of their own,   *)
(* so these two texts need not be told apart.                              *)
(***************************************************************************)
EXTENDS Naturals, Sequences, SequencesExt

Empty == [empty |-> TRUE]
Tilde == [tilde |-> TRUE]
Broken == [broken |-> TRUE]

Null == [null |-> TRUE]
Is(x, kind) == kind \in DOMAIN x

\* YAML::Load: a node is [scalar |-> text], [seq |-> nodes], [map |-> pairs of
\* key and node], or Null.
Load(text) ==
    CASE Is(text, "int") \/ Is(text, "word") -> {[scalar |-> text]}
      [] Is(text, "quoted") -> {[scalar |-> text.quoted]}
      [] Is(text, "block") -> {text.block}
      [] Is(text, "loose") -> {text.loose}
      [] Is(text, "empty") \/ Is(text, "tilde") -> {Null}
      [] Is(text, "broken") -> {}

\* ss << node: a scalar that would be read as something else is quoted, and
\* a sequence or map laid out in the one way of yaml-cpp.
Emit(node) ==
    CASE Is(node, "scalar") -> IF Is(node.scalar, "int") \/ Is(node.scalar, "word")
                               THEN node.scalar ELSE [quoted |-> node.scalar]
      [] Is(node, "null") -> Tilde
      [] OTHER -> [block |-> node]

\* All of a sequence of sets of at most one element, or nothing.
Each(results) ==
    IF \E p \in DOMAIN results : results[p] = {} THEN {}
    ELSE {[p \in DOMAIN results |-> CHOOSE r \in results[p] : TRUE]}

\* std::map::insert: of pairs with the same key the first one stays.
Insert(keys, values) ==
    [k \in ToSet(keys) |->
        values[CHOOSE p \in DOMAIN keys : keys[p] = k
                 /\ \A q \in 1..(p - 1) : keys[q] # k]]

\* The texts the loop over node[i] or over the pairs of a node converts.  No
\* index is a key of a map: node[i] is undefined there and written as nothing.
Elements(node) ==
    CASE Is(node, "seq") -> [p \in DOMAIN node.seq |-> Emit(node.seq[p])]
      [] Is(node, "map") -> [p \in DOMAIN node.map |-> Empty]
      [] OTHER -> <<>>
PairTexts(node) == [p \in DOMAIN node.map |-> Emit(node.map[p].node)]
PairKeys(node) == [p \in DOMAIN node.map |-> node.map[p].key]

RECURSIVE From(_, _)

\* vector, list, set and unordered_set.  A scalar has no elements.
FromElements(T, node) ==
    LET texts == Elements(node) IN Each([p \in DOMAIN texts |-> From(T, texts[p])])

\* map and unordered_map.  The elements of a sequence have no key.
FromPairs(T, node) ==
    IF Is(node, "seq") THEN IF node.seq = <<>> THEN {<<>>} ELSE {}
    ELSE IF ~Is(node, "map") THEN {<<>>}
    ELSE LET texts == PairTexts(node)
         IN  {Insert(PairKeys(node), values) :
                values \in Each([p \in DOMAIN texts |-> From(T, texts[p])])}

\* LexicalCast<std::string, T>; boost::lexical_cast for int and string.
From(type, text) ==
    CASE type[1] = "int" -> IF Is(text, "int") THEN {text.int} ELSE {}
      [] type[1] = "string" -> {text}
      [] type[1] = "vector" -> UNION {FromElements(type[2], y) : y \in Load(text)}
      [] type[1] = "set" ->
            UNION {{ToSet(vec) : vec \in FromElements(type[2], y)} : y \in Load(text)}
      [] type[1] = "map" -> UNION {FromPairs(type[2], y) : y \in Load(text)}

RECURSIVE To(_, _)

\* Mutant of Nodes: push_back of the text itself.
NodesOfText(T, values) ==
    Each([p \in DOMAIN values |-> {[scalar |-> text] : text \in To(T, values[p])}])

\* The nodes of the elements: each is written, and the text loaded again.
Nodes(T, values) ==
    Each([p \in DOMAIN values |-> UNION {Load(text) : text \in To(T, values[p])}])

ToElements(T, values) == {[block |-> [seq |-> nodes]] : nodes \in Nodes(T, values)}

ToPairs(T, m) ==
    LET keys == SetToSeq(DOMAIN m)
    IN  {[block |-> [map |-> [p \in DOMAIN keys |-> [key |-> keys[p], node |-> nodes[p]]]]] :
            nodes \in Nodes(T, [p \in DOMAIN keys |-> m[keys[p]]])}

\* LexicalCast<T, std::string>.
To(type, v) ==
    CASE type[1] = "int" -> {[int |-> v]}
      [] type[1] = "string" -> {v}
      [] type[1] = "vector" -> ToElements(type[2], v)
      [] type[1] = "set" -> ToElements(type[2], SetToSeq(v))
      [] type[1] = "map" -> ToPairs(type[2], v)

\* ConfigVar::toString catches what the conversion throws.
toString(type, v) == LET text == To(type, v) IN
    IF text = {} THEN Empty ELSE CHOOSE t \in text : TRUE

-----------------------------------------------------------------------------
RECURSIVE Alike(_, _, _)

\* Values that say the same: their strings are the same, or YAML of one node,
\* and containers have elements that say the same in the same places.
Alike(type, v, w) ==
    CASE type[1] = "int" -> v = w
      [] type[1] = "string" -> v = w \/ (Load(v) # {} /\ Load(v) = Load(w))
      [] type[1] = "set" ->
            /\ \A x \in v : \E y \in w : Alike(type[2], x, y)
            /\ \A y \in w : \E x \in v : Alike(type[2], x, y)
      [] OTHER -> DOMAIN v = DOMAIN w /\ \A k \in DOMAIN v : Alike(type[2], v[k], w[k])
=============================================================================
