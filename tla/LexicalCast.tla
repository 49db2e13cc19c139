----------------------------- MODULE LexicalCast -----------------------------
(***************************************************************************)
(* The conversions LexicalCast<std::string, T> and LexicalCast<T,          *)
(* std::string> of src/src/config.h between YAML text and the values of    *)
(* configuration variables.                                                *)
(*                                                                         *)
(* A type is the sequence of its containers down to the element type, as   *)
(* in <<"map", "vector", "int">> for std::map<std::string,                 *)
(* std::vector<int>>.  A text is represented by the YAML node it is the    *)
(* text of: emitting a node and loading it again gives the node, a scalar  *)
(* being a plain word.  A conversion yields the set of its result, which   *)
(* is empty when it throws.                                                *)
(***************************************************************************)
EXTENDS Naturals, SequencesExt

CONSTANTS
    Nil,        \* no value, no key
    Numbers     \* the words that boost::lexical_cast<int> accepts

\* A YAML::Node; the items of a sequence have no key.
Node(kind, val, items) == [kind |-> kind, val |-> val, items |-> items]
Item(key, node) == [key |-> key, node |-> node]

Scalar(word) == Node("scalar", word, <<>>)
Sequence(nodes) == Node("sequence", Nil, [i \in DOMAIN nodes |-> Item(Nil, nodes[i])])
Null == Node("null", Nil, <<>>)

\* The text "", which an undefined node is written as
Empty == Node("empty", Nil, <<>>)

\* YAML::Load(text)
Load(text) == IF text = Empty THEN Null ELSE text

The(S) == CHOOSE x \in S : TRUE

-----------------------------------------------------------------------------
\* node[i]: a map has no key i.
Element(node, i) == IF node.kind = "sequence" THEN node.items[i].node ELSE Empty

\* The loops over the elements: one that throws ends all of it.
All(parts) ==
    IF \E i \in DOMAIN parts : parts[i] = {} THEN {}
    ELSE {[i \in DOMAIN parts |-> The(parts[i])]}

\* emplace() of a key that is there does nothing.
FirstAt(keys, k) == CHOOSE i \in DOMAIN keys : keys[i] = k /\ \A j \in 1..(i - 1) : keys[j] # k

\* std::vector and std::list; std::set and std::unordered_set; the two maps.
\* A sequence has no pairs to iterate over.
ToVector(parts) == All(parts)
ToASet(parts) == {ToSet(s) : s \in All(parts)}
ToMap(node, parts) ==
    IF node.kind = "sequence" /\ node.items # <<>> THEN {}
    ELSE LET keys == [i \in DOMAIN node.items |-> node.items[i].key] IN
         {[k \in ToSet(keys) |-> s[FirstAt(keys, k)]] : s \in All(parts)}

RECURSIVE FromStr(_, _)

\* LexicalCast<std::string, T>.  Scalars and null have size 0: they make an
\* empty container.
FromStr(T, text) ==
    LET node == Load(text)
        Part(i) == FromStr(Tail(T), IF Head(T) = "map" THEN node.items[i].node
                                    ELSE Element(node, i))
        parts == [i \in DOMAIN node.items |-> Part(i)]
    IN CASE Head(T) = "int" -> {text.val} \cap Numbers
         [] Head(T) = "string" -> {text}
         [] Head(T) = "vector" -> ToVector(parts)
         [] Head(T) = "set" -> ToASet(parts)
         [] Head(T) = "map" -> ToMap(node, parts)

-----------------------------------------------------------------------------
\* push_back() of every element on a node that is null to begin with; and
\* node[key] = ... of every entry
PushBack(texts) ==
    IF texts = <<>> THEN Null ELSE Sequence([i \in DOMAIN texts |-> Load(texts[i])])

\* Fault: the text is stored as a string, without YAML::Load().
AssignText(keys, texts) ==
    IF keys = <<>> THEN Null
    ELSE Node("map", Nil, [i \in DOMAIN keys |-> Item(keys[i], Scalar(Nil))])

Assign(keys, texts) ==
    IF keys = <<>> THEN Null
    ELSE Node("map", Nil, [i \in DOMAIN keys |-> Item(keys[i], Load(texts[i]))])

RECURSIVE ToStr(_, _)

\* LexicalCast<T, std::string>
ToStr(T, v) ==
    LET Texts(s) == [i \in DOMAIN s |-> ToStr(Tail(T), s[i])]
    IN CASE Head(T) = "int" -> Scalar(v)
         [] Head(T) = "string" -> v
         [] Head(T) = "vector" -> PushBack(Texts(v))
         [] Head(T) = "set" -> PushBack(Texts(SetToSeq(v)))
         [] Head(T) = "map" -> LET keys == SetToSeq(DOMAIN v) IN
                               Assign(keys, Texts([i \in DOMAIN keys |-> v[keys[i]]]))

\* The value that has nothing in it
Zero(T) ==
    CASE Head(T) = "int" -> The(Numbers)
      [] Head(T) = "string" -> Null
      [] Head(T) = "vector" -> <<>>
      [] Head(T) = "set" -> {}
      [] Head(T) = "map" -> <<>>
=============================================================================
