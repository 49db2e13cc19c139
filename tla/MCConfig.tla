------------------------------ MODULE MCConfig ------------------------------
(***************************************************************************)
(* Instances of Config for TLC, with a few documents: nested and dotted    *)
(* keys for the same variable, values that do not fit, containers of       *)
(* containers, nulls, an illegal key above a legal one.                    *)
(***************************************************************************)
EXTENDS ConfigYaml

CONSTANTS a, b, bad, n1, n2, word

Map(items) == Node("map", Nil, items)

\* {a: {b: node}, further items}
Nested(node, more) == Map(<<Item(<<a>>, Map(<<Item(<<b>>, node)>>))>> \o more)

Pair(x, y) == Sequence(<<Scalar(x), Scalar(y)>>)

MCNames == {<<a>>, <<a, b>>, <<bad>>}

MCLegal == {<<a>>, <<a, b>>}

MCTypes == {<<"int">>, <<"vector", "string">>, <<"map", "set", "int">>}

MCDocs ==
    {Nested(Pair(n1, n2), <<Item(<<a, b>>, Scalar(n1))>>),
     Nested(Pair(n2, word), <<Item(<<a>>, Sequence(<<Pair(n1, n1), Null>>))>>),
     Map(<<Item(<<bad>>, Map(<<Item(<<b>>, Scalar(n1))>>)),
           Item(<<a, b>>, Map(<<Item(<<b>>, Pair(n1, n1)), Item(<<a>>, Null)>>)),
           Item(<<a>>, Scalar(n2))>>)}
=============================================================================
