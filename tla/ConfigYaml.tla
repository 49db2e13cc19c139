----------------------------- MODULE ConfigYaml -----------------------------
(***************************************************************************)
(* What LoadFromYaml() makes of a YAML document, with the conversions of   *)
(* LexicalCast.  A key is a sequence of segments, the parts between the    *)
(* dots; a map's key may itself have dots in it.                           *)
(***************************************************************************)
EXTENDS Config, LexicalCast, SequencesExt

CONSTANTS
    Illegal,        \* segments with a character that is not in [0-9a-z_.]
    MaxWidth,       \* bound of the reference: how many items a map has
    MaxDepth        \* bound of the reference: how deep maps are nested

LegalKey(key) == ToSet(key) \cap Illegal = {}

RECURSIVE ListAllMember(_, _)

\* The node itself, then its items, with the keys joined; an illegal key and
\* all that is below it are left out.
ListAllMember(prefix, node) ==
    IF ~LegalKey(prefix) THEN <<>>
    ELSE LET below == IF node.kind = "map" THEN node.items ELSE <<>> IN
         <<Item(prefix, node)>> \o
         FlattenSeq([i \in DOMAIN below |->
                        ListAllMember(prefix \o below[i].key, below[i].node)])

YamlMembers(doc) == ListAllMember(<<>>, doc)

-----------------------------------------------------------------------------
(***************************************************************************)
(* Reference: a node is found by the positions that lead to it.            *)
(***************************************************************************)
Step(at, i) ==
    IF at # None /\ at.node.kind = "map" /\ i \in DOMAIN at.node.items
    THEN Item(at.key \o at.node.items[i].key, at.node.items[i].node)
    ELSE None

At(doc, path) == FoldLeft(Step, Item(<<>>, doc), path)

Paths(doc) ==
    {p \in UNION {[1..k -> 1..MaxWidth] : k \in 0..MaxDepth} : At(doc, p) # None}

\* Reading order: a node comes before its items and before its later siblings.
Before(p, q) ==
    \/ IsStrictPrefix(p, q)
    \/ \E k \in DOMAIN p \cap DOMAIN q :
          p[k] < q[k] /\ SubSeq(p, 1, k - 1) = SubSeq(q, 1, k - 1)

\* The places of the document that give variable v, of name n, a value.
Hits(doc, n, v) ==
    {p \in Paths(doc) : At(doc, p).key = n /\ FromStr(v.type, At(doc, p).node) # {}}

Wanted(doc, n, v) ==
    LET hits == Hits(doc, n, v) IN
    IF hits = {} THEN v.val
    ELSE LET last == CHOOSE p \in hits : \A q \in hits : q = p \/ Before(q, p)
         IN The(FromStr(v.type, At(doc, last).node))

\* README: "when the configuration is changed and loaded again, the value is
\* updated".  LookupBase() searches a map that no one inserts into, although it
\* takes no lock, and once all members are handled every variable has the last
\* value that the document has for it, wherever it is written, and the value it
\* had if there is none.
LoadReaches ==
    \A t \in Threads : pc[t] = "load" =>
        /\ Registered = DOMAIN before
        /\ call[t].todo = <<>> =>
              \A n \in Registered : s_datas[n].val = Wanted(call[t].doc, n, before[n])

\* What toString() prints of a variable is read by fromString() without error
\* and prints the same again; where the elements are numbers it is the same
\* value.  Of strings, "" comes back as "~", the text of a null node.
RoundTrip ==
    \A n \in Registered :
        LET T == s_datas[n].type
            text == ToStr(T, s_datas[n].val)
            again == FromStr(T, text)
        IN /\ again # {} /\ ToStr(T, The(again)) = text
           /\ Last(T) = "int" => again = {s_datas[n].val}
=============================================================================
