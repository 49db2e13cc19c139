---------------------------- MODULE LogFormatter ----------------------------
(***************************************************************************)
(* The pattern parser LogFormatter::init() of src/src/log.cpp.  A pattern  *)
(* is a sequence of characters.  The for loop of init() is the iteration   *)
(* of Step on the record of its variables: i, nstr, vec and m_error; an    *)
(* iteration consumes at least one character, so that Len(p) iterations    *)
(* are enough.                                                             *)
(*                                                                         *)
(* The inner loop that looks for the end of an item is told by where it    *)
(* stops.  Its fmt_status is 1 at the end just when a `{' was not closed.  *)
(***************************************************************************)
EXTENDS Naturals, SequencesExt

CONSTANTS
    Letters,        \* the characters that isalpha() accepts
    ItemNames       \* the keys of s_format_items, sequences of letters

\* The characters that init() knows
Percent == "%"
Open == "{"
Close == "}"

ASSUME LogFormatterConstants ==
    /\ Letters \cap {Percent, Open, Close} = {}
    /\ ItemNames \subseteq Seq(Letters) \ {<<>>}

\* An element of vec.  Type 0 is plain text, type 1 an item %str{fmt}.
Text(str) == [str |-> str, fmt |-> <<>>, type |-> 0]
Item(str, fmt) == [str |-> str, fmt |-> fmt, type |-> 1]

\* The first position from n on whose character is in S, Len(p) + 1 if none is
FirstIn(p, n, S) == Min({k \in n..Len(p) : p[k] \in S} \cup {Len(p) + 1})

\* Where the name of the item at position i ends
NameEnd(p, i) ==
    Min({k \in (i + 1)..Len(p) : p[k] \notin Letters \cup {Close}} \cup {Len(p) + 1})

\* The text collected so far becomes an element of vec.
Flush(vec, nstr) == IF nstr = <<>> THEN vec ELSE Append(vec, Text(nstr))

\* A character of plain text
TakeText(s, c) == [s EXCEPT !.i = @ + 1, !.nstr = Append(@, c)]

\* Fault: the text in front of an item is kept for later.
TakeItemEarly(s, item, n) == [s EXCEPT !.i = n, !.vec = Append(@, item)]

\* An item that ends in front of position n
TakeItem(s, item, n) ==
    [s EXCEPT !.i = n, !.nstr = <<>>, !.vec = Append(Flush(@, s.nstr), item)]

ErrorText == <<"<<pattern_error>>">>

\* A `{' that is not closed: the rest of the item is read again, as text.
TakeError(s) ==
    [s EXCEPT !.i = @ + 1, !.error = TRUE, !.vec = Append(@, Text(ErrorText))]

\* One iteration of the loop.  Of two `%' only the first is text: the second
\* is looked at again and starts an item.
Step(p, s) ==
    LET i == s.i
        n == NameEnd(p, i)
        m == FirstIn(p, n + 1, {Close})
        str == SubSeq(p, i + 1, n - 1)
    IN  CASE i > Len(p) -> s
          [] i <= Len(p) /\ p[i] # Percent -> TakeText(s, p[i])
          [] i < Len(p) /\ p[i] = Percent /\ p[i + 1] = Percent -> TakeText(s, Percent)
          [] OTHER ->
                IF n > Len(p) \/ p[n] # Open THEN TakeItem(s, Item(str, <<>>), n)
                ELSE IF m <= Len(p) THEN TakeItem(s, Item(str, SubSeq(p, n + 1, m - 1)), m + 1)
                ELSE TakeError(s)

\* The variables in front of the loop and behind n iterations
Begin == [i |-> 1, nstr |-> <<>>, vec |-> <<>>, error |-> FALSE]

Run(p) ==
    LET run[n \in 0..Len(p)] == IF n = 0 THEN Begin ELSE Step(p, run[n - 1])
    IN  run

Scan(p) == Run(p)[Len(p)]

\* vec behind the loop
Items(p) == Flush(Scan(p).vec, Scan(p).nstr)

\* m_error: also for an item that s_format_items does not know
isError(p) == Scan(p).error \/ \E e \in ToSet(Items(p)) : e.type = 1 /\ e.str \notin ItemNames

-----------------------------------------------------------------------------
(***************************************************************************)
(* What a pattern is, without a parser: it can be cut into pieces, each of *)
(* them a plain character, a `%' in front of a `%', an item %name that no  *)
(* letter or brace follows, or an item %name{format}.                      *)
(***************************************************************************)

\* There is a piece from position i to the one in front of j.
Piece(p, i, j) ==
    \/ p[i] # Percent /\ j = i + 1
    \/ p[i] = Percent /\ i < Len(p) /\ p[i + 1] = Percent /\ j = i + 1
    \/ /\ p[i] = Percent
       /\ \E n \in (i + 1)..j :
             /\ SubSeq(p, i + 1, n - 1) \in ItemNames
             /\ \/ j = n /\ (n <= Len(p) => p[n] \notin Letters \cup {Open, Close})
                \/ /\ n < j - 1 /\ p[n] = Open /\ p[j - 1] = Close
                   /\ \A k \in (n + 1)..(j - 2) : p[k] # Close

\* From the start, and wherever a piece ends, there is a further piece to the end.
Written(p) ==
    \E cuts \in SUBSET (1..(Len(p) + 1)) :
        /\ 1 \in cuts
        /\ \A i \in cuts \ {Len(p) + 1} : \E j \in cuts : Piece(p, i, j)

\* The ways to write an element of vec; without a format, {} may be left out.
Spells(e, str) ==
    \/ e.type = 0 /\ str = e.str
    \/ e.type = 1 /\ e.fmt = <<>> /\ str = <<Percent>> \o e.str
    \/ e.type = 1 /\ str = <<Percent>> \o e.str \o <<Open>> \o e.fmt \o <<Close>>

\* The elements of v, one behind the other, are what p has in front of position a.
SpeltUpTo(p, v, a) ==
    \E cut \in [0..Len(v) -> 1..(Len(p) + 1)] :
        /\ cut[0] = 1 /\ cut[Len(v)] = a
        /\ \A k \in 1..Len(v) : Spells(v[k], SubSeq(p, cut[k - 1], cut[k] - 1))

\* init() reports an error for exactly the patterns that are not written as
\* above.
AcceptsWritten(p) == isError(p) <=> ~Written(p)

\* The elements of an accepted pattern spell the pattern, in its order, and no
\* two of them in a row are text.
ReadsBack(p) ==
    ~isError(p) =>
        /\ SpeltUpTo(p, Items(p), Len(p) + 1)
        /\ \A k \in 1..(Len(Items(p)) - 1) : Items(p)[k].type = 1 \/ Items(p)[k + 1].type = 1
=============================================================================
