-------------------------- MODULE LogConfigProofs --------------------------
(***************************************************************************)
(* TLAPS proofs about LogFormatter and LogConfig, in this order: init()    *)
(* accepts the well-written patterns and keeps all of their text; what is  *)
(* printed of a define, and of a logger, parses as what it was; and the    *)
(* difference of two values, which is all that the listener of LogIniter   *)
(* works with, brings every logger to what the new value says.  All of it  *)
(* for any characters, patterns of any length, loggers, documents and any  *)
(* sequence of loads.                                                      *)
(***************************************************************************)
EXTENDS LogConfig, SequenceTheorems, WellFoundedInduction, TLAPS

-----------------------------------------------------------------------------
(***************************************************************************)
(* Induction.  A statement about all numbers is proved by its least        *)
(* counterexample: there is a least one if there is any.                   *)
(***************************************************************************)

LEMMA Least ==
    ASSUME NEW S \in SUBSET Nat, S # {}
    PROVE  \E n \in S : \A k \in S : n <= k
<1> DEFINE less == OpToRel(<, Nat)
<1>1. PICK n \in S : \A k \in S : <<k, n>> \notin less
  BY NatLessThanWellFounded, WFMin, Zenon
<1>2. \A k, m \in Nat : k < m => <<k, m>> \in less
  BY DEF OpToRel
<1> HIDE DEF less
<1>3. ASSUME NEW k \in S PROVE n <= k
  <2>1. n \in Nat /\ k \in Nat
    OBVIOUS
  <2>2. ~(k < n)
    BY <1>1, <1>2, <2>1, Zenon
  <2> QED BY <2>1, <2>2
<1> QED BY <1>3

\* A set of numbers up to L that has 0, and n + 1 with n, has them all.
LEMMA UpTo ==
    ASSUME NEW L \in Nat, NEW S, 0 \in S, \A n \in 0..L : n < L /\ n \in S => n + 1 \in S
    PROVE  \A n \in 0..L : n \in S
<1> DEFINE B == {n \in 0..L : n \notin S}
<1> SUFFICES ASSUME B # {} PROVE FALSE
  OBVIOUS
<1>1. PICK n \in B : \A k \in B : n <= k
  <2>1. B \in SUBSET Nat
    OBVIOUS
  <2> HIDE DEF B
  <2> QED BY <2>1, Least
<1>2. n \in Nat /\ n # 0 /\ n - 1 \in 0..L /\ n - 1 < L
  OBVIOUS
<1>3. n - 1 \in S
  BY <1>1, <1>2
<1>4. (n - 1) + 1 \in S
  BY <1>2, <1>3
<1> QED BY <1>2, <1>4

\* The same downwards.
LEMMA DownFrom ==
    ASSUME NEW L \in Nat, NEW S, L \in S, \A n \in 0..L : n < L /\ n + 1 \in S => n \in S
    PROVE  \A n \in 0..L : n \in S
<1> DEFINE T == {k \in 0..L : L - k \in S}
<1>1. 0 \in T
  OBVIOUS
<1>2. ASSUME NEW n \in 0..L, n < L, n \in T PROVE n + 1 \in T
  <2>1. L - (n + 1) \in 0..L /\ L - (n + 1) < L /\ (L - (n + 1)) + 1 = L - n
    BY <1>2
  <2>2. L - (n + 1) \in S
    BY <1>2, <2>1
  <2> QED BY <1>2, <2>2
<1>3. \A n \in 0..L : n \in T
  <2> HIDE DEF T
  <2> QED BY <1>1, <1>2, UpTo
<1>4. ASSUME NEW n \in 0..L PROVE n \in S
  <2>1. L - n \in T
    BY <1>3
  <2>2. L - (L - n) = n
    OBVIOUS
  <2> QED BY <2>1, <2>2
<1> QED BY <1>4

LEMMA MinFacts ==
    ASSUME NEW S \in SUBSET Nat, S # {}
    PROVE  Min(S) \in S /\ \A k \in S : Min(S) <= k
<1>1. \E n \in S : \A k \in S : n <= k
  BY Least
<1> QED BY <1>1, Zenon DEF Min

-----------------------------------------------------------------------------
(***************************************************************************)
(* The loop of init().                                                     *)
(***************************************************************************)

\* The elements of vec, of a pattern with characters in C
Elements(C) == [str : Seq(C) \cup {ErrorText}, fmt : Seq(C), type : {0, 1}]

\* What the variables of the loop can hold.
Variables(C, p) ==
    [i : 1..(Len(p) + 1), nstr : Seq(C), vec : Seq(Elements(C)), error : BOOLEAN]

LEMMA RunDef ==
    ASSUME NEW C, NEW p \in Seq(C)
    PROVE  Run(p) = [n \in 0..Len(p) |-> IF n = 0 THEN Begin ELSE Step(p, Run(p)[n - 1])]
<1> DEFINE Is(f, m) == f = [n \in 0..m |-> IF n = 0 THEN Begin ELSE Step(p, f[n - 1])]
           S == {m \in 0..Len(p) : \E f : Is(f, m)}
<1>0. Len(p) \in Nat
  OBVIOUS
<1>1. 0 \in S
  <2>1. Is([n \in 0..0 |-> Begin], 0)
    OBVIOUS
  <2> HIDE DEF Is
  <2> QED BY <1>0, <2>1
<1>2. ASSUME NEW m \in 0..Len(p), m < Len(p), m \in S PROVE m + 1 \in S
  <2>1. PICK f : Is(f, m)
    BY <1>2
  <2> DEFINE g == [n \in 0..(m + 1) |-> IF n = m + 1 THEN Step(p, f[m]) ELSE f[n]]
  <2>2. \A n \in 0..(m + 1) : g[n] = IF n = 0 THEN Begin ELSE Step(p, g[n - 1])
    <3> TAKE n \in 0..(m + 1)
    <3>1. CASE n = m + 1
      BY <1>0, <3>1
    <3>2. CASE n # m + 1
      <4>1. n \in 0..m /\ (n # 0 => n - 1 \in 0..m) /\ n # m + 1 /\ n - 1 # m + 1
        BY <1>0, <3>2
      <4>2. f[n] = IF n = 0 THEN Begin ELSE Step(p, f[n - 1])
        BY <2>1, <4>1
      <4>3. g[n] = f[n] /\ (n # 0 => g[n - 1] = f[n - 1])
        BY <1>0, <4>1
      <4> QED BY <4>2, <4>3
    <3> QED BY <3>1, <3>2
  <2>3. Is(g, m + 1)
    BY <2>2, Zenon
  <2>4. m + 1 \in 0..Len(p)
    BY <1>0, <1>2
  <2> HIDE DEF Is, g
  <2>5. \E h : Is(h, m + 1)
    BY <2>3, Zenon
  <2> QED BY <2>4, <2>5, Zenon
<1>3. Len(p) \in S
  <2> HIDE DEF S
  <2>1. \A n \in 0..Len(p) : n \in S
    BY <1>0, <1>1, <1>2, UpTo
  <2>2. Len(p) \in 0..Len(p)
    BY <1>0
  <2> QED BY <2>1, <2>2, Zenon
<1>4. \E f : Is(f, Len(p))
  BY <1>3
<1>5. Run(p) = CHOOSE f : Is(f, Len(p))
  BY DEF Run
<1> HIDE DEF Is
<1>6. Is(Run(p), Len(p))
  BY <1>4, <1>5, Zenon
<1> QED BY <1>6 DEF Is

LEMMA CharsDiffer == Percent # Open /\ Percent # Close /\ Open # Close
BY Zenon DEF Percent, Open, Close

LEMMA NameEndFacts ==
    ASSUME NEW C, NEW p \in Seq(C), NEW i \in 1..Len(p)
    PROVE  /\ NameEnd(p, i) \in (i + 1)..(Len(p) + 1)
           /\ NameEnd(p, i) <= Len(p) => p[NameEnd(p, i)] \notin Letters \cup {Close}
           /\ \A k \in (i + 1)..(NameEnd(p, i) - 1) : p[k] \in Letters \cup {Close}
<1> DEFINE S == {k \in (i + 1)..Len(p) : p[k] \notin Letters \cup {Close}} \cup {Len(p) + 1}
           n == NameEnd(p, i)
<1>1. Len(p) \in Nat
  OBVIOUS
<1>2. S \in SUBSET Nat /\ S # {} /\ S \subseteq (i + 1)..(Len(p) + 1)
  BY <1>1
<1>3. n \in S /\ \A k \in S : n <= k
  <2> HIDE DEF S
  <2>1. Min(S) \in S /\ \A k \in S : Min(S) <= k
    BY <1>2, MinFacts
  <2> QED BY <2>1 DEF NameEnd, S
<1>4. n \in (i + 1)..(Len(p) + 1)
  BY <1>2, <1>3
<1> HIDE DEF n
<1>5. n <= Len(p) => p[n] \notin Letters \cup {Close}
  BY <1>1, <1>3, <1>4
<1>6. ASSUME NEW k \in (i + 1)..(n - 1) PROVE p[k] \in Letters \cup {Close}
  BY <1>1, <1>3, <1>4
<1> QED BY <1>4, <1>5, <1>6 DEF n

LEMMA CloseFacts ==
    ASSUME NEW C, NEW p \in Seq(C), NEW n \in 1..Len(p)
    PROVE  /\ FirstIn(p, n + 1, {Close}) \in (n + 1)..(Len(p) + 1)
           /\ FirstIn(p, n + 1, {Close}) <= Len(p) => p[FirstIn(p, n + 1, {Close})] = Close
           /\ \A k \in (n + 1)..(FirstIn(p, n + 1, {Close}) - 1) : p[k] # Close
<1> DEFINE S == {k \in (n + 1)..Len(p) : p[k] \in {Close}} \cup {Len(p) + 1}
           m == FirstIn(p, n + 1, {Close})
<1>1. Len(p) \in Nat
  OBVIOUS
<1>2. S \in SUBSET Nat /\ S # {} /\ S \subseteq (n + 1)..(Len(p) + 1)
  BY <1>1
<1>3. m \in S /\ \A k \in S : m <= k
  <2> HIDE DEF S
  <2>1. Min(S) \in S /\ \A k \in S : Min(S) <= k
    BY <1>2, MinFacts
  <2> QED BY <2>1 DEF FirstIn, S
<1>4. m \in (n + 1)..(Len(p) + 1)
  BY <1>2, <1>3
<1> HIDE DEF m
<1>5. m <= Len(p) => p[m] = Close
  BY <1>1, <1>3, <1>4
<1>6. ASSUME NEW k \in (n + 1)..(m - 1) PROVE p[k] # Close
  BY <1>1, <1>3, <1>4
<1> QED BY <1>4, <1>5, <1>6 DEF m

\* The name of the item at position i, and its text with a format
ItemName(p, i) == SubSeq(p, i + 1, NameEnd(p, i) - 1)
FormatEnd(p, i) == FirstIn(p, NameEnd(p, i) + 1, {Close})
Format(p, i) == SubSeq(p, NameEnd(p, i) + 1, FormatEnd(p, i) - 1)

\* What the character at position i starts
IsText(p, i) == p[i] # Percent \/ (i < Len(p) /\ p[i + 1] = Percent)
IsBare(p, i) == ~IsText(p, i) /\ (NameEnd(p, i) > Len(p) \/ p[NameEnd(p, i)] # Open)
IsFormatted(p, i) ==
    /\ ~IsText(p, i) /\ NameEnd(p, i) <= Len(p) /\ p[NameEnd(p, i)] = Open
    /\ FormatEnd(p, i) <= Len(p)
IsUnclosed(p, i) ==
    /\ ~IsText(p, i) /\ NameEnd(p, i) <= Len(p) /\ p[NameEnd(p, i)] = Open
    /\ FormatEnd(p, i) > Len(p)

LEMMA StepCases ==
    ASSUME NEW C, NEW p \in Seq(C), NEW s, s.i \in 1..(Len(p) + 1)
    PROVE  /\ s.i > Len(p) => Step(p, s) = s
           /\ s.i <= Len(p) /\ IsText(p, s.i) => Step(p, s) = TakeText(s, p[s.i])
           /\ s.i <= Len(p) /\ IsBare(p, s.i)
                => Step(p, s) = TakeItem(s, Item(ItemName(p, s.i), <<>>), NameEnd(p, s.i))
           /\ s.i <= Len(p) /\ IsFormatted(p, s.i)
                => Step(p, s) = TakeItem(s, Item(ItemName(p, s.i), Format(p, s.i)),
                                         FormatEnd(p, s.i) + 1)
           /\ s.i <= Len(p) /\ IsUnclosed(p, s.i) => Step(p, s) = TakeError(s)
           /\ s.i <= Len(p) =>
                IsText(p, s.i) \/ IsBare(p, s.i) \/ IsFormatted(p, s.i) \/ IsUnclosed(p, s.i)
<1>0. Len(p) \in Nat /\ s.i \in Nat
  OBVIOUS
<1>1. s.i > Len(p) => Step(p, s) = s
  BY <1>0 DEF Step
<1>2. s.i <= Len(p) => ~(s.i > Len(p))
  BY <1>0
<1> DEFINE n == NameEnd(p, s.i)
           m == FormatEnd(p, s.i)
<1>3. s.i <= Len(p) /\ IsText(p, s.i) => Step(p, s) = TakeText(s, p[s.i])
  BY <1>2, Zenon DEF Step, IsText
<1>4. s.i <= Len(p) /\ ~IsText(p, s.i) =>
        Step(p, s) = IF n > Len(p) \/ p[n] # Open THEN TakeItem(s, Item(ItemName(p, s.i), <<>>), n)
                     ELSE IF m <= Len(p)
                     THEN TakeItem(s, Item(ItemName(p, s.i), Format(p, s.i)), m + 1)
                     ELSE TakeError(s)
  BY <1>2, Zenon DEF Step, IsText, ItemName, Format, FormatEnd
<1>5. s.i <= Len(p) => n \in Nat
  <2> SUFFICES ASSUME s.i <= Len(p) PROVE n \in Nat
    OBVIOUS
  <2>1. s.i \in 1..Len(p)
    BY <1>0
  <2> QED BY <1>0, <2>1, NameEndFacts
<1>6. s.i <= Len(p) /\ n <= Len(p) => m \in Nat
  <2> SUFFICES ASSUME s.i <= Len(p), n <= Len(p) PROVE m \in Nat
    OBVIOUS
  <2>1. s.i \in 1..Len(p)
    BY <1>0
  <2>2. n \in 1..Len(p)
    BY <1>0, <2>1, NameEndFacts
  <2> HIDE DEF n
  <2>3. FirstIn(p, n + 1, {Close}) \in (n + 1)..(Len(p) + 1)
    BY <2>2, CloseFacts
  <2> QED BY <1>0, <2>2, <2>3 DEF FormatEnd, n
<1> HIDE DEF n, m
<1>7. s.i <= Len(p) /\ IsBare(p, s.i)
        => Step(p, s) = TakeItem(s, Item(ItemName(p, s.i), <<>>), NameEnd(p, s.i))
  BY <1>4, Zenon DEF IsBare, n
<1>8. s.i <= Len(p) /\ n <= Len(p) => ~(n > Len(p))
  BY <1>0, <1>5
<1>9. s.i <= Len(p) /\ n <= Len(p) /\ m > Len(p) => ~(m <= Len(p))
  BY <1>0, <1>6
<1>10. s.i <= Len(p) /\ IsFormatted(p, s.i)
        => Step(p, s) = TakeItem(s, Item(ItemName(p, s.i), Format(p, s.i)), FormatEnd(p, s.i) + 1)
  BY <1>4, <1>8, Zenon DEF IsFormatted, n, m
<1>11. s.i <= Len(p) /\ IsUnclosed(p, s.i) => Step(p, s) = TakeError(s)
  BY <1>4, <1>8, <1>9, Zenon DEF IsUnclosed, n, m
<1>12. s.i <= Len(p) /\ ~(n > Len(p)) => n <= Len(p)
  BY <1>0, <1>5
<1>13. s.i <= Len(p) /\ n <= Len(p) /\ ~(m > Len(p)) => m <= Len(p)
  BY <1>0, <1>6
<1>14. s.i <= Len(p) =>
        IsText(p, s.i) \/ IsBare(p, s.i) \/ IsFormatted(p, s.i) \/ IsUnclosed(p, s.i)
  BY <1>12, <1>13, Zenon DEF IsBare, IsFormatted, IsUnclosed, n, m
<1> QED BY <1>1, <1>3, <1>7, <1>10, <1>11, <1>14, Zenon

\* Where the loop goes on behind position i
LEMMA PieceEnds ==
    ASSUME NEW C, NEW p \in Seq(C), NEW i \in 1..Len(p)
    PROVE  /\ NameEnd(p, i) \in (i + 1)..(Len(p) + 1)
           /\ IsFormatted(p, i) =>
                /\ FormatEnd(p, i) \in (NameEnd(p, i) + 1)..Len(p)
                /\ p[NameEnd(p, i)] = Open /\ p[FormatEnd(p, i)] = Close
                /\ \A k \in (NameEnd(p, i) + 1)..(FormatEnd(p, i) - 1) : p[k] # Close
           /\ IsUnclosed(p, i) => \A k \in (NameEnd(p, i) + 1)..Len(p) : p[k] # Close
<1> DEFINE n == NameEnd(p, i)
           m == FirstIn(p, n + 1, {Close})
<1>0. Len(p) \in Nat
  OBVIOUS
<1>1. n \in (i + 1)..(Len(p) + 1)
  BY NameEndFacts
<1>2. n <= Len(p) => /\ m \in (n + 1)..(Len(p) + 1)
                     /\ m <= Len(p) => p[m] = Close
                     /\ \A k \in (n + 1)..(m - 1) : p[k] # Close
  <2> HIDE DEF n
  <2> SUFFICES ASSUME n <= Len(p)
               PROVE  /\ m \in (n + 1)..(Len(p) + 1)
                      /\ m <= Len(p) => p[m] = Close
                      /\ \A k \in (n + 1)..(m - 1) : p[k] # Close
    OBVIOUS
  <2>1. n \in 1..Len(p)
    BY <1>0, <1>1
  <2> HIDE DEF m
  <2> QED BY <2>1, CloseFacts DEF m
<1> HIDE DEF n, m
<1>3. n = NameEnd(p, i) /\ m = FormatEnd(p, i)
  BY DEF n, m, FormatEnd
<1>4. IsFormatted(p, i) => n <= Len(p) /\ m <= Len(p) /\ p[n] = Open
  BY <1>3 DEF IsFormatted
<1>5. IsUnclosed(p, i) => n <= Len(p) /\ m > Len(p)
  BY <1>3 DEF IsUnclosed
<1>6. IsFormatted(p, i) => /\ m \in (n + 1)..Len(p) /\ p[n] = Open /\ p[m] = Close
                           /\ \A k \in (n + 1)..(m - 1) : p[k] # Close
  BY <1>0, <1>1, <1>2, <1>4
<1>7. IsUnclosed(p, i) => \A k \in (n + 1)..Len(p) : p[k] # Close
  BY <1>0, <1>1, <1>2, <1>5
<1> QED BY <1>1, <1>3, <1>6, <1>7

LEMMA FlushType ==
    ASSUME NEW C, NEW vec \in Seq(Elements(C)), NEW nstr \in Seq(C)
    PROVE  Flush(vec, nstr) \in Seq(Elements(C))
<1>1. Text(nstr) \in Elements(C)
  BY DEF Text, Elements
<1> HIDE DEF Elements
<1> QED BY <1>1 DEF Flush

LEMMA SubSeqOf ==
    ASSUME NEW C, NEW p \in Seq(C), NEW a \in 1..(Len(p) + 1), NEW b \in 0..Len(p)
    PROVE  /\ SubSeq(p, a, b) \in Seq(C)
           /\ Len(SubSeq(p, a, b)) = IF a <= b THEN b - a + 1 ELSE 0
           /\ \A k \in 1..(b - a + 1) : SubSeq(p, a, b)[k] = p[a + k - 1]
           /\ b < a => SubSeq(p, a, b) = <<>>
<1>0. Len(p) \in Nat
  OBVIOUS
<1>1. \A k \in a..b : p[k] \in C
  BY <1>0
<1>2. SubSeq(p, a, b) \in Seq(C)
  BY <1>0, <1>1
<1>3. Len(SubSeq(p, a, b)) = IF a <= b THEN b - a + 1 ELSE 0
  BY <1>0
<1>4. \A k \in 1..(b - a + 1) : SubSeq(p, a, b)[k] = p[a + k - 1]
  BY <1>0
<1>5. b < a => SubSeq(p, a, b) = <<>>
  BY <1>0, <1>2, <1>3, EmptySeq
<1> QED BY <1>2, <1>3, <1>4, <1>5

LEMMA ItemTypes ==
    ASSUME NEW C, NEW p \in Seq(C), NEW i \in 1..Len(p)
    PROVE  /\ Item(ItemName(p, i), <<>>) \in Elements(C)
           /\ IsFormatted(p, i) => Item(ItemName(p, i), Format(p, i)) \in Elements(C)
<1>0. Len(p) \in Nat
  OBVIOUS
<1> DEFINE n == NameEnd(p, i)
           m == FormatEnd(p, i)
<1>1. n \in (i + 1)..(Len(p) + 1) /\ (IsFormatted(p, i) => m \in (n + 1)..Len(p))
  BY PieceEnds
<1> HIDE DEF n, m
<1>2. SubSeq(p, i + 1, n - 1) \in Seq(C)
  <2>1. i + 1 \in 1..(Len(p) + 1) /\ n - 1 \in 0..Len(p)
    BY <1>0, <1>1
  <2> QED BY <2>1, SubSeqOf
<1>3. IsFormatted(p, i) => SubSeq(p, n + 1, m - 1) \in Seq(C)
  <2> SUFFICES ASSUME IsFormatted(p, i) PROVE SubSeq(p, n + 1, m - 1) \in Seq(C)
    OBVIOUS
  <2>1. n + 1 \in 1..(Len(p) + 1) /\ m - 1 \in 0..Len(p)
    BY <1>0, <1>1
  <2> QED BY <2>1, SubSeqOf
<1>4. \A str, fmt \in Seq(C) : Item(str, fmt) \in Elements(C)
  BY DEF Item, Elements
<1>5. <<>> \in Seq(C)
  OBVIOUS
<1> QED BY <1>2, <1>3, <1>4, <1>5, Zenon DEF ItemName, Format, n, m

\* An iteration keeps the types and goes forward.
LEMMA StepType ==
    ASSUME NEW C, NEW p \in Seq(C), NEW s \in Variables(C, p)
    PROVE  /\ Step(p, s) \in Variables(C, p)
           /\ s.i <= Len(p) => Step(p, s).i > s.i
<1>0. Len(p) \in Nat /\ s.i \in 1..(Len(p) + 1)
  BY DEF Variables
<1>s. /\ s.nstr \in Seq(C) /\ s.vec \in Seq(Elements(C)) /\ s.error \in BOOLEAN
      /\ s = [i |-> s.i, nstr |-> s.nstr, vec |-> s.vec, error |-> s.error]
  BY DEF Variables
<1> HIDE DEF Elements
<1>1. CASE s.i > Len(p)
  <2>1. Step(p, s) = s
    BY <1>0, <1>1, StepCases
  <2> QED BY <1>0, <1>1, <2>1
<1>2. CASE s.i <= Len(p)
  <2>0. s.i \in 1..Len(p)
    BY <1>0, <1>2
  <2>c. ASSUME NEW item \in Elements(C), NEW n \in (s.i + 1)..(Len(p) + 1)
        PROVE  TakeItem(s, item, n) \in Variables(C, p) /\ TakeItem(s, item, n).i = n
    <3>1. Flush(s.vec, s.nstr) \in Seq(Elements(C))
      BY <1>s, FlushType
    <3>2. Append(Flush(s.vec, s.nstr), item) \in Seq(Elements(C))
      BY <3>1
    <3>3. n \in 1..(Len(p) + 1) /\ <<>> \in Seq(C)
      BY <1>0
    <3> HIDE DEF Flush
    <3> QED BY <1>s, <3>2, <3>3 DEF TakeItem, Variables
  <2>1. CASE IsText(p, s.i)
    <3>1. Step(p, s) = TakeText(s, p[s.i])
      BY <1>0, <1>2, <2>1, StepCases
    <3>2. p[s.i] \in C
      BY <2>0
    <3>3. Append(s.nstr, p[s.i]) \in Seq(C) /\ s.i + 1 \in 1..(Len(p) + 1)
      BY <1>s, <1>0, <2>0, <3>2
    <3>4. Step(p, s) = [i |-> s.i + 1, nstr |-> Append(s.nstr, p[s.i]), vec |-> s.vec,
                        error |-> s.error]
      BY <1>s, <3>1 DEF TakeText
    <3>5. Step(p, s).i = s.i + 1 /\ Step(p, s) \in Variables(C, p)
      BY <1>s, <3>3, <3>4 DEF Variables
    <3> QED BY <1>0, <3>5
  <2>2. CASE IsBare(p, s.i)
    <3>1. Step(p, s) = TakeItem(s, Item(ItemName(p, s.i), <<>>), NameEnd(p, s.i))
      BY <1>0, <1>2, <2>2, StepCases
    <3>2. Item(ItemName(p, s.i), <<>>) \in Elements(C) /\ NameEnd(p, s.i) \in (s.i + 1)..(Len(p) + 1)
      BY <2>0, ItemTypes, PieceEnds
    <3> QED BY <1>0, <2>c, <3>1, <3>2
  <2>3. CASE IsFormatted(p, s.i)
    <3>1. Step(p, s) = TakeItem(s, Item(ItemName(p, s.i), Format(p, s.i)), FormatEnd(p, s.i) + 1)
      BY <1>0, <1>2, <2>3, StepCases
    <3>2. Item(ItemName(p, s.i), Format(p, s.i)) \in Elements(C)
      BY <2>0, <2>3, ItemTypes
    <3>3. NameEnd(p, s.i) \in (s.i + 1)..(Len(p) + 1) /\ FormatEnd(p, s.i) \in (NameEnd(p, s.i) + 1)..Len(p)
      BY <2>0, <2>3, PieceEnds
    <3>4. FormatEnd(p, s.i) + 1 \in (s.i + 1)..(Len(p) + 1)
      BY <1>0, <3>3
    <3> QED BY <1>0, <2>c, <3>1, <3>2, <3>4
  <2>4. CASE IsUnclosed(p, s.i)
    <3>1. Step(p, s) = TakeError(s)
      BY <1>0, <1>2, <2>4, StepCases
    <3>2. Text(ErrorText) \in Elements(C)
      BY DEF Text, Elements
    <3>3. Append(s.vec, Text(ErrorText)) \in Seq(Elements(C)) /\ s.i + 1 \in 1..(Len(p) + 1)
      BY <1>s, <1>0, <2>0, <3>2
    <3>4. Step(p, s) = [i |-> s.i + 1, nstr |-> s.nstr, vec |-> Append(s.vec, Text(ErrorText)),
                        error |-> TRUE]
      BY <1>s, <3>1 DEF TakeError
    <3>5. Step(p, s).i = s.i + 1 /\ Step(p, s) \in Variables(C, p)
      BY <1>s, <3>3, <3>4 DEF Variables
    <3> QED BY <1>0, <3>5
  <2> QED BY <1>0, <1>2, <2>1, <2>2, <2>3, <2>4, StepCases
<1> QED BY <1>0, <1>1, <1>2

LEMMA RunStep ==
    ASSUME NEW C, NEW p \in Seq(C)
    PROVE  Run(p)[0] = Begin /\ \A n \in 0..Len(p) : n < Len(p) => Run(p)[n + 1] = Step(p, Run(p)[n])
<1> DEFINE R == Run(p)
<1> HIDE DEF R
<1>0. Len(p) \in Nat
  OBVIOUS
<1>1. R = [n \in 0..Len(p) |-> IF n = 0 THEN Begin ELSE Step(p, R[n - 1])]
  BY RunDef DEF R
<1>2. R[0] = Begin
  BY <1>0, <1>1
<1>3. ASSUME NEW n \in 0..Len(p), n < Len(p) PROVE R[n + 1] = Step(p, R[n])
  <2>1. n + 1 \in 0..Len(p) /\ n + 1 # 0 /\ (n + 1) - 1 = n
    BY <1>0, <1>3
  <2>2. R[n + 1] = Step(p, R[(n + 1) - 1])
    BY <1>1, <2>1, Zenon
  <2> QED BY <2>1, <2>2
<1> QED BY <1>2, <1>3 DEF R

\* Behind n iterations at least n characters are read, so behind Len(p) all.
LEMMA RunType ==
    ASSUME NEW C, NEW p \in Seq(C)
    PROVE  /\ \A n \in 0..Len(p) : Run(p)[n] \in Variables(C, p)
           /\ Run(p)[Len(p)].i = Len(p) + 1
<1> DEFINE R == Run(p)
           S == {n \in 0..Len(p) : R[n] \in Variables(C, p) /\ R[n].i > n}
<1>0. Len(p) \in Nat
  OBVIOUS
<1>r. R[0] = Begin /\ \A n \in 0..Len(p) : n < Len(p) => R[n + 1] = Step(p, R[n])
  BY RunStep
<1> HIDE DEF R
<1>1. 0 \in S
  <2>1. Begin \in Variables(C, p) /\ Begin.i > 0
    BY <1>0 DEF Begin, Variables
  <2> QED BY <1>0, <1>r, <2>1
<1>2. ASSUME NEW n \in 0..Len(p), n < Len(p), n \in S PROVE n + 1 \in S
  <2>1. R[n] \in Variables(C, p) /\ R[n].i > n /\ R[n].i \in 1..(Len(p) + 1)
    BY <1>2 DEF Variables
  <2>2. R[n + 1] = Step(p, R[n])
    BY <1>2, <1>r
  <2>3. R[n + 1] \in Variables(C, p) /\ (R[n].i <= Len(p) => R[n + 1].i > R[n].i)
    BY <2>1, <2>2, StepType
  <2>4. R[n].i > Len(p) => R[n + 1] = R[n]
    BY <2>1, <2>2, StepCases
  <2>5. R[n + 1].i \in 1..(Len(p) + 1)
    BY <2>3 DEF Variables
  <2>6. R[n + 1].i > n + 1
    BY <1>0, <1>2, <2>1, <2>3, <2>4, <2>5
  <2> QED BY <1>0, <1>2, <2>3, <2>6
<1>3. \A n \in 0..Len(p) : n \in S
  <2> HIDE DEF S
  <2> QED BY <1>0, <1>1, <1>2, UpTo
<1>4. Len(p) \in 0..Len(p)
  BY <1>0
<1>5. R[Len(p)].i > Len(p) /\ R[Len(p)].i \in 1..(Len(p) + 1)
  <2>1. R[Len(p)] \in Variables(C, p) /\ R[Len(p)].i > Len(p)
    BY <1>3, <1>4
  <2> QED BY <2>1 DEF Variables
<1> QED BY <1>0, <1>3, <1>5 DEF R

\* The variables behind an iteration, one by one
LEMMA StepOfText ==
    ASSUME NEW C, NEW p \in Seq(C), NEW s \in Variables(C, p), s.i <= Len(p), IsText(p, s.i)
    PROVE  /\ Step(p, s).i = s.i + 1 /\ Step(p, s).nstr = Append(s.nstr, p[s.i])
           /\ Step(p, s).vec = s.vec /\ Step(p, s).error = s.error
<1>1. s.i \in 1..(Len(p) + 1)
  BY DEF Variables
<1>2. s = [i |-> s.i, nstr |-> s.nstr, vec |-> s.vec, error |-> s.error]
  BY DEF Variables
<1>3. Step(p, s) = TakeText(s, p[s.i])
  BY <1>1, StepCases
<1> QED BY <1>2, <1>3 DEF TakeText

LEMMA TakeItemFields ==
    ASSUME NEW C, NEW p, NEW s \in Variables(C, p), NEW item, NEW n
    PROVE  /\ TakeItem(s, item, n).i = n /\ TakeItem(s, item, n).nstr = <<>>
           /\ TakeItem(s, item, n).error = s.error
           /\ TakeItem(s, item, n).vec = Append(Flush(s.vec, s.nstr), item)
<1>1. s = [i |-> s.i, nstr |-> s.nstr, vec |-> s.vec, error |-> s.error]
  BY DEF Variables
<1> QED BY <1>1 DEF TakeItem

LEMMA StepOfBare ==
    ASSUME NEW C, NEW p \in Seq(C), NEW s \in Variables(C, p), s.i <= Len(p), IsBare(p, s.i)
    PROVE  /\ Step(p, s).i = NameEnd(p, s.i) /\ Step(p, s).nstr = <<>>
           /\ Step(p, s).error = s.error
           /\ Step(p, s).vec = Append(Flush(s.vec, s.nstr), Item(ItemName(p, s.i), <<>>))
<1>1. s.i \in 1..(Len(p) + 1)
  BY DEF Variables
<1>2. Step(p, s) = TakeItem(s, Item(ItemName(p, s.i), <<>>), NameEnd(p, s.i))
  BY <1>1, StepCases
<1> QED BY <1>2, TakeItemFields

LEMMA StepOfFormatted ==
    ASSUME NEW C, NEW p \in Seq(C), NEW s \in Variables(C, p), s.i <= Len(p),
           IsFormatted(p, s.i)
    PROVE  /\ Step(p, s).i = FormatEnd(p, s.i) + 1 /\ Step(p, s).nstr = <<>>
           /\ Step(p, s).error = s.error
           /\ Step(p, s).vec
                = Append(Flush(s.vec, s.nstr), Item(ItemName(p, s.i), Format(p, s.i)))
<1>1. s.i \in 1..(Len(p) + 1)
  BY DEF Variables
<1>2. Step(p, s) = TakeItem(s, Item(ItemName(p, s.i), Format(p, s.i)), FormatEnd(p, s.i) + 1)
  BY <1>1, StepCases
<1> QED BY <1>2, TakeItemFields

LEMMA StepOfUnclosed ==
    ASSUME NEW C, NEW p \in Seq(C), NEW s \in Variables(C, p), s.i <= Len(p),
           IsUnclosed(p, s.i)
    PROVE  Step(p, s).error = TRUE
<1>1. s.i \in 1..(Len(p) + 1)
  BY DEF Variables
<1>2. s = [i |-> s.i, nstr |-> s.nstr, vec |-> s.vec, error |-> s.error]
  BY DEF Variables
<1>3. Step(p, s) = TakeError(s)
  BY <1>1, StepCases
<1> QED BY <1>2, <1>3 DEF TakeError

-----------------------------------------------------------------------------
(***************************************************************************)
(* The patterns that init() accepts.                                       *)
(***************************************************************************)

\* Every item of vec is known.
Known(vec) == \A k \in 1..Len(vec) : vec[k].type = 1 => vec[k].str \in ItemNames

Good(s) == ~s.error /\ Known(s.vec)

LEMMA KnownAppend ==
    ASSUME NEW E, NEW vec \in Seq(E), NEW e \in E
    PROVE  Known(Append(vec, e)) <=> Known(vec) /\ (e.type = 1 => e.str \in ItemNames)
<1>1. /\ Len(vec) \in Nat /\ Len(Append(vec, e)) = Len(vec) + 1
      /\ Append(vec, e)[Len(vec) + 1] = e
      /\ \A k \in 1..Len(vec) : Append(vec, e)[k] = vec[k]
  OBVIOUS
<1> DEFINE w == Append(vec, e)
<1> HIDE DEF w
<1>2. \A k : k \in 1..(Len(vec) + 1) <=> k \in 1..Len(vec) \/ k = Len(vec) + 1
  BY <1>1
<1> QED BY <1>1, <1>2, Zenon DEF Known, w

LEMMA KnownFlush ==
    ASSUME NEW C, NEW vec \in Seq(Elements(C)), NEW nstr \in Seq(C)
    PROVE  Known(Flush(vec, nstr)) <=> Known(vec)
<1>1. Text(nstr) \in Elements(C) /\ Text(nstr).type # 1
  BY DEF Text, Elements
<1>2. Known(Append(vec, Text(nstr))) <=> Known(vec)
  BY <1>1, KnownAppend
<1> QED BY <1>2, Zenon DEF Flush

\* A name ends at most where it ends for the parser, and only there when what
\* follows it is no letter and no brace, or a `{'.
LEMMA NameIs ==
    ASSUME NEW C, NEW p \in Seq(C), NEW i \in 1..Len(p), NEW n \in (i + 1)..(Len(p) + 1),
           SubSeq(p, i + 1, n - 1) \in ItemNames, n <= Len(p) => p[n] \notin Letters \cup {Close}
    PROVE  /\ n = NameEnd(p, i) /\ n > i + 1 /\ p[i + 1] \in Letters
<1>0. Len(p) \in Nat
  OBVIOUS
<1>1. i + 1 \in 1..(Len(p) + 1) /\ n - 1 \in 0..Len(p)
  BY <1>0
<1> DEFINE q == SubSeq(p, i + 1, n - 1)
<1>2. /\ Len(q) = IF i + 1 <= n - 1 THEN (n - 1) - (i + 1) + 1 ELSE 0
      /\ \A k \in 1..((n - 1) - (i + 1) + 1) : q[k] = p[(i + 1) + k - 1]
      /\ n - 1 < i + 1 => q = <<>>
  BY <1>1, SubSeqOf
<1>3. q \in Seq(Letters) /\ q # <<>>
  BY LogFormatterConstants
<1> HIDE DEF q
<1>4. n > i + 1 /\ Len(q) = n - 1 - i
  BY <1>0, <1>2, <1>3
<1>5. ASSUME NEW k \in (i + 1)..(n - 1) PROVE p[k] \in Letters
  <2>1. k - i \in 1..Len(q) /\ (i + 1) + (k - i) - 1 = k
    BY <1>0, <1>4
  <2>2. q[k - i] \in Letters /\ q[k - i] = p[(i + 1) + (k - i) - 1]
    BY <1>2, <1>3, <1>4, <2>1
  <2> QED BY <2>1, <2>2
<1>6. p[i + 1] \in Letters
  BY <1>0, <1>4, <1>5
<1> DEFINE e == NameEnd(p, i)
<1>7. /\ e \in (i + 1)..(Len(p) + 1)
      /\ e <= Len(p) => p[e] \notin Letters \cup {Close}
      /\ \A k \in (i + 1)..(e - 1) : p[k] \in Letters \cup {Close}
  BY NameEndFacts
<1> HIDE DEF e
<1>8. ~(e < n)
  <2> SUFFICES ASSUME e < n PROVE FALSE
    OBVIOUS
  <2>1. e \in (i + 1)..(n - 1) /\ e <= Len(p)
    BY <1>0, <1>7
  <2> QED BY <1>5, <1>7, <2>1
<1>9. ~(n < e)
  <2> SUFFICES ASSUME n < e PROVE FALSE
    OBVIOUS
  <2>1. n \in (i + 1)..(e - 1) /\ n <= Len(p)
    BY <1>0, <1>7
  <2> QED BY <1>7, <2>1
<1>10. e = n
  BY <1>0, <1>7, <1>8, <1>9
<1> QED BY <1>4, <1>6, <1>10 DEF e

\* The pieces of the grammar are the iterations of the loop.
LEMMA PieceIs ==
    ASSUME NEW C, NEW p \in Seq(C), NEW i \in 1..Len(p), NEW j \in 1..(Len(p) + 1)
    PROVE  /\ IsText(p, i) => (Piece(p, i, j) <=> j = i + 1)
           /\ IsBare(p, i) => (Piece(p, i, j) <=> j = NameEnd(p, i) /\ ItemName(p, i) \in ItemNames)
           /\ IsFormatted(p, i) =>
                (Piece(p, i, j) <=> j = FormatEnd(p, i) + 1 /\ ItemName(p, i) \in ItemNames)
           /\ IsUnclosed(p, i) => ~Piece(p, i, j)
<1> DEFINE n == NameEnd(p, i)
           m == FormatEnd(p, i)
           Bare(k) == j = k /\ (k <= Len(p) => p[k] \notin Letters \cup {Open, Close})
           Braced(k) == /\ k < j - 1 /\ p[k] = Open /\ p[j - 1] = Close
                        /\ \A l \in (k + 1)..(j - 2) : p[l] # Close
           HasName(k) == SubSeq(p, i + 1, k - 1) \in ItemNames
<1>0. Len(p) \in Nat
  OBVIOUS
<1>c. /\ Percent \notin Letters /\ Open \notin Letters /\ Close \notin Letters
      /\ Percent # Open /\ Percent # Close /\ Open # Close
  BY CharsDiffer, LogFormatterConstants
<1>p. Piece(p, i, j) <=>
        \/ IsText(p, i) /\ j = i + 1
        \/ p[i] = Percent /\ \E k \in (i + 1)..j : HasName(k) /\ (Bare(k) \/ Braced(k))
  BY Zenon DEF Piece, IsText
<1>e. /\ n \in (i + 1)..(Len(p) + 1)
      /\ n <= Len(p) => p[n] \notin Letters \cup {Close}
      /\ IsFormatted(p, i) => /\ m \in (n + 1)..Len(p) /\ p[n] = Open /\ p[m] = Close
                              /\ \A k \in (n + 1)..(m - 1) : p[k] # Close
      /\ IsUnclosed(p, i) => n <= Len(p) /\ p[n] = Open /\ \A k \in (n + 1)..Len(p) : p[k] # Close
  BY PieceEnds, NameEndFacts DEF IsUnclosed
<1>n. HasName(n) <=> ItemName(p, i) \in ItemNames
  BY DEF ItemName
<1>t. ~IsText(p, i) => p[i] = Percent
  BY DEF IsText
<1>u. /\ IsBare(p, i) => ~IsText(p, i) /\ (n > Len(p) \/ p[n] # Open)
      /\ IsFormatted(p, i) => ~IsText(p, i)
      /\ IsUnclosed(p, i) => ~IsText(p, i)
  BY DEF IsBare, IsFormatted, IsUnclosed
<1>x. ASSUME NEW k \in (i + 1)..j, HasName(k), Bare(k) \/ Braced(k)
      PROVE  k = n /\ k > i + 1 /\ p[i + 1] \in Letters
  <2>1. k \in (i + 1)..(Len(p) + 1)
    BY <1>0
  <2>2. k <= Len(p) => p[k] \notin Letters \cup {Close}
    <3>1. CASE Bare(k)
      BY <3>1
    <3>2. CASE Braced(k)
      BY <3>2, <1>c
    <3> QED BY <1>x, <3>1, <3>2
  <2> QED BY <1>x, <2>1, <2>2, NameIs
<1> HIDE DEF n, m, Bare, Braced, HasName
<1>1. ASSUME IsText(p, i) PROVE Piece(p, i, j) <=> j = i + 1
  <2>1. ASSUME p[i] = Percent, NEW k \in (i + 1)..j, HasName(k), Bare(k) \/ Braced(k)
        PROVE  FALSE
    <3>1. p[i + 1] = Percent
      BY <1>1, <2>1 DEF IsText
    <3>2. p[i + 1] \in Letters
      BY <1>x, <2>1
    <3> QED BY <1>c, <3>1, <3>2
  <2> QED BY <1>1, <1>p, <2>1
<1>2. ASSUME ~IsText(p, i)
      PROVE  Piece(p, i, j) <=> ItemName(p, i) \in ItemNames /\ n \in (i + 1)..j /\ (Bare(n) \/ Braced(n))
  BY <1>2, <1>p, <1>n, <1>t, <1>x
<1>3. ASSUME IsBare(p, i)
      PROVE  Piece(p, i, j) <=> j = n /\ ItemName(p, i) \in ItemNames
  <2>1. ~Braced(n)
    BY <1>0, <1>3, <1>u, <1>e DEF Braced
  <2>2. Bare(n) <=> j = n
    BY <1>0, <1>3, <1>u, <1>e DEF Bare
  <2>3. j = n => n \in (i + 1)..j
    BY <1>e
  <2> QED BY <1>2, <1>3, <1>u, <2>1, <2>2, <2>3
<1>4. ASSUME IsFormatted(p, i)
      PROVE  Piece(p, i, j) <=> j = m + 1 /\ ItemName(p, i) \in ItemNames
  <2>1. ~Bare(n)
    BY <1>0, <1>4, <1>e DEF Bare
  <2>2. Braced(n) => j = m + 1
    <3> SUFFICES ASSUME Braced(n) PROVE j = m + 1
      OBVIOUS
    <3>1. j - 1 > n /\ p[j - 1] = Close /\ \A l \in (n + 1)..(j - 2) : p[l] # Close
      BY DEF Braced
    <3>2. m \in (n + 1)..Len(p) /\ p[m] = Close /\ \A k \in (n + 1)..(m - 1) : p[k] # Close
      BY <1>4, <1>e
    <3>3. ~(m < j - 1)
      BY <1>0, <1>e, <3>1, <3>2
    <3>4. ~(j - 1 < m)
      BY <1>0, <1>e, <3>1, <3>2
    <3> QED BY <1>0, <3>2, <3>3, <3>4
  <2>3. j = m + 1 => Braced(n) /\ n \in (i + 1)..j
    BY <1>0, <1>4, <1>e DEF Braced
  <2> QED BY <1>2, <1>4, <1>u, <2>1, <2>2, <2>3
<1>5. ASSUME IsUnclosed(p, i) PROVE ~Piece(p, i, j)
  <2>1. ~Bare(n)
    BY <1>0, <1>5, <1>e DEF Bare
  <2>2. ~Braced(n)
    <3> SUFFICES ASSUME Braced(n) PROVE FALSE
      OBVIOUS
    <3>1. j - 1 \in (n + 1)..Len(p) /\ p[j - 1] = Close
      BY <1>0, <1>e DEF Braced
    <3> QED BY <1>5, <1>e, <3>1
  <2> QED BY <1>2, <1>5, <1>u, <2>1, <2>2
<1> QED BY <1>1, <1>3, <1>4, <1>5, Zenon DEF n, m

\* An iteration stays good just when it reads a piece.
LEMMA StepGood ==
    ASSUME NEW C, NEW p \in Seq(C), NEW s \in Variables(C, p), s.i <= Len(p)
    PROVE  /\ Good(Step(p, s)) <=> Good(s) /\ Piece(p, s.i, Step(p, s).i)
           /\ \A j \in 1..(Len(p) + 1) : Piece(p, s.i, j) => j = Step(p, s).i
<1> DEFINE t == Step(p, s)
           i == s.i
<1>0. Len(p) \in Nat /\ i \in 1..Len(p)
  BY DEF Variables
<1>t. t.i \in 1..(Len(p) + 1) /\ t.error \in BOOLEAN
  <2>1. t \in Variables(C, p)
    BY StepType
  <2> HIDE DEF t
  <2> QED BY <2>1 DEF Variables
<1>s. s.nstr \in Seq(C) /\ s.vec \in Seq(Elements(C)) /\ s.error \in BOOLEAN
  BY DEF Variables
<1>k. ASSUME NEW item \in Elements(C), item.type = 1
      PROVE  Known(Append(Flush(s.vec, s.nstr), item)) <=> Known(s.vec) /\ item.str \in ItemNames
  <2>1. Flush(s.vec, s.nstr) \in Seq(Elements(C))
    BY <1>s, FlushType
  <2>2. Known(Flush(s.vec, s.nstr)) <=> Known(s.vec)
    BY <1>s, KnownFlush
  <2> HIDE DEF Flush
  <2>3. Known(Append(Flush(s.vec, s.nstr), item))
          <=> Known(Flush(s.vec, s.nstr)) /\ (item.type = 1 => item.str \in ItemNames)
    BY <2>1, KnownAppend
  <2> QED BY <1>k, <2>2, <2>3
<1>i. \A str, fmt : Item(str, fmt).type = 1 /\ Item(str, fmt).str = str
  BY DEF Item
<1>p. /\ IsText(p, i) => \A j \in 1..(Len(p) + 1) : (Piece(p, i, j) <=> j = i + 1)
      /\ IsBare(p, i) => \A j \in 1..(Len(p) + 1) :
            (Piece(p, i, j) <=> j = NameEnd(p, i) /\ ItemName(p, i) \in ItemNames)
      /\ IsFormatted(p, i) => \A j \in 1..(Len(p) + 1) :
            (Piece(p, i, j) <=> j = FormatEnd(p, i) + 1 /\ ItemName(p, i) \in ItemNames)
      /\ IsUnclosed(p, i) => \A j \in 1..(Len(p) + 1) : ~Piece(p, i, j)
  BY <1>0, PieceIs
<1> HIDE DEF t
<1>1. CASE IsText(p, i)
  <2>1. t.i = i + 1 /\ t.vec = s.vec /\ t.error = s.error
    BY <1>0, <1>1, StepOfText DEF t
  <2> QED BY <1>1, <1>p, <1>t, <2>1 DEF Good, t
<1>2. CASE IsBare(p, i)
  <2>1. /\ t.i = NameEnd(p, i) /\ t.error = s.error
        /\ t.vec = Append(Flush(s.vec, s.nstr), Item(ItemName(p, i), <<>>))
    BY <1>0, <1>2, StepOfBare DEF t
  <2>2. Item(ItemName(p, i), <<>>) \in Elements(C)
    BY <1>0, ItemTypes
  <2>3. Known(t.vec) <=> Known(s.vec) /\ ItemName(p, i) \in ItemNames
    BY <1>k, <1>i, <2>1, <2>2
  <2> QED BY <1>2, <1>p, <1>t, <2>1, <2>3 DEF Good, t
<1>3. CASE IsFormatted(p, i)
  <2>1. /\ t.i = FormatEnd(p, i) + 1 /\ t.error = s.error
        /\ t.vec = Append(Flush(s.vec, s.nstr), Item(ItemName(p, i), Format(p, i)))
    BY <1>0, <1>3, StepOfFormatted DEF t
  <2>2. Item(ItemName(p, i), Format(p, i)) \in Elements(C)
    BY <1>0, <1>3, ItemTypes
  <2>3. Known(t.vec) <=> Known(s.vec) /\ ItemName(p, i) \in ItemNames
    BY <1>k, <1>i, <2>1, <2>2
  <2> QED BY <1>3, <1>p, <1>t, <2>1, <2>3 DEF Good, t
<1>4. CASE IsUnclosed(p, i)
  <2>1. t.error = TRUE
    BY <1>0, <1>4, StepOfUnclosed DEF t
  <2> QED BY <1>4, <1>p, <1>t, <2>1 DEF Good, t
<1>5. IsText(p, i) \/ IsBare(p, i) \/ IsFormatted(p, i) \/ IsUnclosed(p, i)
  BY <1>0, StepCases
<1> QED BY <1>1, <1>2, <1>3, <1>4, <1>5, Zenon

LEMMA ErrorIs ==
    ASSUME NEW C, NEW p \in Seq(C)
    PROVE  isError(p) <=> ~Good(Run(p)[Len(p)])
<1> DEFINE s == Run(p)[Len(p)]
<1>1. s \in Variables(C, p)
  BY RunType
<1> HIDE DEF s
<1>2. s.nstr \in Seq(C) /\ s.vec \in Seq(Elements(C)) /\ s.error \in BOOLEAN
  BY <1>1 DEF Variables
<1>3. Known(Flush(s.vec, s.nstr)) <=> Known(s.vec)
  BY <1>2, KnownFlush
<1>4. Flush(s.vec, s.nstr) \in Seq(Elements(C))
  BY <1>2, FlushType
<1> DEFINE v == Flush(s.vec, s.nstr)
<1> HIDE DEF v
<1>5. v \in Seq(Elements(C))
  BY <1>4 DEF v
<1>6. DOMAIN v = 1..Len(v)
  BY <1>5
<1>7. (\E e \in ToSet(v) : e.type = 1 /\ e.str \notin ItemNames) <=> ~Known(v)
  BY <1>6, Zenon DEF ToSet, Known
<1>8. isError(p) <=> s.error \/ \E e \in ToSet(v) : e.type = 1 /\ e.str \notin ItemNames
  BY Zenon DEF isError, Items, Scan, s, v
<1>9. Known(v) <=> Known(s.vec)
  BY <1>3 DEF v
<1> QED BY <1>7, <1>8, <1>9, Zenon DEF Good, s

\* Along the loop, good states stay in the cuts of the grammar.
LEMMA WrittenIsGood ==
    ASSUME NEW C, NEW p \in Seq(C), Written(p)
    PROVE  Good(Run(p)[Len(p)])
<1> DEFINE R == Run(p)
<1>0. Len(p) \in Nat
  OBVIOUS
<1>1. PICK cuts \in SUBSET (1..(Len(p) + 1)) :
        /\ 1 \in cuts
        /\ \A i \in cuts \ {Len(p) + 1} : \E j \in cuts : Piece(p, i, j)
  BY DEF Written
<1> DEFINE S == {n \in 0..Len(p) : R[n].i \in cuts /\ Good(R[n])}
<1>r. R[0] = Begin /\ \A n \in 0..Len(p) : n < Len(p) => R[n + 1] = Step(p, R[n])
  BY RunStep
<1>t. \A n \in 0..Len(p) : R[n] \in Variables(C, p)
  BY RunType
<1> HIDE DEF R
<1>2. 0 \in S
  <2>1. Begin.i = 1 /\ Begin.error = FALSE /\ Begin.vec = <<>>
    BY DEF Begin
  <2>2. Good(Begin)
    BY <2>1 DEF Good, Known
  <2> QED BY <1>0, <1>1, <1>r, <2>1, <2>2
<1>3. ASSUME NEW n \in 0..Len(p), n < Len(p), n \in S PROVE n + 1 \in S
  <2> DEFINE s == R[n]
  <2>1. s \in Variables(C, p) /\ R[n + 1] = Step(p, s) /\ s.i \in cuts /\ Good(s) /\ n + 1 \in 0..Len(p)
    BY <1>0, <1>3, <1>r, <1>t
  <2> HIDE DEF s
  <2>2. s.i \in 1..(Len(p) + 1)
    BY <2>1 DEF Variables
  <2>3. CASE s.i > Len(p)
    <3>1. Step(p, s) = s
      BY <2>2, <2>3, StepCases
    <3> QED BY <2>1, <3>1
  <2>4. CASE s.i <= Len(p)
    <3>1. s.i \in cuts \ {Len(p) + 1}
      BY <1>0, <2>1, <2>2, <2>4
    <3>2. PICK j \in cuts : Piece(p, s.i, j)
      BY <1>1, <3>1
    <3>3. j \in 1..(Len(p) + 1)
      OBVIOUS
    <3>4. /\ Good(Step(p, s)) <=> Good(s) /\ Piece(p, s.i, Step(p, s).i)
          /\ \A l \in 1..(Len(p) + 1) : Piece(p, s.i, l) => l = Step(p, s).i
      BY <2>1, <2>4, StepGood
    <3>5. j = Step(p, s).i
      BY <3>2, <3>3, <3>4
    <3> QED BY <2>1, <3>2, <3>4, <3>5
  <2> QED BY <1>0, <2>2, <2>3, <2>4
<1>4. \A n \in 0..Len(p) : n \in S
  <2> HIDE DEF S
  <2> QED BY <1>0, <1>2, <1>3, UpTo
<1> QED BY <1>0, <1>4 DEF R

\* The positions at the iterations of a loop that ends well are cuts.
LEMMA GoodIsWritten ==
    ASSUME NEW C, NEW p \in Seq(C), Good(Run(p)[Len(p)])
    PROVE  Written(p)
<1> DEFINE R == Run(p)
           S == {n \in 0..Len(p) : Good(R[n])}
           cuts == {R[n].i : n \in 0..Len(p)}
<1>0. Len(p) \in Nat
  OBVIOUS
<1>r. R[0] = Begin /\ \A n \in 0..Len(p) : n < Len(p) => R[n + 1] = Step(p, R[n])
  BY RunStep
<1>t. (\A n \in 0..Len(p) : R[n] \in Variables(C, p)) /\ R[Len(p)].i = Len(p) + 1
  BY RunType
<1> HIDE DEF R
<1>i. \A n \in 0..Len(p) : R[n].i \in 1..(Len(p) + 1)
  BY <1>t DEF Variables
<1>1. Len(p) \in S
  BY <1>0 DEF R
<1>2. ASSUME NEW n \in 0..Len(p), n < Len(p)
      PROVE  /\ n + 1 \in 0..Len(p) /\ (Good(R[n + 1]) => Good(R[n]))
             /\ R[n].i <= Len(p) /\ Good(R[n + 1]) => Piece(p, R[n].i, R[n + 1].i)
  <2> DEFINE s == R[n]
  <2>1. s \in Variables(C, p) /\ R[n + 1] = Step(p, s) /\ n + 1 \in 0..Len(p)
    BY <1>0, <1>2, <1>r, <1>t
  <2>2. s.i \in 1..(Len(p) + 1)
    BY <1>i
  <2> HIDE DEF s
  <2>3. s.i > Len(p) => Step(p, s) = s
    BY <2>2, StepCases
  <2>4. s.i <= Len(p) => (Good(Step(p, s)) <=> Good(s) /\ Piece(p, s.i, Step(p, s).i))
    BY <2>1, StepGood
  <2>5. s.i > Len(p) \/ s.i <= Len(p)
    BY <1>0, <2>2
  <2> QED BY <2>1, <2>3, <2>4, <2>5, Zenon DEF s
<1>3. ASSUME NEW n \in 0..Len(p), n < Len(p), n + 1 \in S PROVE n \in S
  BY <1>2, <1>3
<1>4. \A n \in 0..Len(p) : Good(R[n])
  <2>1. \A n \in 0..Len(p) : n \in S
    <3> HIDE DEF S
    <3> QED BY <1>0, <1>1, <1>3, DownFrom
  <2> QED BY <2>1
<1>5. cuts \in SUBSET (1..(Len(p) + 1))
  BY <1>i
<1>6. 1 \in cuts
  <2>1. Begin.i = 1 /\ 0 \in 0..Len(p)
    BY <1>0 DEF Begin
  <2> QED BY <1>r, <2>1
<1>7. ASSUME NEW i \in cuts \ {Len(p) + 1} PROVE \E j \in cuts : Piece(p, i, j)
  <2>1. PICK n \in 0..Len(p) : i = R[n].i
    OBVIOUS
  <2>2. n # Len(p)
    BY <1>t, <2>1
  <2>3. n < Len(p) /\ i <= Len(p)
    <3>1. i \in 1..(Len(p) + 1) /\ i # Len(p) + 1
      BY <1>i, <2>1, Zenon
    <3> HIDE DEF cuts
    <3> QED BY <1>0, <2>2, <3>1
  <2>4. n + 1 \in 0..Len(p) /\ Piece(p, R[n].i, R[n + 1].i)
    BY <1>2, <1>4, <2>1, <2>3
  <2> QED BY <2>1, <2>4
<1> HIDE DEF cuts
<1> QED BY <1>5, <1>6, <1>7, Zenon DEF Written

\* The loop of LogFormatter::init(), with its lookup in s_format_items, reports an error
\* for a pattern, over any characters and of any length, just when the pattern cannot be
\* cut into pieces of the grammar.
THEOREM AcceptsWrittenAlways == \A C : \A p \in Seq(C) : AcceptsWritten(p)
<1> SUFFICES ASSUME NEW C, NEW p \in Seq(C) PROVE AcceptsWritten(p)
  OBVIOUS
<1>1. isError(p) <=> ~Good(Run(p)[Len(p)])
  BY ErrorIs
<1>2. Written(p) => Good(Run(p)[Len(p)])
  BY WrittenIsGood
<1>3. Good(Run(p)[Len(p)]) => Written(p)
  BY GoodIsWritten
<1> QED BY <1>1, <1>2, <1>3 DEF AcceptsWritten

-----------------------------------------------------------------------------
(***************************************************************************)
(* What init() keeps of an accepted pattern.                               *)
(***************************************************************************)

NoTwoTexts(v) == \A k \in 1..(Len(v) - 1) : v[k].type = 1 \/ v[k + 1].type = 1

\* The elements of vec and the text in nstr are what has been read.
ReadSoFar(p, s) ==
    \/ s.error
    \/ /\ Len(s.nstr) < s.i
       /\ s.nstr = SubSeq(p, s.i - Len(s.nstr), s.i - 1)
       /\ SpeltUpTo(p, s.vec, s.i - Len(s.nstr))
       /\ NoTwoTexts(s.vec)
       /\ s.vec # <<>> => s.vec[Len(s.vec)].type = 1

LEMMA SpeltNext ==
    ASSUME NEW C, NEW p \in Seq(C), NEW E, NEW v \in Seq(E), NEW e \in E,
           NEW a, NEW b \in 1..(Len(p) + 1),
           SpeltUpTo(p, v, a), Spells(e, SubSeq(p, a, b - 1))
    PROVE  SpeltUpTo(p, Append(v, e), b)
<1> DEFINE L == Len(v)
           w == Append(v, e)
<1>1. /\ L \in Nat /\ Len(w) = L + 1 /\ w[L + 1] = e
      /\ \A k \in 1..L : w[k] = v[k]
  OBVIOUS
<1>2. PICK cut \in [0..L -> 1..(Len(p) + 1)] :
        /\ cut[0] = 1 /\ cut[L] = a
        /\ \A k \in 1..L : Spells(v[k], SubSeq(p, cut[k - 1], cut[k] - 1))
  BY Zenon DEF SpeltUpTo
<1> HIDE DEF L, w
<1> DEFINE new == [k \in 0..(L + 1) |-> IF k = L + 1 THEN b ELSE cut[k]]
<1>3. new \in [0..(L + 1) -> 1..(Len(p) + 1)]
  BY <1>1
<1>4. new[L + 1] = b /\ \A k \in 0..L : new[k] = cut[k]
  BY <1>1
<1> HIDE DEF new
<1>5. new[0] = 1
  BY <1>1, <1>2, <1>4
<1>6. ASSUME NEW k \in 1..(L + 1)
      PROVE  Spells(w[k], SubSeq(p, new[k - 1], new[k] - 1))
  <2>1. CASE k = L + 1
    <3>1. new[k - 1] = a /\ new[k] = b /\ w[k] = e
      BY <1>1, <1>2, <1>4, <2>1
    <3> QED BY <3>1
  <2>2. CASE k # L + 1
    <3>1. k \in 1..L /\ k - 1 \in 0..L /\ k \in 0..L
      BY <1>1, <2>2
    <3>2. new[k - 1] = cut[k - 1] /\ new[k] = cut[k] /\ w[k] = v[k]
      BY <1>1, <1>4, <3>1
    <3> QED BY <1>2, <3>1, <3>2
  <2> QED BY <2>1, <2>2
<1>7. SpeltUpTo(p, w, b)
  BY <1>1, <1>3, <1>4, <1>5, <1>6 DEF SpeltUpTo
<1> QED BY <1>7 DEF w

LEMMA TextsAppend ==
    ASSUME NEW E, NEW v \in Seq(E), NEW e \in E, NoTwoTexts(v),
           e.type = 1 \/ (v # <<>> => v[Len(v)].type = 1)
    PROVE  NoTwoTexts(Append(v, e)) /\ Append(v, e)[Len(Append(v, e))] = e /\ Append(v, e) # <<>>
<1> DEFINE L == Len(v)
           w == Append(v, e)
<1>1. /\ L \in Nat /\ Len(w) = L + 1 /\ w[L + 1] = e /\ w # <<>>
      /\ \A k \in 1..L : w[k] = v[k]
      /\ L > 0 => v # <<>>
  <2>1. /\ L \in Nat /\ Len(w) = L + 1 /\ w[L + 1] = e
        /\ \A k \in 1..L : w[k] = v[k]
    OBVIOUS
  <2>2. Len(<<>>) = 0
    OBVIOUS
  <2> HIDE DEF w
  <2> QED BY <2>1, <2>2
<1>2. \A k \in 1..(L - 1) : v[k].type = 1 \/ v[k + 1].type = 1
  BY DEF NoTwoTexts
<1>3. e.type = 1 \/ (v # <<>> => v[L].type = 1)
  OBVIOUS
<1> HIDE DEF L, w
<1>4. ASSUME NEW k \in 1..(Len(w) - 1) PROVE w[k].type = 1 \/ w[k + 1].type = 1
  <2>1. CASE k = L
    BY <1>1, <1>3, <2>1
  <2>2. CASE k # L
    <3>1. k \in 1..(L - 1) /\ k \in 1..L /\ k + 1 \in 1..L
      BY <1>1, <2>2
    <3> QED BY <1>1, <1>2, <3>1
  <2> QED BY <2>1, <2>2
<1>5. NoTwoTexts(w)
  BY <1>4 DEF NoTwoTexts
<1> QED BY <1>1, <1>5 DEF w

\* Behind Flush() the elements are all that has been read.
LEMMA FlushReads ==
    ASSUME NEW C, NEW p \in Seq(C), NEW s \in Variables(C, p), ReadSoFar(p, s), ~s.error
    PROVE  /\ SpeltUpTo(p, Flush(s.vec, s.nstr), s.i)
           /\ NoTwoTexts(Flush(s.vec, s.nstr))
<1>0. /\ Len(p) \in Nat /\ s.i \in 1..(Len(p) + 1) /\ s.nstr \in Seq(C)
      /\ s.vec \in Seq(Elements(C)) /\ Len(s.nstr) \in Nat
  BY DEF Variables
<1> DEFINE a == s.i - Len(s.nstr)
<1>1. /\ Len(s.nstr) < s.i
      /\ s.nstr = SubSeq(p, a, s.i - 1)
      /\ SpeltUpTo(p, s.vec, a)
      /\ NoTwoTexts(s.vec)
      /\ s.vec # <<>> => s.vec[Len(s.vec)].type = 1
  BY DEF ReadSoFar
<1>2. CASE s.nstr = <<>>
  <2>1. a = s.i /\ Flush(s.vec, s.nstr) = s.vec
    BY <1>0, <1>2 DEF Flush
  <2> QED BY <1>1, <2>1
<1>3. CASE s.nstr # <<>>
  <2>1. Flush(s.vec, s.nstr) = Append(s.vec, Text(s.nstr))
    BY <1>3 DEF Flush
  <2>2. Text(s.nstr) \in Elements(C) /\ Text(s.nstr).type = 0 /\ Text(s.nstr).str = s.nstr
    BY <1>0 DEF Text, Elements
  <2>3. Spells(Text(s.nstr), SubSeq(p, a, s.i - 1))
    BY <1>1, <2>2, Zenon DEF Spells
  <2> HIDE DEF a
  <2>4. SpeltUpTo(p, Append(s.vec, Text(s.nstr)), s.i)
    BY <1>0, <1>1, <2>2, <2>3, SpeltNext
  <2>5. NoTwoTexts(Append(s.vec, Text(s.nstr)))
    BY <1>0, <1>1, <2>2, TextsAppend
  <2> QED BY <2>1, <2>4, <2>5
<1> QED BY <1>2, <1>3

\* An item that is spelt from s.i to the position in front of n
LEMMA ItemReads ==
    ASSUME NEW C, NEW p \in Seq(C), NEW s \in Variables(C, p), ReadSoFar(p, s), ~s.error,
           NEW t \in Variables(C, p), NEW item \in Elements(C), item.type = 1,
           t.nstr = <<>>, t.vec = Append(Flush(s.vec, s.nstr), item),
           Spells(item, SubSeq(p, s.i, t.i - 1))
    PROVE  ReadSoFar(p, t)
<1>0. /\ Len(p) \in Nat /\ t.i \in 1..(Len(p) + 1) /\ s.nstr \in Seq(C)
      /\ s.vec \in Seq(Elements(C))
  BY DEF Variables
<1> DEFINE v == Flush(s.vec, s.nstr)
<1>1. v \in Seq(Elements(C))
  BY <1>0, FlushType
<1>2. SpeltUpTo(p, v, s.i) /\ NoTwoTexts(v)
  BY FlushReads
<1>3. t.vec = Append(v, item)
  OBVIOUS
<1> HIDE DEF v
<1>4. SpeltUpTo(p, Append(v, item), t.i)
  BY <1>0, <1>1, <1>2, SpeltNext
<1>5. NoTwoTexts(Append(v, item)) /\ Append(v, item)[Len(Append(v, item))] = item
  BY <1>1, <1>2, TextsAppend
<1>6. Len(t.nstr) = 0 /\ t.i - 0 = t.i /\ 0 < t.i
  BY <1>0
<1>7. t.nstr = SubSeq(p, t.i, t.i - 1)
  <2>1. t.i - 1 \in 0..Len(p) /\ t.i - 1 < t.i
    BY <1>0
  <2>2. SubSeq(p, t.i, t.i - 1) = <<>>
    BY <1>0, <2>1, SubSeqOf
  <2> QED BY <2>2
<1> QED BY <1>3, <1>4, <1>5, <1>6, <1>7 DEF ReadSoFar

\* A character of text joins the text in front of it.
LEMMA TextReads ==
    ASSUME NEW C, NEW p \in Seq(C), NEW s \in Variables(C, p), ReadSoFar(p, s), ~s.error,
           s.i <= Len(p), NEW t, t.i = s.i + 1, t.nstr = Append(s.nstr, p[s.i]), t.vec = s.vec
    PROVE  ReadSoFar(p, t)
<1>0. /\ Len(p) \in Nat /\ s.i \in 1..Len(p) /\ s.nstr \in Seq(C) /\ Len(s.nstr) \in Nat
      /\ p[s.i] \in C
  BY DEF Variables
<1> DEFINE a == s.i - Len(s.nstr)
<1>1. /\ Len(s.nstr) < s.i
      /\ s.nstr = SubSeq(p, a, s.i - 1)
      /\ SpeltUpTo(p, s.vec, a)
      /\ NoTwoTexts(s.vec)
      /\ s.vec # <<>> => s.vec[Len(s.vec)].type = 1
  BY DEF ReadSoFar
<1>2. Append(s.nstr, p[s.i]) = s.nstr \o <<p[s.i]>>
  BY <1>0, AppendIsConcat
<1> DEFINE len == Len(s.nstr)
           i == s.i
<1>3. Len(t.nstr) = len + 1
  BY <1>0
<1>n. len \in Nat /\ len < i /\ i \in 1..Len(p) /\ t.i = i + 1
  BY <1>0, <1>1
<1>4. a \in 1..Len(p) /\ i \in a..Len(p) /\ t.i - 1 = i
  <2> HIDE DEF len, i
  <2> QED BY <1>0, <1>n DEF len, i
<1>5. t.i - Len(t.nstr) = a /\ Len(t.nstr) < t.i
  <2>1. (i + 1) - (len + 1) = i - len /\ len + 1 < i + 1
    <3> HIDE DEF len, i
    <3> QED BY <1>n
  <2> QED BY <1>n, <1>3, <2>1
<1> HIDE DEF a
<1>6. SubSeq(p, a, s.i) = SubSeq(p, a, s.i - 1) \o <<p[s.i]>>
  BY <1>4, SubSeqRecursiveSecond
<1>7. t.nstr = SubSeq(p, a, t.i - 1)
  BY <1>1, <1>2, <1>4, <1>6
<1> QED BY <1>1, <1>5, <1>7 DEF ReadSoFar

\* How the items are spelt
LEMMA BareSpelt ==
    ASSUME NEW C, NEW p \in Seq(C), NEW i \in 1..Len(p), IsBare(p, i)
    PROVE  Spells(Item(ItemName(p, i), <<>>), SubSeq(p, i, NameEnd(p, i) - 1))
<1> DEFINE n == NameEnd(p, i)
<1>0. Len(p) \in Nat
  OBVIOUS
<1>1. n \in (i + 1)..(Len(p) + 1)
  BY PieceEnds
<1>2. p[i] = Percent
  BY DEF IsBare, IsText
<1>3. n - 1 \in i..Len(p)
  BY <1>0, <1>1
<1> HIDE DEF n
<1>4. SubSeq(p, i, n - 1) = <<p[i]>> \o SubSeq(p, i + 1, n - 1)
  BY <1>3, SubSeqRecursiveFirst
<1> QED BY <1>2, <1>4 DEF Spells, Item, ItemName, n

LEMMA FormattedSpelt ==
    ASSUME NEW C, NEW p \in Seq(C), NEW i \in 1..Len(p), IsFormatted(p, i)
    PROVE  Spells(Item(ItemName(p, i), Format(p, i)), SubSeq(p, i, FormatEnd(p, i)))
<1> DEFINE n == NameEnd(p, i)
           m == FormatEnd(p, i)
<1>0. Len(p) \in Nat
  OBVIOUS
<1>1. n \in (i + 1)..(Len(p) + 1) /\ m \in (n + 1)..Len(p) /\ p[n] = Open /\ p[m] = Close
  BY PieceEnds
<1>2. p[i] = Percent
  BY DEF IsFormatted, IsText
<1> HIDE DEF n, m
<1>3. /\ n - 1 \in i..Len(p) /\ n \in i..Len(p) /\ m \in i..Len(p) /\ n \in (i - 1)..Len(p)
      /\ m - 1 \in n..Len(p) /\ i \in 1..(Len(p) + 1)
  BY <1>0, <1>1
<1>4. SubSeq(p, i, n - 1) = <<p[i]>> \o SubSeq(p, i + 1, n - 1)
  BY <1>3, SubSeqRecursiveFirst
<1>5. SubSeq(p, i, n) = SubSeq(p, i, n - 1) \o <<p[n]>>
  BY <1>3, SubSeqRecursiveSecond
<1>6. SubSeq(p, i, n) \o SubSeq(p, n + 1, m - 1) = SubSeq(p, i, m - 1)
  BY <1>3, ConcatAdjacentSubSeq
<1>7. SubSeq(p, i, m) = SubSeq(p, i, m - 1) \o <<p[m]>>
  BY <1>3, SubSeqRecursiveSecond
<1>8. SubSeq(p, i, m)
        = <<Percent>> \o ItemName(p, i) \o <<Open>> \o Format(p, i) \o <<Close>>
  BY <1>1, <1>2, <1>4, <1>5, <1>6, <1>7, Zenon DEF ItemName, Format, n, m
<1>9. /\ Item(ItemName(p, i), Format(p, i)).type = 1
      /\ Item(ItemName(p, i), Format(p, i)).str = ItemName(p, i)
      /\ Item(ItemName(p, i), Format(p, i)).fmt = Format(p, i)
  BY DEF Item
<1> QED BY <1>8, <1>9, Zenon DEF Spells, m

LEMMA StepReads ==
    ASSUME NEW C, NEW p \in Seq(C), NEW s \in Variables(C, p), ReadSoFar(p, s)
    PROVE  ReadSoFar(p, Step(p, s))
<1> DEFINE t == Step(p, s)
           i == s.i
<1>0. Len(p) \in Nat /\ i \in 1..(Len(p) + 1) /\ s.error \in BOOLEAN
  BY DEF Variables
<1>t. t \in Variables(C, p)
  BY StepType
<1>i. \A str, fmt : Item(str, fmt).type = 1
  BY DEF Item
<1> HIDE DEF t
<1>1. CASE i > Len(p)
  BY <1>0, <1>1, StepCases
<1>2. CASE i <= Len(p)
  <2>0. i \in 1..Len(p)
    BY <1>0, <1>2
  <2>1. CASE IsText(p, i)
    <3>1. t.i = i + 1 /\ t.nstr = Append(s.nstr, p[i]) /\ t.vec = s.vec /\ t.error = s.error
      BY <1>2, <2>1, StepOfText DEF t
    <3>2. CASE s.error
      BY <3>1, <3>2 DEF ReadSoFar, t
    <3>3. CASE ~s.error
      <4>1. ReadSoFar(p, t)
        BY <1>2, <3>1, <3>3, TextReads
      <4> QED BY <4>1 DEF t
    <3> QED BY <3>2, <3>3
  <2>2. CASE IsBare(p, i)
    <3> DEFINE item == Item(ItemName(p, i), <<>>)
    <3>1. t.i = NameEnd(p, i) /\ t.nstr = <<>> /\ t.error = s.error
      BY <1>2, <2>2, StepOfBare DEF t
    <3>2. t.vec = Append(Flush(s.vec, s.nstr), item)
      BY <1>2, <2>2, StepOfBare DEF t
    <3>3. item \in Elements(C) /\ item.type = 1
      BY <1>i, <2>0, ItemTypes
    <3>4. Spells(item, SubSeq(p, i, t.i - 1))
      BY <2>0, <2>2, <3>1, BareSpelt
    <3>5. CASE s.error
      BY <3>1, <3>5 DEF ReadSoFar, t
    <3>6. CASE ~s.error
      <4> HIDE DEF item
      <4>1. ReadSoFar(p, t)
        BY <1>t, <3>1, <3>2, <3>3, <3>4, <3>6, ItemReads
      <4> QED BY <4>1 DEF t
    <3> QED BY <3>5, <3>6
  <2>3. CASE IsFormatted(p, i)
    <3> DEFINE item == Item(ItemName(p, i), Format(p, i))
    <3>1. t.i = FormatEnd(p, i) + 1 /\ t.nstr = <<>> /\ t.error = s.error
      BY <1>2, <2>3, StepOfFormatted DEF t
    <3>2. t.vec = Append(Flush(s.vec, s.nstr), item)
      BY <1>2, <2>3, StepOfFormatted DEF t
    <3>3. item \in Elements(C) /\ item.type = 1
      BY <1>i, <2>0, <2>3, ItemTypes
    <3>4. t.i - 1 = FormatEnd(p, i)
      <4>1. NameEnd(p, i) \in (i + 1)..(Len(p) + 1) /\ FormatEnd(p, i) \in (NameEnd(p, i) + 1)..Len(p)
        BY <2>0, <2>3, PieceEnds
      <4>2. FormatEnd(p, i) \in Nat
        BY <1>0, <4>1
      <4> QED BY <3>1, <4>2
    <3>5. Spells(item, SubSeq(p, i, t.i - 1))
      BY <2>0, <2>3, <3>4, FormattedSpelt
    <3>6. CASE s.error
      BY <3>1, <3>6 DEF ReadSoFar, t
    <3>7. CASE ~s.error
      <4> HIDE DEF item
      <4>1. ReadSoFar(p, t)
        BY <1>t, <3>1, <3>2, <3>3, <3>5, <3>7, ItemReads
      <4> QED BY <4>1 DEF t
    <3> QED BY <3>6, <3>7
  <2>4. CASE IsUnclosed(p, i)
    <3>1. t.error = TRUE
      BY <1>2, <2>4, StepOfUnclosed DEF t
    <3> QED BY <3>1 DEF ReadSoFar, t
  <2>5. IsText(p, i) \/ IsBare(p, i) \/ IsFormatted(p, i) \/ IsUnclosed(p, i)
    BY <1>0, <1>2, StepCases
  <2> QED BY <2>1, <2>2, <2>3, <2>4, <2>5
<1> QED BY <1>0, <1>1, <1>2

\* What LogFormatter::init() keeps of a pattern that it accepts, of any length, spells the
\* pattern in its order: no character of the text in front of, between or behind items is
\* lost, doubled or moved, and text that belongs together is one element.
THEOREM ReadsBackAlways == \A C : \A p \in Seq(C) : ReadsBack(p)
<1> SUFFICES ASSUME NEW C, NEW p \in Seq(C) PROVE ReadsBack(p)
  OBVIOUS
<1> DEFINE R == Run(p)
           S == {n \in 0..Len(p) : ReadSoFar(p, R[n])}
<1>0. Len(p) \in Nat
  OBVIOUS
<1>r. R[0] = Begin /\ \A n \in 0..Len(p) : n < Len(p) => R[n + 1] = Step(p, R[n])
  BY RunStep
<1>t. (\A n \in 0..Len(p) : R[n] \in Variables(C, p)) /\ R[Len(p)].i = Len(p) + 1
  BY RunType
<1> HIDE DEF R
<1>1. 0 \in S
  <2>1. Begin.i = 1 /\ Begin.nstr = <<>> /\ Begin.vec = <<>>
    BY DEF Begin
  <2>2. SubSeq(p, 1, 0) = <<>> /\ Len(<<>>) = 0
    BY SubSeqEmpty
  <2>3. SpeltUpTo(p, <<>>, 1)
    <3> DEFINE cut == [k \in 0..0 |-> 1]
    <3>1. cut \in [0..Len(<<>>) -> 1..(Len(p) + 1)] /\ cut[0] = 1 /\ cut[Len(<<>>)] = 1
      BY <1>0
    <3>2. 1..Len(<<>>) = {}
      OBVIOUS
    <3> HIDE DEF cut
    <3> QED BY <3>1, <3>2 DEF SpeltUpTo
  <2>4. NoTwoTexts(<<>>)
    BY DEF NoTwoTexts
  <2>5. ReadSoFar(p, Begin)
    BY <2>1, <2>2, <2>3, <2>4 DEF ReadSoFar
  <2> QED BY <1>0, <1>r, <2>5
<1>2. ASSUME NEW n \in 0..Len(p), n < Len(p), n \in S PROVE n + 1 \in S
  <2>1. R[n] \in Variables(C, p) /\ R[n + 1] = Step(p, R[n]) /\ ReadSoFar(p, R[n])
    BY <1>2, <1>r, <1>t
  <2>2. ReadSoFar(p, R[n + 1])
    BY <2>1, StepReads
  <2>3. n + 1 \in 0..Len(p)
    BY <1>0, <1>2
  <2> QED BY <2>2, <2>3
<1>3. \A n \in 0..Len(p) : n \in S
  <2> HIDE DEF S
  <2> QED BY <1>0, <1>1, <1>2, UpTo
<1> DEFINE s == R[Len(p)]
<1>4. s \in Variables(C, p) /\ s.i = Len(p) + 1 /\ ReadSoFar(p, s)
  BY <1>0, <1>3, <1>t
<1>5. isError(p) <=> ~Good(s)
  BY ErrorIs DEF R
<1>6. Items(p) = Flush(s.vec, s.nstr)
  BY DEF Items, Scan, R
<1> HIDE DEF s
<1>7. ASSUME ~isError(p)
      PROVE  SpeltUpTo(p, Items(p), Len(p) + 1) /\ NoTwoTexts(Items(p))
  <2>1. ~s.error
    BY <1>5, <1>7 DEF Good
  <2>2. SpeltUpTo(p, Flush(s.vec, s.nstr), s.i) /\ NoTwoTexts(Flush(s.vec, s.nstr))
    BY <1>4, <2>1, FlushReads
  <2> QED BY <1>4, <1>6, <2>2
<1> QED BY <1>7, Zenon DEF ReadsBack, NoTwoTexts

-----------------------------------------------------------------------------
(***************************************************************************)
(* The values of "logs": parsing and printing.                             *)
(***************************************************************************)

\* The defines that parsing makes: of an appender the level is never read, and a
\* FileLogAppender has a file.
ParsedAppenders ==
    [type : {"File"}, file : Files, level : {UNKNOW}, formatter : Formatters]
    \cup [type : {"Stdout"}, file : {None}, level : {UNKNOW}, formatter : {None}]

ParsedDefines ==
    [name : Loggers, level : Levels, formatter : Formatters, appenders : Seq(ParsedAppenders)]

\* The loop over the appender nodes, iteration by iteration
AppendersRead(nodes, n, read) ==
    IF n = 0 THEN <<>>
    ELSE IF Accepted(nodes[n]) THEN Append(read[n - 1], ParseAppender(nodes[n]))
    ELSE read[n - 1]

LEMMA ParseAppendersDef ==
    ASSUME NEW E, NEW nodes \in Seq(E)
    PROVE  \E read : /\ read = [n \in 0..Len(nodes) |-> AppendersRead(nodes, n, read)]
                     /\ ParseAppenders(nodes) = read[Len(nodes)]
<1> DEFINE Is(f, m) == f = [n \in 0..m |-> AppendersRead(nodes, n, f)]
           S == {m \in 0..Len(nodes) : \E f : Is(f, m)}
<1>0. Len(nodes) \in Nat
  OBVIOUS
<1>1. 0 \in S
  <2>1. Is([n \in 0..0 |-> <<>>], 0)
    BY DEF AppendersRead
  <2> HIDE DEF Is
  <2> QED BY <1>0, <2>1
<1>2. ASSUME NEW m \in 0..Len(nodes), m < Len(nodes), m \in S PROVE m + 1 \in S
  <2>1. PICK f : Is(f, m)
    BY <1>2
  <2> DEFINE g == [n \in 0..(m + 1) |-> IF n = m + 1 THEN AppendersRead(nodes, n, f) ELSE f[n]]
  <2>2. \A n \in 0..(m + 1) : g[n] = AppendersRead(nodes, n, g)
    <3> TAKE n \in 0..(m + 1)
    <3>1. n # 0 => n - 1 \in 0..(m + 1) /\ n - 1 # m + 1 /\ g[n - 1] = f[n - 1]
      BY <1>0
    <3>2. AppendersRead(nodes, n, g) = AppendersRead(nodes, n, f)
      <4> HIDE DEF g
      <4> QED BY <3>1, Zenon DEF AppendersRead
    <3>3. CASE n = m + 1
      <4>1. g[n] = AppendersRead(nodes, n, f)
        BY <3>3, Zenon
      <4> QED BY <3>2, <4>1, Zenon
    <3>4. CASE n # m + 1
      <4>1. n \in 0..m
        BY <1>0, <3>4
      <4>2. f[n] = AppendersRead(nodes, n, f)
        BY <2>1, <4>1, Zenon
      <4>3. g[n] = f[n]
        BY <3>4, Zenon
      <4> QED BY <3>2, <4>2, <4>3, Zenon
    <3> QED BY <3>3, <3>4
  <2>3. Is(g, m + 1)
    BY <2>2, Zenon
  <2>4. m + 1 \in 0..Len(nodes)
    BY <1>0, <1>2
  <2> HIDE DEF Is, g
  <2>5. \E h : Is(h, m + 1)
    BY <2>3, Zenon
  <2> QED BY <2>4, <2>5, Zenon
<1>3. Len(nodes) \in S
  <2> HIDE DEF S
  <2>1. \A n \in 0..Len(nodes) : n \in S
    BY <1>0, <1>1, <1>2, UpTo
  <2>2. Len(nodes) \in 0..Len(nodes)
    BY <1>0
  <2> QED BY <2>1, <2>2, Zenon
<1>4. \E f : Is(f, Len(nodes))
  BY <1>3
<1> DEFINE c == CHOOSE f : Is(f, Len(nodes))
<1>5. ParseAppenders(nodes) = c[Len(nodes)]
  BY Zenon DEF ParseAppenders, AppendersRead
<1> HIDE DEF Is
<1>6. Is(c, Len(nodes))
  BY <1>4, Zenon
<1> HIDE DEF c
<1> QED BY <1>5, <1>6, Zenon DEF Is

LEMMA ParseAppenderType ==
    ASSUME NEW a \in AppenderNodes, Accepted(a)
    PROVE  ParseAppender(a) \in ParsedAppenders
  BY DEF AppenderNodes, Accepted, ParseAppender, ParsedAppenders

LEMMA ParseAppendersType ==
    ASSUME NEW nodes \in Seq(AppenderNodes)
    PROVE  ParseAppenders(nodes) \in Seq(ParsedAppenders)
<1>0. Len(nodes) \in Nat /\ \A n \in 1..Len(nodes) : nodes[n] \in AppenderNodes
  OBVIOUS
<1>1. PICK read : /\ read = [n \in 0..Len(nodes) |-> AppendersRead(nodes, n, read)]
                  /\ ParseAppenders(nodes) = read[Len(nodes)]
  BY ParseAppendersDef
<1> DEFINE S == {n \in 0..Len(nodes) : read[n] \in Seq(ParsedAppenders)}
<1>2. \A n \in 0..Len(nodes) : read[n] = AppendersRead(nodes, n, read)
  BY <1>1, Zenon
<1>3. 0 \in S
  <2>1. 0 \in 0..Len(nodes) /\ <<>> \in Seq(ParsedAppenders)
    BY <1>0
  <2>2. read[0] = <<>>
    BY <1>2, <2>1 DEF AppendersRead
  <2> QED BY <2>1, <2>2, Zenon
<1>4. ASSUME NEW n \in 0..Len(nodes), n < Len(nodes), n \in S PROVE n + 1 \in S
  <2>1. /\ n + 1 \in 0..Len(nodes) /\ n + 1 # 0 /\ (n + 1) - 1 = n
        /\ nodes[n + 1] \in AppenderNodes /\ read[n] \in Seq(ParsedAppenders)
    BY <1>0, <1>4
  <2>2. read[n + 1] = IF Accepted(nodes[n + 1])
                      THEN Append(read[n], ParseAppender(nodes[n + 1])) ELSE read[n]
    BY <1>2, <2>1 DEF AppendersRead
  <2>3. Accepted(nodes[n + 1]) => ParseAppender(nodes[n + 1]) \in ParsedAppenders
    BY <2>1, ParseAppenderType
  <2>4. \A v \in Seq(ParsedAppenders), a \in ParsedAppenders : Append(v, a) \in Seq(ParsedAppenders)
    <3> HIDE DEF ParsedAppenders
    <3> QED OBVIOUS
  <2>5. read[n + 1] \in Seq(ParsedAppenders)
    BY <2>1, <2>2, <2>3, <2>4, Zenon
  <2> QED BY <2>1, <2>5
<1>5. \A n \in 0..Len(nodes) : n \in S
  <2> HIDE DEF S
  <2> QED BY <1>0, <1>3, <1>4, UpTo
<1> QED BY <1>0, <1>1, <1>5

\* Where no node is skipped, the appenders are those of the nodes.
LEMMA ParseAppendersAll ==
    ASSUME NEW E, NEW nodes \in Seq(E), \A i \in 1..Len(nodes) : Accepted(nodes[i])
    PROVE  ParseAppenders(nodes) = [i \in 1..Len(nodes) |-> ParseAppender(nodes[i])]
<1>0. Len(nodes) \in Nat
  OBVIOUS
<1>1. PICK read : /\ read = [n \in 0..Len(nodes) |-> AppendersRead(nodes, n, read)]
                  /\ ParseAppenders(nodes) = read[Len(nodes)]
  BY ParseAppendersDef
<1> DEFINE all(n) == [i \in 1..n |-> ParseAppender(nodes[i])]
           S == {n \in 0..Len(nodes) : read[n] = all(n)}
<1>2. \A n \in 0..Len(nodes) : read[n] = AppendersRead(nodes, n, read)
  BY <1>1, Zenon
<1>3. 0 \in S
  <2>1. read[0] = <<>> /\ all(0) = <<>>
    BY <1>0, <1>2 DEF AppendersRead
  <2> QED BY <1>0, <2>1
<1>4. ASSUME NEW n \in 0..Len(nodes), n < Len(nodes), n \in S PROVE n + 1 \in S
  <2>1. /\ n + 1 \in 0..Len(nodes) /\ n + 1 # 0 /\ (n + 1) - 1 = n /\ n + 1 \in 1..Len(nodes)
        /\ read[n] = all(n) /\ n \in Nat
    BY <1>0, <1>4
  <2>2. read[n + 1] = Append(all(n), ParseAppender(nodes[n + 1]))
    <3> HIDE DEF all
    <3> QED BY <1>2, <2>1 DEF AppendersRead
  <2>3. Append(all(n), ParseAppender(nodes[n + 1])) = all(n + 1)
    <3> DEFINE X == {ParseAppender(nodes[i]) : i \in 1..Len(nodes)}
               x == ParseAppender(nodes[n + 1])
    <3>1. all(n) \in Seq(X) /\ Len(all(n)) = n /\ \A i \in 1..n : all(n)[i] = ParseAppender(nodes[i])
      <4>1. \A i \in 1..n : ParseAppender(nodes[i]) \in X
        BY <1>0, <2>1
      <4> HIDE DEF X
      <4> QED BY <2>1, <4>1
    <3>2. all(n + 1) \in Seq(X) /\ Len(all(n + 1)) = n + 1
          /\ \A i \in 1..(n + 1) : all(n + 1)[i] = ParseAppender(nodes[i])
      <4>1. \A i \in 1..(n + 1) : ParseAppender(nodes[i]) \in X
        BY <1>0, <2>1
      <4> HIDE DEF X
      <4> QED BY <2>1, <4>1
    <3>3. x \in X
      BY <2>1
    <3> HIDE DEF X, all, x
    <3>4. /\ Append(all(n), x) \in Seq(X) /\ Len(Append(all(n), x)) = n + 1
          /\ Append(all(n), x)[n + 1] = x /\ \A i \in 1..n : Append(all(n), x)[i] = all(n)[i]
      BY <2>1, <3>1, <3>3
    <3>5. \A i \in 1..(n + 1) : Append(all(n), x)[i] = all(n + 1)[i]
      BY <2>1, <3>1, <3>2, <3>4 DEF x
    <3>6. Append(all(n), x) = all(n + 1)
      BY <3>2, <3>4, <3>5, SeqEqual
    <3> QED BY <3>6 DEF x
  <2> QED BY <2>1, <2>2, <2>3
<1>5. \A n \in 0..Len(nodes) : n \in S
  <2> HIDE DEF S
  <2> QED BY <1>0, <1>3, <1>4, UpTo
<1> QED BY <1>0, <1>1, <1>5

LEMMA NamesFacts ==
    /\ Len(LevelNames) = 5 /\ Len(levelNames) = 5
    /\ \A i, k \in 1..5 : LevelNames[i] = LevelNames[k] => i = k
    /\ \A i, k \in 1..5 : LevelNames[i] # levelNames[k]
    /\ \A i \in 1..5 : LevelNames[i] # "UNKNOW" /\ levelNames[i] # "UNKNOW"
    /\ \A i \in 1..5 : LevelNames[i] # None /\ levelNames[i] # None
<1>1. Len(LevelNames) = 5 /\ Len(levelNames) = 5
  BY DEF LevelNames, levelNames
<1>2. \A i \in 1..5 : i = 1 \/ i = 2 \/ i = 3 \/ i = 4 \/ i = 5
  OBVIOUS
<1>3. /\ LevelNames[1] = "DEBUG" /\ LevelNames[2] = "INFO" /\ LevelNames[3] = "WARN"
      /\ LevelNames[4] = "ERROR" /\ LevelNames[5] = "FATAL"
      /\ levelNames[1] = "debug" /\ levelNames[2] = "info" /\ levelNames[3] = "warn"
      /\ levelNames[4] = "error" /\ levelNames[5] = "fatal"
  BY DEF LevelNames, levelNames
<1>4. \A i, k \in 1..5 : LevelNames[i] = LevelNames[k] => i = k
  BY <1>2, <1>3
<1>5. \A i, k \in 1..5 : LevelNames[i] # levelNames[k]
  BY <1>2, <1>3
<1>6. \A i \in 1..5 : LevelNames[i] # "UNKNOW" /\ levelNames[i] # "UNKNOW"
  BY <1>2, <1>3
<1>7. DOMAIN LevelNames = 1..5 /\ DOMAIN levelNames = 1..5
  BY DEF LevelNames, levelNames
<1>8. \A i \in 1..5 : LevelNames[i] \in ToSet(LevelNames) /\ levelNames[i] \in ToSet(levelNames)
  BY <1>7, Zenon DEF ToSet
<1>9. \A i \in 1..5 : LevelNames[i] # None /\ levelNames[i] # None
  BY <1>8, LogConfigConstants
<1> QED BY <1>1, <1>4, <1>5, <1>6, <1>9

\* FromString() reads the names that ToString() writes, and takes anything else for
\* UNKNOW.
LEMMA LevelReads ==
    /\ \A lv \in Levels : LevelFromString(LevelToString(lv)) = lv
    /\ LevelFromString(None) = UNKNOW
    /\ \A str : LevelFromString(str) \in Levels
<1>1. LevelFromString(None) = UNKNOW /\ LevelFromString("UNKNOW") = UNKNOW
  BY NamesFacts DEF LevelFromString
<1>2. ASSUME NEW lv \in 1..5 PROVE LevelFromString(LevelNames[lv]) = lv
  <2> DEFINE c == CHOOSE i \in 1..5 : LevelNames[lv] \in {levelNames[i], LevelNames[i]}
  <2>1. LevelNames[lv] \in {levelNames[lv], LevelNames[lv]}
    OBVIOUS
  <2>2. LevelFromString(LevelNames[lv]) = c
    BY <2>1, Zenon DEF LevelFromString
  <2>3. c \in 1..5 /\ LevelNames[lv] \in {levelNames[c], LevelNames[c]}
    BY <2>1, Zenon
  <2> HIDE DEF c
  <2>4. c = lv
    BY <2>3, NamesFacts
  <2> QED BY <2>2, <2>4
<1>3. ASSUME NEW lv \in Levels PROVE LevelFromString(LevelToString(lv)) = lv
  <2>1. lv \in 1..5 \/ (lv = 0 /\ lv \notin 1..5)
    BY DEF Levels
  <2> QED BY <1>1, <1>2, <2>1, Zenon DEF LevelToString, UNKNOW
<1>4. ASSUME NEW str PROVE LevelFromString(str) \in Levels
  <2>1. CASE \E i \in 1..5 : str \in {levelNames[i], LevelNames[i]}
    <3>1. LevelFromString(str) \in 1..5
      BY <2>1, Zenon DEF LevelFromString
    <3> QED BY <3>1 DEF Levels
  <2>2. CASE ~\E i \in 1..5 : str \in {levelNames[i], LevelNames[i]}
    <3>1. LevelFromString(str) = 0
      BY <2>2, Zenon DEF LevelFromString, UNKNOW
    <3> QED BY <3>1 DEF Levels
  <2> QED BY <2>1, <2>2
<1> QED BY <1>1, <1>3, <1>4

LEMMA ParseDefineType ==
    ASSUME NEW node \in Nodes, node.name # None
    PROVE  ParseDefine(node) \in ParsedDefines
<1>1. /\ node.name \in Loggers /\ node.formatter \in Formatters
      /\ node.appenders \in Seq(AppenderNodes)
  BY DEF Nodes
<1>2. ParseAppenders(node.appenders) \in Seq(ParsedAppenders)
  BY <1>1, ParseAppendersType
<1>3. LevelFromString(node.level) \in Levels
  BY LevelReads
<1> HIDE DEF Nodes
<1> QED BY <1>1, <1>2, <1>3 DEF ParseDefine, ParsedDefines

\* Of a node that is printed every appender is accepted and read as it was.
LEMMA AppenderPrinted ==
    ASSUME NEW a \in ParsedAppenders
    PROVE  Accepted(PrintAppender(a)) /\ ParseAppender(PrintAppender(a)) = a
<1>1. a.level = UNKNOW
  BY DEF ParsedAppenders
<1>2. None \notin Files
  BY LogConfigConstants
<1>3. CASE a \in [type : {"File"}, file : Files, level : {UNKNOW}, formatter : Formatters]
  <2>1. /\ a = [type |-> "File", file |-> a.file, level |-> UNKNOW, formatter |-> a.formatter]
        /\ a.file # None /\ a.type = "File"
    BY <1>2, <1>3
  <2>2. PrintAppender(a) = [type |-> "FileLogAppender", file |-> a.file, level |-> None,
                            formatter |-> a.formatter]
    BY <1>1, <2>1, Zenon DEF PrintAppender
  <2> QED BY <2>1, <2>2 DEF Accepted, ParseAppender
<1>4. CASE a \in [type : {"Stdout"}, file : {None}, level : {UNKNOW}, formatter : {None}]
  <2>1. /\ a = [type |-> "Stdout", file |-> None, level |-> UNKNOW, formatter |-> None]
        /\ a.type # "File"
    BY <1>4
  <2>2. PrintAppender(a) = [type |-> "StdoutLogAppender", file |-> None, level |-> None,
                            formatter |-> None]
    BY <1>1, <2>1 DEF PrintAppender
  <2> QED BY <2>1, <2>2 DEF Accepted, ParseAppender
<1> QED BY <1>3, <1>4 DEF ParsedAppenders

LEMMA FcnIsSeq ==
    ASSUME NEW n \in Nat, NEW X, NEW v \in [1..n -> X]
    PROVE  v \in Seq(X) /\ Len(v) = n
  OBVIOUS

\* A sequence of appender nodes that are all accepted
LEMMA ReadEach ==
    ASSUME NEW n \in Nat, NEW X, NEW nodes \in [1..n -> X], \A i \in 1..n : Accepted(nodes[i])
    PROVE  ParseAppenders(nodes) = [i \in 1..n |-> ParseAppender(nodes[i])]
<1>1. nodes \in Seq(X) /\ Len(nodes) = n
  BY FcnIsSeq
<1> QED BY <1>1, ParseAppendersAll

\* What toString() prints is parsed as the define again.
LEMMA DefinePrinted ==
    ASSUME NEW d \in ParsedDefines
    PROVE  ParseDefine(PrintDefine(d)) = d
<1>1. /\ d.level \in Levels /\ d.appenders \in Seq(ParsedAppenders)
      /\ d = [name |-> d.name, level |-> d.level, formatter |-> d.formatter,
              appenders |-> d.appenders]
  BY DEF ParsedDefines
<1> DEFINE as == d.appenders
           nodes == [i \in DOMAIN as |-> PrintAppender(as[i])]
           lv == IF d.level # UNKNOW THEN LevelToString(d.level) ELSE None
<1>2. as \in Seq(ParsedAppenders) /\ DOMAIN as = 1..Len(as) /\ \A i \in 1..Len(as) : as[i] \in ParsedAppenders
  <2> HIDE DEF ParsedAppenders
  <2> QED BY <1>1
<1> HIDE DEF as
<1>3. DOMAIN nodes = 1..Len(as) /\ \A i \in 1..Len(as) : nodes[i] = PrintAppender(as[i])
  BY <1>2, Zenon
<1>4. \A i \in 1..Len(as) : Accepted(nodes[i]) /\ ParseAppender(nodes[i]) = as[i]
  <2> HIDE DEF nodes
  <2> TAKE i \in 1..Len(as)
  <2>1. as[i] \in ParsedAppenders /\ nodes[i] = PrintAppender(as[i])
    BY <1>2, <1>3
  <2> QED BY <2>1, AppenderPrinted
<1> DEFINE X == {PrintAppender(as[i]) : i \in 1..Len(as)}
<1>5. Len(as) \in Nat /\ nodes \in [1..Len(as) -> X]
  <2>1. Len(as) \in Nat
    BY <1>2, LenProperties
  <2>2. \A i \in 1..Len(as) : PrintAppender(as[i]) \in X
    BY Zenon
  <2>3. nodes = [i \in 1..Len(as) |-> PrintAppender(as[i])]
    BY <1>2, Zenon
  <2> HIDE DEF X, nodes
  <2> QED BY <2>1, <2>2, <2>3, Zenon
<1>6. LevelFromString(lv) = d.level
  BY <1>1, LevelReads, Zenon
<1>7. PrintDefine(d) = [name |-> d.name, level |-> lv, formatter |-> d.formatter, appenders |-> nodes]
  BY Zenon DEF PrintDefine, as
<1> HIDE DEF nodes, lv, ParsedAppenders
<1>8. ParseAppenders(nodes) = [i \in 1..Len(as) |-> ParseAppender(nodes[i])]
  BY <1>4, <1>5, ReadEach
<1>9. [i \in 1..Len(as) |-> ParseAppender(nodes[i])] = as
  <2>1. as \in [1..Len(as) -> ParsedAppenders]
    BY <1>2, LenProperties
  <2> QED BY <1>4, <2>1
<1>10. /\ PrintDefine(d).name = d.name /\ PrintDefine(d).level = lv
       /\ PrintDefine(d).formatter = d.formatter /\ PrintDefine(d).appenders = nodes
  BY <1>7
<1>11. ParseDefine(PrintDefine(d)) = [name |-> d.name, level |-> d.level, formatter |-> d.formatter,
                                      appenders |-> as]
  BY <1>6, <1>8, <1>9, <1>10, Zenon DEF ParseDefine
<1> QED BY <1>1, <1>11 DEF as

\* The appender that a define makes is of its type, ...
LEMMA NewAppenderType ==
    ASSUME NEW a \in ParsedAppenders, NEW f \in Valid
    PROVE  NewAppender(a, f) \in LoggerAppenders
<1>1. /\ a.type \in {"File", "Stdout"} /\ a.file \in Files \cup {None} /\ a.level \in Levels
  BY DEF ParsedAppenders, Levels, UNKNOW
<1> DEFINE g == IF a.formatter \in Valid THEN a.formatter ELSE f
           h == a.formatter \in Valid
<1>2. g \in Valid /\ h \in BOOLEAN
  <2>1. g \in Valid
    OBVIOUS
  <2>2. h = TRUE \/ h = FALSE
    OBVIOUS
  <2> HIDE DEF g, h
  <2> QED BY <2>1, <2>2
<1>3. NewAppender(a, f) = [type |-> a.type, file |-> a.file, level |-> a.level, formatter |-> g,
                           has_formatter |-> h]
  BY Zenon DEF NewAppender
<1> HIDE DEF g, h
<1> QED BY <1>1, <1>2, <1>3 DEF LoggerAppenders

\* ... and its dump is accepted and makes the same appender.
LEMMA AppenderDumped ==
    ASSUME NEW a \in ParsedAppenders, NEW f \in Valid
    PROVE  /\ Accepted(AppenderToYaml(NewAppender(a, f)))
           /\ NewAppender(ParseAppender(AppenderToYaml(NewAppender(a, f))), f) = NewAppender(a, f)
<1> DEFINE b == NewAppender(a, f)
           fm == IF a.formatter \in Valid THEN a.formatter ELSE None
           g == IF a.formatter \in Valid THEN a.formatter ELSE f
           h == a.formatter \in Valid
<1>0. None \notin Files /\ None \notin Valid
  BY LogConfigConstants DEF Valid
<1>1. b = [type |-> a.type, file |-> a.file, level |-> a.level, formatter |-> g, has_formatter |-> h]
  BY Zenon DEF NewAppender
<1>2. /\ (fm \in Valid) = h
      /\ (IF fm \in Valid THEN fm ELSE f) = g
  <2>1. CASE a.formatter \in Valid
    BY <2>1, Zenon
  <2>2. CASE a.formatter \notin Valid
    <3>1. fm = None /\ h = FALSE /\ g = f
      BY <2>2
    <3>2. (fm \in Valid) = FALSE
      BY <1>0, <3>1
    <3> HIDE DEF fm, g, h
    <3> QED BY <3>1, <3>2, Zenon
  <2> QED BY <2>1, <2>2
<1>3. (IF h THEN g ELSE None) = fm
  OBVIOUS
<1> HIDE DEF b, g, h
<1>4. /\ b.type = a.type /\ b.file = a.file /\ b.level = a.level /\ b.formatter = g
      /\ b.has_formatter = h
  BY <1>1
<1>5. CASE a \in [type : {"File"}, file : Files, level : {UNKNOW}, formatter : Formatters]
  <2>1. a.type = "File" /\ a.file # None /\ a.level = UNKNOW
    BY <1>0, <1>5
  <2>2. AppenderToYaml(b) = [type |-> "FileLogAppender", file |-> a.file, level |-> None,
                             formatter |-> fm]
    <3> HIDE DEF fm
    <3> QED BY <1>3, <1>4, <2>1 DEF AppenderToYaml
  <2> HIDE DEF fm
  <2>3. /\ Accepted(AppenderToYaml(b))
        /\ ParseAppender(AppenderToYaml(b)) = [type |-> "File", file |-> a.file, level |-> UNKNOW,
                                               formatter |-> fm]
    BY <2>1, <2>2 DEF Accepted, ParseAppender
  <2> DEFINE c == ParseAppender(AppenderToYaml(b))
  <2> HIDE DEF c
  <2>4. c.type = a.type /\ c.file = a.file /\ c.level = a.level /\ c.formatter = fm
    BY <2>1, <2>3 DEF c
  <2>5. NewAppender(c, f) = b
    BY <1>1, <1>2, <2>4, Zenon DEF NewAppender
  <2> QED BY <2>3, <2>5 DEF b, c
<1>6. CASE a \in [type : {"Stdout"}, file : {None}, level : {UNKNOW}, formatter : {None}]
  <2>1. a.type = "Stdout" /\ a.file = None /\ a.level = UNKNOW /\ a.formatter = None
    BY <1>6
  <2>2. fm = None
    BY <2>1
  <2> HIDE DEF fm
  <2>3. AppenderToYaml(b) = [type |-> "StdoutLogAppender", file |-> None, level |-> None,
                             formatter |-> None]
    BY <1>3, <1>4, <2>1, <2>2 DEF AppenderToYaml
  <2>4. /\ Accepted(AppenderToYaml(b))
        /\ ParseAppender(AppenderToYaml(b)) = [type |-> "Stdout", file |-> None, level |-> UNKNOW,
                                               formatter |-> None]
    BY <2>3 DEF Accepted, ParseAppender
  <2> DEFINE c == ParseAppender(AppenderToYaml(b))
  <2> HIDE DEF c
  <2>5. c.type = a.type /\ c.file = a.file /\ c.level = a.level /\ c.formatter = fm
    BY <2>1, <2>2, <2>4 DEF c
  <2>6. NewAppender(c, f) = b
    BY <1>1, <1>2, <2>5, Zenon DEF NewAppender
  <2> QED BY <2>4, <2>6 DEF b, c
<1> QED BY <1>5, <1>6 DEF ParsedAppenders

-----------------------------------------------------------------------------
USE LogConfigConstants

-----------------------------------------------------------------------------
(***************************************************************************)
(* The inductive invariant.                                                *)
(***************************************************************************)

\* std::set<LogDefine> is ordered by name: one define per logger.
OneDefine(defs) ==
    /\ \A e \in defs : e.name \in Loggers
    /\ \A e, g \in defs : e.name = g.name => e = g

LogConfigInv ==
    /\ TypeOK /\ OneDefine(conf) /\ conf \subseteq ParsedDefines
    /\ \A e \in conf : e.name \in ever
    /\ ConfigApplied /\ OthersUntouched

-----------------------------------------------------------------------------
\* Whatever the document repeats, its value has one define per name.
LEMMA ParseFacts ==
    ASSUME NEW d \in Docs, WellFormed(d)
    PROVE  OneDefine(Parse(d)) /\ Parse(d) \subseteq ParsedDefines
<1>1. /\ d \in Seq(Nodes) /\ Len(d) \in Nat /\ DOMAIN d = 1 .. Len(d)
      /\ \A i \in DOMAIN d : d[i] \in Nodes
  OBVIOUS
<1>2. \A i \in DOMAIN d : d[i].name \in Loggers
  BY <1>1 DEF WellFormed, Nodes
<1>3. \A i \in Firsts(d) : i \in DOMAIN d /\ ParseDefine(d[i]).name = d[i].name
  BY DEF Firsts, ParseDefine
<1>4. ASSUME NEW i \in Firsts(d), NEW k \in Firsts(d), d[i].name = d[k].name
      PROVE  i = k
  <2>1. i \in Nat /\ k \in Nat /\ i >= 1 /\ k >= 1
    BY <1>1, <1>3
  <2>2. ~(i < k) /\ ~(k < i)
    BY <1>4, <2>1 DEF Firsts
  <2> QED BY <2>1, <2>2
<1>5. \A e \in Parse(d) : \E i \in Firsts(d) : e = ParseDefine(d[i])
  BY DEF Parse
<1>6. ASSUME NEW e \in Parse(d) PROVE e.name \in Loggers
  BY <1>2, <1>3, <1>5
<1>7. ASSUME NEW e \in Parse(d), NEW g \in Parse(d), e.name = g.name PROVE e = g
  <2>1. PICK i \in Firsts(d) : e = ParseDefine(d[i])
    BY <1>5
  <2>2. PICK k \in Firsts(d) : g = ParseDefine(d[k])
    BY <1>5
  <2> QED BY <1>3, <1>4, <1>7, <2>1, <2>2
<1>8. ASSUME NEW e \in Parse(d) PROVE e \in ParsedDefines
  <2>1. PICK i \in Firsts(d) : e = ParseDefine(d[i])
    BY <1>5
  <2>2. d[i] \in Nodes /\ d[i].name # None
    BY <1>1, <1>3 DEF WellFormed
  <2> QED BY <2>1, <2>2, ParseDefineType
<1> QED BY <1>6, <1>7, <1>8 DEF OneDefine

\* What find() makes of a set with one define per name.
LEMMA NamedFacts ==
    ASSUME NEW defs, OneDefine(defs), NEW e \in defs
    PROVE  Named(defs, e.name) = {e} /\ (CHOOSE x \in Named(defs, e.name) : TRUE) = e
<1>1. Named(defs, e.name) = {e}
  BY DEF Named, OneDefine
<1> QED BY <1>1

\* The three ways the listener treats a logger: a define that is new or modified is
\* applied, ...
LEMMA DefineApplied ==
    ASSUME NEW old, NEW new, OneDefine(new), NEW e \in new, e \notin old
    PROVE  /\ NewLevel(e.name, old, new) = e.level
           /\ NewFormatter(e.name, old, new) = SetPattern(m_formatter[e.name], e.formatter)
           /\ NewAppenders(e.name, old, new) =
                 [i \in DOMAIN e.appenders |->
                     NewAppender(e.appenders[i], NewFormatter(e.name, old, new))]
<1>1. e.name \notin Removed(old, new) /\ Named(Changed(old, new), e.name) # {}
  BY DEF Removed, Named, Changed
<1> DEFINE c == CHOOSE x \in Named(new, e.name) : TRUE
<1>2. /\ NewLevel(e.name, old, new) = c.level
      /\ NewFormatter(e.name, old, new) = SetPattern(m_formatter[e.name], c.formatter)
  BY <1>1, Zenon DEF NewLevel, NewFormatter
<1>3. NewAppenders(e.name, old, new) =
        [i \in DOMAIN c.appenders |->
            NewAppender(c.appenders[i], NewFormatter(e.name, old, new))]
  BY <1>1, Zenon DEF NewAppenders
<1>4. c = e
  BY NamedFacts
<1> HIDE DEF c
<1> QED BY <1>2, <1>3, <1>4, Zenon

\* ... one that is as before leaves the logger alone, ...
LEMMA DefineKept ==
    ASSUME NEW old, NEW new, OneDefine(new), NEW e \in new, e \in old
    PROVE  /\ NewLevel(e.name, old, new) = m_level[e.name]
           /\ NewFormatter(e.name, old, new) = m_formatter[e.name]
           /\ NewAppenders(e.name, old, new) = m_appenders[e.name]
<1>1. e.name \notin Removed(old, new) /\ Named(Changed(old, new), e.name) = {}
  BY DEF Removed, Named, Changed, OneDefine
<1> QED BY <1>1 DEF NewLevel, NewFormatter, NewAppenders

\* ... and a logger without a define is closed if it had one, and left alone if not.
LEMMA OthersApplied ==
    ASSUME NEW old, NEW new, NEW n, Named(new, n) = {}
    PROVE  /\ Named(old, n) # {} =>
                 NewLevel(n, old, new) = CLOSED /\ NewAppenders(n, old, new) = <<>>
           /\ Named(old, n) = {} =>
                 /\ NewLevel(n, old, new) = m_level[n]
                 /\ NewAppenders(n, old, new) = m_appenders[n]
           /\ NewFormatter(n, old, new) = m_formatter[n]
<1>1. Named(Changed(old, new), n) = {}
  BY DEF Named, Changed
<1>2. n \in Removed(old, new) <=> Named(old, n) # {}
  BY DEF Named, Removed
<1> QED BY <1>1, <1>2 DEF NewLevel, NewFormatter, NewAppenders

-----------------------------------------------------------------------------
LEMMA LogConfigInit ==
    ASSUME Init
    PROVE  LogConfigInv
<1>1. TypeOK
  <2> DEFINE a == [type |-> "Stdout", file |-> None, level |-> 1, formatter |-> Default,
                   has_formatter |-> FALSE]
  <2>1. a \in LoggerAppenders
    BY DEF LoggerAppenders, Levels
  <2> HIDE DEF a
  <2>2. <<a>> \in Seq(LoggerAppenders) /\ <<>> \in Seq(LoggerAppenders)
    BY <2>1
  <2>3. m_appenders = [n \in Loggers |-> IF n = Root THEN <<a>> ELSE <<>>]
    BY DEF Init, a
  <2>4. m_appenders \in [Loggers -> Seq(LoggerAppenders)]
    BY <2>2, <2>3, Zenon
  <2>5. 1 \in Levels \cup {CLOSED}
    BY DEF Levels
  <2>6. m_level \in [Loggers -> Levels \cup {CLOSED}] /\ m_formatter \in [Loggers -> Valid]
    BY <2>5, Zenon DEF Init
  <2>7. m_loggers \in SUBSET Loggers /\ conf \in SUBSET LogDefines /\ ever \in SUBSET Loggers
    BY Zenon DEF Init
  <2> QED BY <2>4, <2>6, <2>7, Zenon DEF TypeOK
<1>2. OneDefine(conf) /\ conf \subseteq ParsedDefines /\ \A e \in conf : e.name \in ever
  BY DEF Init, OneDefine
<1>3. ConfigApplied /\ OthersUntouched
  BY DEF Init, ConfigApplied, OthersUntouched, Named
<1> QED BY <1>1, <1>2, <1>3 DEF LogConfigInv

LEMMA NewAppendersType ==
    ASSUME NEW as \in Seq(ParsedAppenders), NEW f \in Valid
    PROVE  [i \in DOMAIN as |-> NewAppender(as[i], f)] \in Seq(LoggerAppenders)
<1> DEFINE v == [i \in DOMAIN as |-> NewAppender(as[i], f)]
<1>1. Len(as) \in Nat /\ DOMAIN as = 1..Len(as) /\ \A i \in 1..Len(as) : as[i] \in ParsedAppenders
  BY LenProperties
<1>2. \A i \in 1..Len(as) : NewAppender(as[i], f) \in LoggerAppenders
  BY <1>1, NewAppenderType
<1>3. v \in [1..Len(as) -> LoggerAppenders]
  BY <1>1, <1>2, Zenon
<1> HIDE DEF v
<1>4. v \in Seq(LoggerAppenders)
  BY <1>1, <1>3, FcnIsSeq
<1> QED BY <1>4 DEF v

LEMMA ParsedAreDefines == ParsedDefines \subseteq LogDefines
<1>1. ParsedAppenders \subseteq AppenderDefines
  BY DEF ParsedAppenders, AppenderDefines, Levels, UNKNOW
<1>2. Seq(ParsedAppenders) \subseteq Seq(AppenderDefines)
  BY <1>1, SeqMonotonic
<1> QED BY <1>2 DEF ParsedDefines, LogDefines

\* The listener keeps the types.
LEMMA OnChangeType ==
    ASSUME TypeOK, OneDefine(conf), NEW new, OneDefine(new), new \subseteq ParsedDefines,
           OnChange(conf, new), conf' = new, ever' = ever \cup {e.name : e \in new}
    PROVE  TypeOK'
<1>1. \A e \in new : /\ e.name \in Loggers /\ e.level \in Levels
                      /\ e.appenders \in Seq(ParsedAppenders)
  BY DEF ParsedDefines
<1>2. \A n : Named(Changed(conf, new), n) # {} => (CHOOSE d \in Named(new, n) : TRUE) \in new
  <2> SUFFICES ASSUME NEW n, Named(Changed(conf, new), n) # {}
               PROVE  (CHOOSE d \in Named(new, n) : TRUE) \in new
    OBVIOUS
  <2>1. Named(new, n) # {} /\ Named(new, n) \subseteq new
    BY DEF Named, Changed
  <2> QED BY <2>1
<1>3. ASSUME NEW n \in Loggers PROVE NewLevel(n, conf, new) \in Levels \cup {CLOSED}
  <2>1. m_level[n] \in Levels \cup {CLOSED}
    BY DEF TypeOK
  <2> QED BY <1>1, <1>2, <2>1, Zenon DEF NewLevel
<1>4. ASSUME NEW n \in Loggers PROVE NewFormatter(n, conf, new) \in Valid
  <2>1. m_formatter[n] \in Valid
    BY DEF TypeOK
  <2> QED BY <2>1, Zenon DEF NewFormatter, SetPattern
<1>5. ASSUME NEW n \in Loggers PROVE NewAppenders(n, conf, new) \in Seq(LoggerAppenders)
  <2>1. m_appenders[n] \in Seq(LoggerAppenders) /\ <<>> \in Seq(LoggerAppenders)
    BY DEF TypeOK
  <2> DEFINE ds == (CHOOSE d \in Named(new, n) : TRUE).appenders
             f == NewFormatter(n, conf, new)
             v == [i \in DOMAIN ds |-> NewAppender(ds[i], f)]
  <2>2. Named(Changed(conf, new), n) # {} => ds \in Seq(ParsedAppenders)
    BY <1>1, <1>2, Zenon
  <2>3. NewAppenders(n, conf, new) \in {<<>>, m_appenders[n]}
        \/ (Named(Changed(conf, new), n) # {} /\ NewAppenders(n, conf, new) = v)
    BY Zenon DEF NewAppenders
  <2>4. f \in Valid
    BY <1>4
  <2> HIDE DEF ds, f
  <2>5. Named(Changed(conf, new), n) # {} => v \in Seq(LoggerAppenders)
    BY <2>2, <2>4, NewAppendersType
  <2> HIDE DEF v
  <2> QED BY <2>1, <2>3, <2>5, Zenon
<1>6. /\ m_level' \in [Loggers -> Levels \cup {CLOSED}] /\ m_formatter' \in [Loggers -> Valid]
      /\ m_appenders' \in [Loggers -> Seq(LoggerAppenders)]
  BY <1>3, <1>4, <1>5, Zenon DEF OnChange
<1>7. m_loggers' \in SUBSET Loggers
  BY <1>1 DEF OnChange, Changed, Removed, OneDefine, TypeOK
<1>8. conf' \in SUBSET LogDefines
  BY ParsedAreDefines
<1>9. ever' \in SUBSET Loggers
  BY <1>1 DEF TypeOK
<1> QED BY <1>6, <1>7, <1>8, <1>9, Zenon DEF TypeOK, Valid, LoggerAppenders, LogDefines

\* The listener, called with two values that differ in any way.
LEMMA OnChangeStep ==
    ASSUME LogConfigInv, NEW new, OneDefine(new), new \subseteq ParsedDefines,
           OnChange(conf, new), conf' = new, ever' = ever \cup {e.name : e \in new}
    PROVE  LogConfigInv'
<1> USE DEF LogConfigInv
<1>0. \A n \in Loggers : /\ m_level'[n] = NewLevel(n, conf, new)
                         /\ m_formatter'[n] = NewFormatter(n, conf, new)
                         /\ m_appenders'[n] = NewAppenders(n, conf, new)
  BY DEF OnChange
<1>1. TypeOK'
  BY OnChangeType
<1>2. OneDefine(conf)' /\ conf' \subseteq ParsedDefines /\ \A e \in conf' : e.name \in ever'
  BY DEF OneDefine
<1>3. ASSUME NEW e \in new
      PROVE  /\ e.name \in m_loggers' /\ m_level'[e.name] = e.level
             /\ e.formatter \in Valid => m_formatter'[e.name] = e.formatter
             /\ m_appenders'[e.name] =
                   [i \in DOMAIN e.appenders |->
                       NewAppender(e.appenders[i], m_formatter'[e.name])]
  <2>1. e.name \in Loggers
    BY DEF OneDefine
  <2>2. CASE e \notin conf
    <3>1. e.name \in m_loggers'
      BY <2>2 DEF OnChange, Changed
    <3>2. /\ m_level'[e.name] = e.level
          /\ m_formatter'[e.name] = SetPattern(m_formatter[e.name], e.formatter)
          /\ m_appenders'[e.name] =
                [i \in DOMAIN e.appenders |->
                    NewAppender(e.appenders[i], m_formatter'[e.name])]
      <4>1. /\ NewLevel(e.name, conf, new) = e.level
            /\ NewFormatter(e.name, conf, new) = SetPattern(m_formatter[e.name], e.formatter)
            /\ NewAppenders(e.name, conf, new) =
                  [i \in DOMAIN e.appenders |->
                      NewAppender(e.appenders[i], NewFormatter(e.name, conf, new))]
        BY <2>2, DefineApplied
      <4>2. /\ m_level'[e.name] = NewLevel(e.name, conf, new)
            /\ m_formatter'[e.name] = NewFormatter(e.name, conf, new)
            /\ m_appenders'[e.name] = NewAppenders(e.name, conf, new)
        BY <1>0, <2>1
      <4> QED BY <4>1, <4>2, Zenon
    <3> QED BY <3>1, <3>2, Zenon DEF SetPattern
  <2>3. CASE e \in conf
    <3>1. e.name \in m_loggers'
      BY <2>3 DEF OnChange, ConfigApplied
    <3>2. /\ m_level'[e.name] = m_level[e.name] /\ m_formatter'[e.name] = m_formatter[e.name]
          /\ m_appenders'[e.name] = m_appenders[e.name]
      BY <1>0, <2>1, <2>3, DefineKept
    <3> QED BY <2>3, <3>1, <3>2 DEF ConfigApplied
  <2> QED BY <2>2, <2>3
<1>4. ConfigApplied'
  BY <1>3, Zenon DEF ConfigApplied, NewAppender, Valid
<1>5. ASSUME NEW n \in Loggers, Named(new, n) = {}
      PROVE  IF n \in ever' THEN m_level'[n] = CLOSED /\ m_appenders'[n] = <<>>
             ELSE /\ m_level'[n] = 1 /\ m_formatter'[n] = Default
                  /\ n # Root => m_appenders'[n] = <<>>
  <2>1. n \in ever' <=> n \in ever
    BY <1>5 DEF Named
  <2>2. CASE Named(conf, n) # {}
    <3>1. n \in ever
      BY <2>2 DEF Named
    <3> QED BY <1>0, <1>5, <2>1, <2>2, <3>1, OthersApplied
  <2>3. CASE Named(conf, n) = {}
    <3>1. /\ m_level'[n] = m_level[n] /\ m_appenders'[n] = m_appenders[n]
          /\ m_formatter'[n] = m_formatter[n]
      BY <1>0, <1>5, <2>3, OthersApplied
    <3> QED BY <2>1, <2>3, <3>1 DEF OthersUntouched
  <2> QED BY <2>2, <2>3
<1>6. OthersUntouched'
  BY <1>5, Zenon DEF OthersUntouched, Named
<1> QED BY <1>1, <1>2, <1>4, <1>6

LEMMA LogConfigStep ==
    ASSUME LogConfigInv, [Next]_vars
    PROVE  LogConfigInv'
<1> USE DEF LogConfigInv
<1>1. ASSUME NEW n \in Loggers, getLogger(n)
      PROVE  LogConfigInv'
  BY <1>1 DEF getLogger, TypeOK, OneDefine, ConfigApplied, OthersUntouched, Named
<1>2. ASSUME NEW d \in Docs, Load(d)
      PROVE  LogConfigInv'
  <2>1. OneDefine(Parse(d)) /\ Parse(d) \subseteq ParsedDefines
    BY <1>2, ParseFacts DEF Load
  <2>2. CASE Parse(d) = conf /\ UNCHANGED <<m_loggers, m_level, m_formatter, m_appenders>>
    <3>1. conf' = conf /\ ever' = ever
      BY <1>2, <2>2 DEF Load
    <3> QED BY <2>2, <3>1 DEF TypeOK, OneDefine, ConfigApplied, OthersUntouched, Named
  <2>3. CASE OnChange(conf, Parse(d))
    BY <1>2, <2>1, <2>3, OnChangeStep DEF Load
  <2> QED BY <1>2, <2>2, <2>3 DEF Load
<1>3. CASE UNCHANGED vars
  BY <1>3 DEF vars, TypeOK, OneDefine, ConfigApplied, OthersUntouched, Named
<1> QED BY <1>1, <1>2, <1>3 DEF Next, LoadFails

-----------------------------------------------------------------------------
\* LogConfigInv holds after any sequence of loads and of calls of getLogger().
THEOREM LogConfigCorrect == Spec => []LogConfigInv
  BY LogConfigInit, LogConfigStep, PTL DEF Spec

\* The listener only looks at the difference between the old value of "logs" and the
\* new one; still, after any sequence of loads, every configured logger has the level,
\* the appenders and, if it is valid, the formatter that its define names.
THEOREM ConfigAppliedCorrect == Spec => []ConfigApplied
<1>1. LogConfigInv => ConfigApplied
  BY DEF LogConfigInv
<1> QED BY <1>1, LogConfigCorrect, PTL

\* A logger that left the configuration is closed, and one that never was in it is as
\* the constructor left it, after any sequence of loads.
THEOREM OthersUntouchedCorrect == Spec => []OthersUntouched
<1>1. LogConfigInv => OthersUntouched
  BY DEF LogConfigInv
<1> QED BY <1>1, LogConfigCorrect, PTL

\* No formatter that reported an error, no unknown level and no appender without its
\* file ever gets to a logger.
THEOREM TypeCorrect == Spec => []TypeOK
<1>1. LogConfigInv => TypeOK
  BY DEF LogConfigInv
<1> QED BY <1>1, LogConfigCorrect, PTL

\* What toString() of "logs" prints is parsed as the value it was printed from, after
\* any sequence of loads.
THEOREM RoundTripCorrect == Spec => []RoundTrip
<1>1. ASSUME LogConfigInv PROVE RoundTrip
  <2>1. conf \subseteq ParsedDefines
    BY <1>1 DEF LogConfigInv
  <2>2. ASSUME NEW d \in conf PROVE ParseDefine(PrintDefine(d)) = d
    <3>1. d \in ParsedDefines
      BY <2>1
    <3> QED BY <3>1, DefinePrinted
  <2> QED BY <2>2 DEF RoundTrip
<1> QED BY <1>1, LogConfigCorrect, PTL

\* What toYamlString() says of a configured logger makes the logger as it is, when it is
\* loaded in place of its define, whatever was loaded before.
THEOREM DumpReloadsCorrect == Spec => []DumpReloads
<1>1. ASSUME LogConfigInv PROVE DumpReloads
  <2> SUFFICES ASSUME NEW d \in conf
               PROVE  LET n == d.name
                          e == ParseDefine(LoggerToYaml(n))
                      IN  /\ e.level = m_level[n]
                          /\ SetPattern(Default, e.formatter) = m_formatter[n]
                          /\ [i \in DOMAIN e.appenders |-> NewAppender(e.appenders[i], m_formatter[n])]
                                = m_appenders[n]
    BY Zenon DEF DumpReloads
  <2> DEFINE n == d.name
             f == m_formatter[n]
             as == d.appenders
             made == m_appenders[n]
             nodes == [i \in DOMAIN made |-> AppenderToYaml(made[i])]
             X == {AppenderToYaml(made[i]) : i \in 1..Len(as)}
  <2>1. d \in ParsedDefines /\ n \in Loggers
    BY <1>1 DEF LogConfigInv, OneDefine
  <2>2. d.level \in Levels /\ as \in Seq(ParsedAppenders)
    BY <2>1 DEF ParsedDefines
  <2>3. m_level[n] = d.level /\ made = [i \in DOMAIN as |-> NewAppender(as[i], f)]
    BY <1>1, Zenon DEF LogConfigInv, ConfigApplied
  <2>4. f \in Valid
    BY <1>1, <2>1 DEF LogConfigInv, TypeOK
  <2>5. /\ Len(as) \in Nat /\ DOMAIN as = 1..Len(as)
        /\ \A i \in 1..Len(as) : as[i] \in ParsedAppenders
    BY <2>2, LenProperties
  <2>6. LoggerToYaml(n) = [name |-> n, level |-> LevelToString(d.level), formatter |-> f,
                           appenders |-> nodes]
    BY <2>3, Zenon DEF LoggerToYaml
  <2> HIDE DEF n, f, as, made, X
  <2>7. DOMAIN made = 1..Len(as) /\ \A i \in 1..Len(as) : made[i] = NewAppender(as[i], f)
    BY <2>3, <2>5
  <2>8. ASSUME NEW i \in 1..Len(as)
        PROVE  /\ Accepted(AppenderToYaml(made[i]))
               /\ NewAppender(ParseAppender(AppenderToYaml(made[i])), f) = made[i]
    <3>1. as[i] \in ParsedAppenders /\ made[i] = NewAppender(as[i], f)
      BY <2>5, <2>7
    <3> QED BY <2>4, <3>1, AppenderDumped
  <2>9. nodes = [i \in 1..Len(as) |-> AppenderToYaml(made[i])]
    BY <2>7
  <2> HIDE DEF nodes
  <2>10. nodes \in [1..Len(as) -> X] /\ \A i \in 1..Len(as) : nodes[i] = AppenderToYaml(made[i])
    BY <2>9, Zenon DEF X
  <2>11. ParseAppenders(nodes) = [i \in 1..Len(as) |-> ParseAppender(nodes[i])]
    <3>1. \A i \in 1..Len(as) : Accepted(nodes[i])
      BY <2>8, <2>10
    <3> QED BY <2>5, <2>10, <3>1, ReadEach
  <2> DEFINE e == ParseDefine(LoggerToYaml(n))
  <2>12. /\ e.level = LevelFromString(LevelToString(d.level)) /\ e.formatter = f
         /\ e.appenders = ParseAppenders(nodes)
    BY <2>6 DEF ParseDefine
  <2> HIDE DEF e
  <2>13. e.level = m_level[n]
    BY <2>2, <2>3, <2>12, LevelReads
  <2>14. SetPattern(Default, e.formatter) = m_formatter[n]
    BY <2>4, <2>12 DEF SetPattern, f
  <2> DEFINE again == [i \in DOMAIN e.appenders |-> NewAppender(e.appenders[i], f)]
  <2>15. again = made
    <3>1. DOMAIN e.appenders = 1..Len(as) /\ \A i \in 1..Len(as) :
             e.appenders[i] = ParseAppender(AppenderToYaml(made[i]))
      BY <2>10, <2>11, <2>12
    <3>2. \A i \in 1..Len(as) : NewAppender(e.appenders[i], f) = made[i]
      BY <2>8, <3>1
    <3>3. made = [i \in 1..Len(as) |-> made[i]]
      BY <2>3, <2>5
    <3> QED BY <3>1, <3>2, <3>3
  <2> QED BY <2>13, <2>14, <2>15 DEF n, e, f, made
<1> QED BY <1>1, LogConfigCorrect, PTL

\* LogFormatter::init() accepts exactly the patterns that are well written, and what it
\* keeps of an accepted one is the pattern: for every pattern, of any length.
THEOREM FormatterReadsCorrect == Spec => []FormatterReads
<1>1. FormatterReads
  <2>1. \A p \in Patterns : p \in Seq(STRING)
    OBVIOUS
  <2>2. \A p \in Seq(STRING) : AcceptsWritten(p) /\ ReadsBack(p)
    BY AcceptsWrittenAlways, ReadsBackAlways, Zenon
  <2> QED BY <2>1, <2>2, Zenon DEF FormatterReads
<1> QED BY <1>1, PTL
=============================================================================
