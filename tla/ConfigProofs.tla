---------------------------- MODULE ConfigProofs ----------------------------
(***************************************************************************)
(* TLAPS proofs about Config, for any threads, names, types, conversions   *)
(* and documents.                                                          *)
(***************************************************************************)
EXTENDS Config, TLAPS

USE RWMutexConstants, ConfigConstants
    DEF RWMutexes, Unlocked, CanRead, CanWrite, rdlock, wrlock, unlock, Goto, Enter, Return,
        Registered

\* The arguments and locals of a call.
CallFields == {"name", "type", "doc", "todo", "rest", "seen"}

Shape ==
    /\ s_mutex \in RWMutexes
    /\ pc \in [Threads -> {"idle", "lookup", "find", "insert", "load", "visit"}]
    /\ DOMAIN call = Threads
    /\ \A t \in Threads : DOMAIN call[t] = CallFields
    /\ \A t \in Threads : pc[t] \in {"lookup", "find", "insert"} => call[t].name \in Names
    /\ DOMAIN handed = Names
    /\ \A n \in Registered : DOMAIN s_datas[n] = {"id", "type", "val"}

\* Who is where in Lookup() and Visit() holds s_mutex, and no one reads while
\* someone writes.
Locked ==
    /\ \A t \in Threads : pc[t] \in {"find", "insert"} => s_mutex.writer = t
    /\ \A t \in Threads : pc[t] = "visit" => t \in s_mutex.readers
    /\ s_mutex.writer # None => s_mutex.readers = {}

\* A name that is about to be inserted is not in the map yet.
Absent == \A t \in Threads : pc[t] = "insert" => call[t].name \notin Registered

\* While a thread loads, it is the only one, and whoever looks a name up will find it.
Undisturbed ==
    \A t \in Threads : pc[t] = "load" =>
        \A u \in Threads :
            /\ pc[u] = "load" => u = t
            /\ pc[u] \in {"lookup", "find", "insert"} => call[u].name \in Registered

\* Member i of document d gives a value to variable v, which has name n.
Gives(d, i, n, v) ==
    Members(d)[i].key = n /\ Convert(v.type, Members(d)[i].node) # {}

\* v, once w, is what the first k members of document d make of it: it has the value of
\* the last one that gives it any.
Made(d, k, n, w, v) ==
    \/ v = w /\ \A i \in 1..k : ~Gives(d, i, n, w)
    \/ \E i \in 1..k :
          /\ Members(d)[i].key = n
          /\ \A j \in (i + 1)..k : ~Gives(d, j, n, w)
          /\ \E x \in Convert(w.type, Members(d)[i].node) : v = [w EXCEPT !.val = x]

\* The members that are handled are the first k, in the order of the list.
LoadApplies ==
    \A t \in Threads : pc[t] = "load" =>
        /\ call[t].doc \in Docs /\ Registered = DOMAIN before
        /\ \E k \in 0..Len(Members(call[t].doc)) :
              /\ call[t].todo = SubSeq(Members(call[t].doc), k + 1, Len(Members(call[t].doc)))
              /\ \A n \in Registered : Made(call[t].doc, k, n, before[n], s_datas[n])

ConfigInv == Shape /\ Locked /\ Absent /\ OneObject /\ VisitSeesAll

LoadInv == Undisturbed /\ LoadApplies

LEMMA LookupStep ==
    ASSUME NEW t \in Threads, NEW n \in Names, NEW T \in Types, ConfigInv,
           Lookup(t, n, T) \/ LookupExisting(t, n, T)
    PROVE  ConfigInv'
<1> USE DEF ConfigInv, Lookup, LookupExisting
<1>1. Shape'
  <2>1. CASE Lookup(t, n, T)
    BY <2>1 DEF Shape, CallFields, NoCall
  <2>2. CASE LookupExisting(t, n, T)
    BY <2>2 DEF Shape
  <2> QED BY <2>1, <2>2
<1>2. Locked'
  BY DEF Shape, Locked
<1>3. Absent'
  BY DEF Shape, Absent
<1>4. OneObject'
  BY DEF Shape, OneObject
<1>5. VisitSeesAll'
  BY DEF Shape, VisitSeesAll
<1> QED BY <1>1, <1>2, <1>3, <1>4, <1>5

LEMMA LookupLockStep ==
    ASSUME NEW t \in Threads, ConfigInv, LookupLock(t)
    PROVE  ConfigInv'
<1> USE DEF ConfigInv, LookupLock
<1>1. Shape'
  BY DEF Shape
<1>2. Locked'
  BY DEF Shape, Locked
<1>3. Absent'
  BY DEF Shape, Absent
<1>4. OneObject'
  BY DEF OneObject
<1>5. VisitSeesAll'
  BY DEF Shape, VisitSeesAll
<1> QED BY <1>1, <1>2, <1>3, <1>4, <1>5

LEMMA LookupFindStep ==
    ASSUME NEW t \in Threads, ConfigInv, LookupFind(t)
    PROVE  ConfigInv'
<1> USE DEF ConfigInv, LookupFind
<1>1. Shape'
  BY DEF Shape, CallFields, NoCall
<1>2. Locked'
  BY DEF Shape, Locked
<1>3. Absent'
  BY DEF Shape, Absent
<1>4. OneObject'
  BY DEF Shape, OneObject
<1>5. VisitSeesAll'
  BY DEF Shape, VisitSeesAll
<1> QED BY <1>1, <1>2, <1>3, <1>4, <1>5

LEMMA LookupInsertStep ==
    ASSUME NEW t \in Threads, ConfigInv, LookupInsert(t)
    PROVE  ConfigInv'
<1> USE DEF ConfigInv
<1> DEFINE n == call[t].name
<1>1. PICK id : /\ Registered' = Registered \cup {n}
                /\ s_datas'[n].id = id
                /\ \A m \in Registered : m # n => s_datas'[m] = s_datas[m]
                /\ handed' = [handed EXCEPT ![n] = @ \cup {id}]
  BY DEF LookupInsert
<1>2. /\ n \in Names /\ n \notin Registered
      /\ pc[t] = "insert" /\ s_mutex.writer = t /\ s_mutex.readers = {}
  BY DEF LookupInsert, Shape, Locked, Absent
<1>3. Shape'
  BY <1>1, <1>2 DEF LookupInsert, Shape, CallFields, NoCall
<1>4. Locked'
  BY <1>2 DEF LookupInsert, Shape, Locked
<1>5. \A u \in Threads : pc'[u] \notin {"insert", "visit"}
  BY <1>2 DEF LookupInsert, Shape, Locked
<1>6. OneObject'
  BY <1>1, <1>2 DEF Shape, OneObject
<1> QED BY <1>3, <1>4, <1>5, <1>6 DEF Absent, VisitSeesAll

LEMMA LoadStep ==
    ASSUME NEW t \in Threads, ConfigInv,
           (\E d \in Docs : LoadFromYaml(t, d)) \/ LoadOne(t) \/ LoadReturn(t)
    PROVE  ConfigInv'
<1> USE DEF ConfigInv
<1>1. Registered' = Registered /\ \A n \in Registered : s_datas'[n].id = s_datas[n].id
  <2>1. CASE UNCHANGED s_datas
    BY <2>1
  <2>2. ASSUME NEW k \in Registered, NEW v, s_datas' = [s_datas EXCEPT ![k].val = v]
        PROVE  Registered' = Registered /\ \A n \in Registered : s_datas'[n].id = s_datas[n].id
    BY <2>2 DEF Shape
  <2> QED BY <2>1, <2>2, Zenon DEF LoadFromYaml, LoadOne, LoadReturn
<1>2. UNCHANGED <<s_mutex, handed>>
  BY Zenon DEF LoadFromYaml, LoadOne, LoadReturn
<1>3. Shape'
  <2>1. CASE \E d \in Docs : LoadFromYaml(t, d)
    BY <1>2, <2>1 DEF LoadFromYaml, Shape, CallFields, NoCall
  <2>2. CASE LoadOne(t)
    BY <1>2, <2>2 DEF LoadOne, Shape
  <2>3. CASE LoadReturn(t)
    BY <1>2, <2>3 DEF LoadReturn, Shape, CallFields, NoCall
  <2> QED BY <2>1, <2>2, <2>3
<1>4. Locked'
  BY <1>2, Zenon DEF LoadFromYaml, LoadOne, LoadReturn, Shape, Locked
<1>5. Absent'
  BY <1>1, Zenon DEF LoadFromYaml, LoadOne, LoadReturn, Shape, Absent
<1>6. OneObject'
  BY <1>1, <1>2 DEF OneObject
<1>7. VisitSeesAll'
  BY <1>1, Zenon DEF LoadFromYaml, LoadOne, LoadReturn, Shape, VisitSeesAll
<1> QED BY <1>3, <1>4, <1>5, <1>6, <1>7

LEMMA VisitStep ==
    ASSUME NEW t \in Threads, ConfigInv, Visit(t) \/ VisitOne(t) \/ VisitReturn(t)
    PROVE  ConfigInv'
<1> USE DEF ConfigInv
<1>1. UNCHANGED <<s_datas, handed>>
  BY DEF Visit, VisitOne, VisitReturn
<1>2. Shape'
  <2>1. CASE Visit(t)
    BY <1>1, <2>1 DEF Visit, Shape, CallFields, NoCall
  <2>2. CASE VisitOne(t)
    BY <1>1, <2>2, Zenon DEF VisitOne, Shape
  <2>3. CASE VisitReturn(t)
    BY <1>1, <2>3 DEF VisitReturn, Shape, CallFields, NoCall
  <2> QED BY <2>1, <2>2, <2>3
<1>3. Locked'
  BY DEF Visit, VisitOne, VisitReturn, Shape, Locked
<1>4. Absent'
  BY <1>1 DEF Visit, VisitOne, VisitReturn, Shape, Absent
<1>5. OneObject'
  BY <1>1 DEF OneObject
<1>6. VisitSeesAll'
  <2>1. CASE Visit(t)
    BY <1>1, <2>1 DEF Visit, Shape, VisitSeesAll, CallFields, NoCall
  <2>2. CASE VisitOne(t)
    <3>1. PICK n \in call[t].rest :
             call' = [call EXCEPT ![t].rest = @ \ {n}, ![t].seen = @ \cup {n}]
      BY <2>2 DEF VisitOne
    <3>2. /\ \A u \in Threads \ {t} : call'[u] = call[u]
          /\ call'[t].rest = call[t].rest \ {n} /\ call'[t].seen = call[t].seen \cup {n}
      BY <3>1 DEF Shape, CallFields
    <3>3. UNCHANGED pc
      BY <2>2 DEF VisitOne
    <3>4. call'[t].seen \cup call'[t].rest = call[t].seen \cup call[t].rest
      BY <3>2
    <3> QED BY <1>1, <3>2, <3>3, <3>4 DEF VisitSeesAll
  <2>3. CASE VisitReturn(t)
    BY <1>1, <2>3 DEF VisitReturn, Shape, VisitSeesAll
  <2> QED BY <2>1, <2>2, <2>3
<1> QED BY <1>2, <1>3, <1>4, <1>5, <1>6

-----------------------------------------------------------------------------
(***************************************************************************)
(* What a load makes of the variables.                                     *)
(***************************************************************************)

\* A step that leaves the map and the loads alone.
LEMMA LoadsKept ==
    ASSUME ConfigInv, LoadInv, UNCHANGED <<s_datas, before>>,
           \A u \in Threads : pc'[u] = "load" => pc[u] = "load" /\ call'[u] = call[u]
    PROVE  LoadApplies'
<1> SUFFICES ASSUME NEW u \in Threads, pc'[u] = "load"
             PROVE  /\ call'[u].doc \in Docs /\ Registered' = DOMAIN before'
                    /\ \E k \in 0..Len(Members(call'[u].doc)) :
                          /\ call'[u].todo =
                                SubSeq(Members(call'[u].doc), k + 1, Len(Members(call'[u].doc)))
                          /\ \A n \in Registered' :
                                Made(call'[u].doc, k, n, before'[n], s_datas'[n])
  BY Zenon DEF LoadApplies
<1>1. pc[u] = "load" /\ call'[u] = call[u] /\ s_datas' = s_datas /\ before' = before
  OBVIOUS
<1> QED BY <1>1, Zenon DEF LoadInv, LoadApplies

\* A member that gives the variable no value leaves it as it is.
LEMMA MadeByNone ==
    ASSUME NEW d, NEW k \in Nat, NEW n, NEW w, NEW v, Made(d, k, n, w, v),
           ~Gives(d, k + 1, n, w)
    PROVE  Made(d, k + 1, n, w, v)
<1>1. CASE v = w /\ \A i \in 1..k : ~Gives(d, i, n, w)
  BY <1>1 DEF Made
<1>2. ASSUME NEW i \in 1..k, Members(d)[i].key = n, \A j \in (i + 1)..k : ~Gives(d, j, n, w),
             \E x \in Convert(w.type, Members(d)[i].node) : v = [w EXCEPT !.val = x]
      PROVE  Made(d, k + 1, n, w, v)
  <2>1. i \in 1..(k + 1) /\ \A j \in (i + 1)..(k + 1) : ~Gives(d, j, n, w)
    BY <1>2
  <2> QED BY <1>2, <2>1, Zenon DEF Made
<1> QED BY <1>1, <1>2, Zenon DEF Made

\* One that gives it a value takes the place of all before it.
LEMMA MadeByLast ==
    ASSUME NEW d, NEW k \in Nat, NEW n, NEW w, NEW v, NEW x, Made(d, k, n, w, v),
           Members(d)[k + 1].key = n, x \in Convert(w.type, Members(d)[k + 1].node)
    PROVE  Made(d, k + 1, n, w, [v EXCEPT !.val = x])
<1>1. v = w \/ \E y : v = [w EXCEPT !.val = y]
  BY Zenon DEF Made
<1>2. [v EXCEPT !.val = x] = [w EXCEPT !.val = x]
  BY <1>1
<1>3. k + 1 \in 1..(k + 1) /\ \A j \in ((k + 1) + 1)..(k + 1) : ~Gives(d, j, n, w)
  OBVIOUS
<1> QED BY <1>2, <1>3, Zenon DEF Made

LEMMA MadeKeepsType ==
    ASSUME NEW d, NEW k, NEW n, NEW w, NEW v, Made(d, k, n, w, v),
           DOMAIN v = {"id", "type", "val"}
    PROVE  v.type = w.type
<1>1. v = w \/ \E y : v = [w EXCEPT !.val = y]
  BY Zenon DEF Made
<1> QED BY <1>1

LEMMA OthersKeepLoads ==
    ASSUME NEW t \in Threads, ConfigInv, LoadInv,
           \/ \E n \in Names, T \in Types : Lookup(t, n, T) \/ LookupExisting(t, n, T)
           \/ LookupLock(t) \/ LookupFind(t)
           \/ LoadReturn(t)
           \/ Visit(t) \/ VisitOne(t) \/ VisitReturn(t)
    PROVE  LoadInv'
<1> USE DEF ConfigInv, LoadInv
<1>1. CASE \E n \in Names, T \in Types : Lookup(t, n, T)
  <2>1. Undisturbed'
    <3>1. PICK n \in Names, T \in Types : Lookup(t, n, T)
      BY <1>1
    <3>2. /\ pc' = [pc EXCEPT ![t] = "lookup"] /\ UNCHANGED s_datas
          /\ \A u \in Threads \ {t} : call'[u] = call[u]
          /\ call'[t].name = n
          /\ n \in Registered \/ \A u \in Threads : pc[u] # "load"
      BY <3>1 DEF Shape, Lookup, Loading, NoCall
    <3> QED BY <3>2 DEF Shape, Undisturbed
  <2>2. LoadApplies'
    BY <1>1, LoadsKept DEF Shape, Lookup
  <2> QED BY <2>1, <2>2
<1>2. CASE \E n \in Names, T \in Types : LookupExisting(t, n, T)
  <2>1. Undisturbed'
    BY <1>2 DEF Shape, LookupExisting, Undisturbed
  <2>2. LoadApplies'
    BY <1>2, LoadsKept DEF Shape, LookupExisting
  <2> QED BY <2>1, <2>2
<1>3. CASE LookupLock(t)
  <2>1. Undisturbed'
    BY <1>3 DEF Shape, LookupLock, Undisturbed
  <2>2. LoadApplies'
    BY <1>3, LoadsKept DEF Shape, LookupLock
  <2> QED BY <2>1, <2>2
<1>4. CASE LookupFind(t)
  <2>1. Undisturbed'
    BY <1>4 DEF Shape, LookupFind, Undisturbed
  <2>2. LoadApplies'
    BY <1>4, LoadsKept DEF Shape, LookupFind
  <2> QED BY <2>1, <2>2
<1>5. CASE LoadReturn(t)
  <2>1. Undisturbed'
    BY <1>5 DEF Shape, LoadReturn, Undisturbed
  <2>2. LoadApplies'
    BY <1>5, LoadsKept DEF Shape, LoadReturn
  <2> QED BY <2>1, <2>2
<1>6. CASE Visit(t)
  <2>1. Undisturbed'
    BY <1>6 DEF Shape, Visit, Undisturbed
  <2>2. LoadApplies'
    BY <1>6, LoadsKept DEF Shape, Visit
  <2> QED BY <2>1, <2>2
<1>7. CASE VisitOne(t)
  <2>1. /\ UNCHANGED <<s_datas, pc, before>> /\ pc[t] = "visit"
        /\ \A u \in Threads \ {t} : call'[u] = call[u]
    BY <1>7 DEF Shape, VisitOne
  <2>2. Undisturbed'
    BY <2>1 DEF Shape, Undisturbed
  <2>3. LoadApplies'
    BY <2>1, LoadsKept
  <2> QED BY <2>2, <2>3
<1>8. CASE VisitReturn(t)
  <2>1. Undisturbed'
    BY <1>8 DEF Shape, VisitReturn, Undisturbed
  <2>2. LoadApplies'
    BY <1>8, LoadsKept DEF Shape, VisitReturn
  <2> QED BY <2>1, <2>2
<1> QED BY <1>1, <1>2, <1>3, <1>4, <1>5, <1>6, <1>7, <1>8, Zenon

\* No name is inserted while someone loads.
LEMMA InsertKeepsLoads ==
    ASSUME NEW t \in Threads, ConfigInv, LoadInv, LookupInsert(t)
    PROVE  LoadInv'
<1>1. \A u \in Threads : pc[u] # "load"
  BY DEF ConfigInv, LoadInv, Absent, Undisturbed, LookupInsert
<1>2. \A u \in Threads : pc'[u] # "load"
  BY <1>1 DEF ConfigInv, Shape, LookupInsert
<1> QED BY <1>2 DEF LoadInv, Undisturbed, LoadApplies

LEMMA LoadBegins ==
    ASSUME NEW t \in Threads, NEW d \in Docs, ConfigInv, LoadInv, LoadFromYaml(t, d)
    PROVE  LoadInv'
<1> USE DEF ConfigInv, LoadInv
<1> DEFINE m == Members(d)
<1>1. /\ \A u \in Threads : pc[u] # "load"
      /\ \A u \in Threads : pc[u] \in {"lookup", "find", "insert"} => call[u].name \in Registered
      /\ pc' = [pc EXCEPT ![t] = "load"] /\ UNCHANGED s_datas /\ before' = s_datas
      /\ \A u \in Threads \ {t} : call'[u] = call[u]
      /\ call'[t].doc = d /\ call'[t].todo = m
  BY DEF Shape, LoadFromYaml, Loading, Inserting, NoCall
<1>2. Undisturbed'
  BY <1>1 DEF Shape, Undisturbed
<1>3. Len(m) \in Nat /\ m = SubSeq(m, 0 + 1, Len(m))
  <2>1. m \in Seq({m[i] : i \in DOMAIN m})
    OBVIOUS
  <2> HIDE DEF m
  <2> QED BY <2>1
<1>4. \A n \in Registered : Made(d, 0, n, s_datas[n], s_datas[n])
  BY DEF Made
<1> HIDE DEF m
<1>5. LoadApplies'
  <2>1. ASSUME NEW u \in Threads, pc'[u] = "load" PROVE u = t
    BY <1>1, <2>1 DEF Shape
  <2>2. 0 \in 0..Len(m)
    BY <1>3
  <2>3. /\ call'[t].todo = SubSeq(m, 0 + 1, Len(m))
        /\ \A n \in Registered' : Made(d, 0, n, before'[n], s_datas'[n])
    BY <1>1, <1>3, <1>4
  <2>4. Registered' = DOMAIN before'
    BY <1>1
  <2> QED BY <1>1, <2>1, <2>2, <2>3, <2>4 DEF LoadApplies, m
<1> QED BY <1>2, <1>5

\* One more member
LEMMA LoadGoesOn ==
    ASSUME NEW t \in Threads, ConfigInv, LoadInv, LoadOne(t)
    PROVE  LoadInv'
<1> USE DEF ConfigInv, LoadInv
<1> DEFINE d == call[t].doc
           m == Members(d)
           e == Head(call[t].todo)
<1>1. /\ pc[t] = "load" /\ call[t].todo # <<>> /\ UNCHANGED <<pc, before>>
      /\ \A u \in Threads \ {t} : call'[u] = call[u]
      /\ call'[t].doc = d /\ call'[t].todo = Tail(call[t].todo)
      /\ call'[t].name = call[t].name
  BY DEF Shape, LoadOne, CallFields
<1>2. d \in Docs /\ Registered = DOMAIN before
  BY <1>1 DEF LoadApplies
<1>3. m \in Seq({m[i] : i \in DOMAIN m})
  BY <1>2
<1>4. PICK k \in 0..Len(m) :
         /\ call[t].todo = SubSeq(m, k + 1, Len(m))
         /\ \A n \in Registered : Made(d, k, n, before[n], s_datas[n])
  BY <1>1 DEF LoadApplies
<1>5. /\ k < Len(m) /\ k \in Nat /\ k + 1 \in 0..Len(m) /\ e = m[k + 1]
      /\ Tail(call[t].todo) = SubSeq(m, (k + 1) + 1, Len(m))
  <2> HIDE DEF m, e
  <2>1. Len(m) \in Nat /\ k \in Nat
    BY <1>3
  <2>2. k < Len(m)
    BY <1>1, <1>3, <1>4, <2>1
  <2>3. Len(SubSeq(m, k + 1, Len(m))) = Len(m) - k
    BY <1>3, <2>1, <2>2
  <2>4. e = m[k + 1]
    BY <1>3, <1>4, <2>1, <2>2, <2>3 DEF e
  <2>5. Tail(call[t].todo) = SubSeq(m, (k + 1) + 1, Len(m))
    BY <1>3, <1>4, <2>1, <2>2, <2>3
  <2> QED BY <2>1, <2>2, <2>4, <2>5
<1>6. Registered' = Registered
  <2>1. ASSUME NEW x, NEW v, s_datas' = [s_datas EXCEPT ![x].val = v]
        PROVE  Registered' = Registered
    BY <2>1
  <2> QED BY <2>1, Zenon DEF LoadOne
<1>7. ASSUME NEW n \in Registered PROVE Made(d, k + 1, n, before[n], s_datas'[n])
  <2>1. Made(d, k, n, before[n], s_datas[n]) /\ s_datas[n].type = before[n].type
    BY <1>4, MadeKeepsType DEF Shape
  <2>2. ASSUME e.key \in Registered, NEW x \in Convert(s_datas[e.key].type, e.node),
               s_datas' = [s_datas EXCEPT ![e.key].val = x]
        PROVE  Made(d, k + 1, n, before[n], s_datas'[n])
    <3>1. CASE e.key = n
      <4>1. s_datas'[n] = [s_datas[n] EXCEPT !.val = x]
        BY <2>2, <3>1
      <4> HIDE DEF d, e
      <4> QED BY <1>5, <2>1, <2>2, <3>1, <4>1, MadeByLast DEF m
    <3>2. CASE e.key # n
      <4>1. s_datas'[n] = s_datas[n]
        BY <2>2, <3>2
      <4> HIDE DEF d, e
      <4> QED BY <1>5, <2>1, <3>2, <4>1, MadeByNone DEF Gives, m
    <3> QED BY <3>1, <3>2
  <2>3. ASSUME e.key \in Registered => Convert(s_datas[e.key].type, e.node) = {},
               s_datas' = s_datas
        PROVE  Made(d, k + 1, n, before[n], s_datas'[n])
    <3>1. e.key = n => Convert(before[n].type, e.node) = {}
      BY <2>1, <2>3
    <3> HIDE DEF d, e
    <3> QED BY <1>5, <2>1, <2>3, <3>1, MadeByNone DEF Gives, m
  <2> QED BY <2>2, <2>3, Zenon DEF LoadOne
<1>8. Undisturbed'
  BY <1>1, <1>6 DEF Shape, Undisturbed
<1>9. LoadApplies'
  <2>1. ASSUME NEW u \in Threads, pc'[u] = "load" PROVE u = t
    BY <1>1, <2>1 DEF Undisturbed
  <2> HIDE DEF m, d, e
  <2>2. /\ call'[t].todo = SubSeq(m, (k + 1) + 1, Len(m))
        /\ \A n \in Registered' : Made(d, k + 1, n, before'[n], s_datas'[n])
    BY <1>1, <1>5, <1>6, <1>7
  <2>3. Registered' = DOMAIN before'
    BY <1>1, <1>2, <1>6
  <2>4. d \in Docs /\ k + 1 \in 0..Len(Members(d))
    BY <1>2, <1>5 DEF m
  <2> QED BY <1>1, <2>1, <2>2, <2>3, <2>4 DEF LoadApplies, m
<1> QED BY <1>8, <1>9

-----------------------------------------------------------------------------
\* The lock discipline of the registry, and what it is for: while a Lookup() is
\* between its search and its insertion, and while a Visit() iterates, the map
\* is what the thread has seen.
THEOREM ConfigCorrect == Spec => []ConfigInv
<1>1. Init => ConfigInv
  BY DEF Init, ConfigInv, Shape, Locked, Absent, OneObject, VisitSeesAll, CallFields, NoCall
<1>2. ConfigInv /\ [Next]_vars => ConfigInv'
  <2> SUFFICES ASSUME ConfigInv, [Next]_vars PROVE ConfigInv'
    OBVIOUS
  <2>1. ASSUME NEW t \in Threads, Call(t) \/ Continue(t) PROVE ConfigInv'
    BY <2>1, LookupStep, LookupLockStep, LookupFindStep, LookupInsertStep, LoadStep, VisitStep
       DEF Call, Continue
  <2>2. CASE UNCHANGED vars
    BY <2>2 DEF vars, ConfigInv, Shape, Locked, Absent, OneObject, VisitSeesAll
  <2> QED BY <2>1, <2>2 DEF Next, AllIdle
<1> QED BY <1>1, <1>2, PTL DEF Spec

\* A load is alone with the map, although LookupBase() takes no lock, as long as clients
\* keep to the rules at Loading; and at each moment of it every variable has the value of
\* the last member handled so far that converts to its type, or the value it had when the
\* load began.  A member that does not convert is passed over, for any list of members.
THEOREM LoadCorrect == Spec => []LoadInv
<1>1. Init => LoadInv
  BY DEF Init, LoadInv, Undisturbed, LoadApplies
<1>2. ConfigInv /\ LoadInv /\ [Next]_vars => LoadInv'
  <2> SUFFICES ASSUME ConfigInv, LoadInv, [Next]_vars PROVE LoadInv'
    OBVIOUS
  <2>1. ASSUME NEW t \in Threads, Call(t) \/ Continue(t) PROVE LoadInv'
    BY <2>1, OthersKeepLoads, InsertKeepsLoads, LoadBegins, LoadGoesOn DEF Call, Continue
  <2>2. CASE UNCHANGED vars
    <3>1. LoadApplies'
      BY <2>2, LoadsKept DEF vars
    <3> QED BY <2>2, <3>1 DEF vars, LoadInv, Undisturbed
  <2> QED BY <2>1, <2>2 DEF Next, AllIdle
<1> QED BY <1>1, <1>2, ConfigCorrect, PTL DEF Spec

\* All pointers that Lookup() has handed out for a name point to the variable
\* that is in the map, however many threads look the name up at once.
THEOREM OneObjectCorrect == Spec => []OneObject
<1>1. ConfigInv => OneObject
  BY DEF ConfigInv
<1> QED BY <1>1, ConfigCorrect, PTL

\* Visit() comes to every variable: none is registered under its iteration.
THEOREM VisitSeesAllCorrect == Spec => []VisitSeesAll
<1>1. ConfigInv => VisitSeesAll
  BY DEF ConfigInv
<1> QED BY <1>1, ConfigCorrect, PTL
=============================================================================
