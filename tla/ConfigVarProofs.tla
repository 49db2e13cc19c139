-------------------------- MODULE ConfigVarProofs --------------------------
(***************************************************************************)
(* TLAPS proofs about ConfigVar: with clients whose calls of setValue() on *)
(* one variable and of addListener() do not overlap, ids name listeners,   *)
(* listeners are told of every change before it is made, and what they     *)
(* were told is not out of date, for any threads, variables, values and    *)
(* listeners.                                                              *)
(***************************************************************************)
EXTENDS ConfigVar, WellFoundedInduction, TLAPS

USE RWMutexConstants, ConfigVarConstants DEF Goto

-----------------------------------------------------------------------------
(***************************************************************************)
(* The inductive invariant.                                                *)
(***************************************************************************)

\* What the locals of a call hold where.
Locals ==
    /\ \A t \in Threads : Setting(t) => call[t].var \in Vars /\ call[t].val \in Values
    /\ \A t \in Threads : pc[t] = "compare" => call[t].at = 0
    /\ \A t \in Threads : pc[t] \in {"notify", "assign"} => call[t].old \in Values
    /\ \A t \in Threads : Adding(t) => /\ call[t].var \in Vars
                                       /\ call[t].cb \in Listeners \ DOMAIN result
    /\ gone \subseteq DOMAIN result

\* Listeners are called under the read lock, addListener() works under the
\* write lock, and no one reads while someone writes.
Locked ==
    /\ \A t \in Threads : pc[t] = "notify" => t \in m_mutex[call[t].var].readers
    /\ \A t \in Threads : pc[t] \in {"load", "store", "insert", "return"} =>
          m_mutex[call[t].var].writer = t
    /\ \A v \in Vars : m_mutex[v].writer # None => m_mutex[v].readers = {}

\* What clients see to.
Alone ==
    /\ \A t, u \in Threads : Adding(t) /\ Adding(u) => t = u
    /\ \A t, u \in Threads : Setting(t) /\ Setting(u) /\ call[t].var = call[u].var => t = u

\* An id that addListener() has taken from s_fun_id and not returned yet is
\* nobody else's.
FreshIds ==
    /\ \A v \in Vars : \A i \in DOMAIN m_cbs[v] : i <= s_fun_id
    /\ \A l \in DOMAIN result : 0 < result[l].id /\ result[l].id <= s_fun_id
    /\ \A k, l \in DOMAIN result : result[k].id = result[l].id => k = l
    /\ \A t \in Threads : pc[t] = "store" => call[t].reg = s_fun_id
    /\ \A t \in Threads : pc[t] = "insert" => \A v \in Vars : s_fun_id \notin DOMAIN m_cbs[v]
    /\ \A t \in Threads : pc[t] = "return" =>
          /\ s_fun_id \in DOMAIN m_cbs[call[t].var]
          /\ m_cbs[call[t].var][s_fun_id] = call[t].cb
    /\ \A t \in Threads : pc[t] \in {"insert", "return"} =>
          0 < s_fun_id /\ \A l \in DOMAIN result : result[l].id # s_fun_id

\* The map has no entry but for a listener that is registered, or is about to
\* have its id returned.
Backed ==
    \A v \in Vars : \A i \in DOMAIN m_cbs[v] :
        \/ /\ m_cbs[v][i] \in DOMAIN result \ gone
           /\ result[m_cbs[v][i]].var = v /\ result[m_cbs[v][i]].id = i
        \/ \E t \in Threads : pc[t] = "return" /\ call[t].var = v /\ i = s_fun_id

\* What listener l was told agrees with the variable, unless a listener has thrown,
\* or with the setValue() that thread t is in the middle of.
UpToDate(l) == result[l].var \notin halfway => told[l][2] = m_val[result[l].var]

ToldOf(l, t) == told[l][1] = call[t].old /\ told[l][2] = call[t].val

Telling(l, t) ==
    /\ pc[t] = "compare" => UpToDate(l)
    /\ pc[t] = "notify" => IF result[l].id <= call[t].at THEN ToldOf(l, t) ELSE UpToDate(l)
    /\ pc[t] = "assign" => ToldOf(l, t)

Told ==
    /\ DOMAIN told \subseteq DOMAIN result
    /\ \A t \in Threads : pc[t] \in {"notify", "assign"} => call[t].old = m_val[call[t].var]
    /\ \A l \in DOMAIN told \ gone, t \in Threads :
          Setting(t) /\ call[t].var = result[l].var => Telling(l, t)

ConfigVarInv ==
    /\ TypeOK /\ Locals /\ Locked /\ Alone /\ FreshIds /\ Backed /\ Told
    /\ IdsNameListeners /\ ListenerUpToDate

\* What setValue() owes to the listeners that were in the map when it compared the values:
\* those up to the iterator have been called, and behind the loop all of them.  Their ids
\* are not used again.
DueInv ==
    /\ \A t \in Threads : \A i \in call[t].due : i <= s_fun_id
    /\ \A t, u \in Threads : pc[t] = "insert" => s_fun_id \notin call[u].due
    /\ \A t \in Threads : pc[t] = "notify" =>
          \A i \in DOMAIN m_cbs[call[t].var] :
              i <= call[t].at => m_cbs[call[t].var][i] \in DOMAIN told
    /\ \A t \in Threads : pc[t] = "assign" =>
          \A i \in DOMAIN m_cbs[call[t].var] \cap call[t].due :
              m_cbs[call[t].var][i] \in DOMAIN told

-----------------------------------------------------------------------------
\* The map is walked in the order of its keys: there is a first one that is left.
LEMMA NextIdFacts ==
    ASSUME NEW t, Remaining(t) \subseteq Nat, Remaining(t) # {}
    PROVE  NextId(t) \in Remaining(t) /\ \A k \in Remaining(t) : NextId(t) <= k
<1> DEFINE less == OpToRel(<, Nat)
<1>1. PICK n \in Remaining(t) : \A k \in Remaining(t) : <<k, n>> \notin less
  BY NatLessThanWellFounded, WFMin, Zenon
<1>2. \A k, m \in Nat : k < m => <<k, m>> \in less
  BY DEF OpToRel
<1> HIDE DEF less
<1>3. ASSUME NEW k \in Remaining(t) PROVE n <= k
  <2>1. n \in Nat /\ k \in Nat
    OBVIOUS
  <2>2. ~(k < n)
    BY <1>1, <1>2, <2>1, Zenon
  <2> QED BY <2>1, <2>2
<1> QED BY <1>3, Zenon DEF NextId

\* What the scoped locks do to an RWMutex.
LEMMA LockFacts ==
    ASSUME NEW lock \in RWMutexes, NEW t \in Threads
    PROVE  /\ rdlock(lock, t) \in RWMutexes
           /\ rdlock(lock, t).readers = lock.readers \cup {t}
           /\ rdlock(lock, t).writer = lock.writer
           /\ wrlock(lock, t) \in RWMutexes
           /\ wrlock(lock, t).readers = lock.readers /\ wrlock(lock, t).writer = t
           /\ unlock(lock, t) \in RWMutexes
           /\ unlock(lock, t).readers = lock.readers \ {t}
           /\ unlock(lock, t).writer = IF lock.writer = t THEN None ELSE lock.writer
           /\ CanRead(lock) <=> lock.writer = None
           /\ CanWrite(lock) => lock.writer = None /\ lock.readers = {}
  BY DEF RWMutexes, Unlocked, CanRead, CanWrite, rdlock, wrlock, unlock

\* The listener that setValue() calls next is a registered one: nobody is in the
\* middle of addListener() while the read lock is held.
LEMMA NextFacts ==
    ASSUME ConfigVarInv, NEW t \in Threads, pc[t] = "notify", Remaining(t) # {}
    PROVE  LET v == call[t].var
               l == m_cbs[v][NextId(t)]
           IN  /\ v \in Vars /\ NextId(t) \in DOMAIN m_cbs[v] /\ NextId(t) \in Nat
               /\ NextId(t) > call[t].at
               /\ \A i \in DOMAIN m_cbs[v] : i > call[t].at => NextId(t) <= i
               /\ l \in Listeners /\ l \in DOMAIN result \ gone
               /\ result[l].var = v /\ result[l].id = NextId(t)
<1> USE DEF ConfigVarInv
<1>1. /\ call[t].var \in Vars /\ Remaining(t) \subseteq Nat
      /\ m_mutex[call[t].var] \in RWMutexes
  BY DEF TypeOK, Locals, Setting, Remaining
<1>2. NextId(t) \in Remaining(t) /\ \A k \in Remaining(t) : NextId(t) <= k
  BY <1>1, NextIdFacts
<1>3. \A u \in Threads : ~(pc[u] = "return" /\ call[u].var = call[t].var)
  BY <1>1 DEF Locked
<1> QED BY <1>1, <1>2, <1>3 DEF TypeOK, Remaining, Backed

LEMMA SetValueStep ==
    ASSUME Serial, ConfigVarInv, NEW t \in Threads, NEW v \in Vars, NEW x \in Values, SetValue(t, v, x)
    PROVE  ConfigVarInv'
<1> USE DEF ConfigVarInv
<1>1. /\ \A u \in Threads \ {t} : call'[u] = call[u] /\ pc'[u] = pc[u]
      /\ call'[t].var = v /\ call'[t].val = x /\ call'[t].at = 0
      /\ pc[t] = "idle" /\ pc'[t] = "compare"
      /\ \A u \in Threads : ~(Setting(u) /\ call[u].var = v)
      /\ UNCHANGED <<m_val, m_cbs, m_mutex, s_fun_id, result, gone, told, halfway>>
  BY DEF SetValue, TypeOK, Calls, NoCall
<1>2. TypeOK'
  <2>1. [NoCall EXCEPT !.var = v, !.val = x] \in Calls
    BY DEF NoCall, Calls
  <2> QED BY <2>1 DEF SetValue, TypeOK
<1>3. Locals'
  BY <1>1 DEF TypeOK, Locals, Setting, Adding
<1>4. Locked'
  BY <1>1 DEF TypeOK, Locked
<1>5. Alone'
  BY <1>1 DEF TypeOK, Alone, Setting, Adding
<1>6. FreshIds'
  BY <1>1 DEF TypeOK, FreshIds
<1>7. Backed'
  BY <1>1 DEF TypeOK, Backed
<1>8. Told'
  BY <1>1 DEF TypeOK, Told, Setting, Telling, UpToDate, ToldOf, ListenerUpToDate
<1>9. IdsNameListeners'
  BY <1>1 DEF TypeOK, IdsNameListeners
<1>10. ListenerUpToDate'
  BY <1>1 DEF ListenerUpToDate, Setting
<1> QED BY <1>2, <1>3, <1>4, <1>5, <1>6, <1>7, <1>8, <1>9, <1>10

LEMMA CompareDiffersStep ==
    ASSUME Serial, ConfigVarInv, NEW t \in Threads, call[t].val # m_val[call[t].var], Compare(t)
    PROVE  ConfigVarInv'
<1> USE DEF ConfigVarInv
<1>1. /\ \A u \in Threads \ {t} : call'[u] = call[u] /\ pc'[u] = pc[u]
      /\ call'[t].var = call[t].var /\ call'[t].val = call[t].val /\ call'[t].at = 0
      /\ call'[t].old = m_val[call[t].var]
      /\ pc[t] = "compare" /\ pc'[t] = "notify"
      /\ call[t].var \in Vars /\ m_val[call[t].var] \in Values /\ call[t].val \in Values
      /\ m_mutex[call[t].var] \in RWMutexes /\ CanRead(m_mutex[call[t].var])
      /\ m_mutex' = [m_mutex EXCEPT ![call[t].var] = rdlock(@, t)]
      /\ UNCHANGED <<m_val, m_cbs, s_fun_id, result, gone, told, halfway>>
  BY DEF Compare, TypeOK, Calls, Locals, Setting
<1>2. TypeOK'
  <2>1. call' \in [Threads -> Calls]
    BY <1>1 DEF Compare, TypeOK, Calls
  <2>2. m_mutex' \in [Vars -> RWMutexes]
    BY <1>1, LockFacts DEF TypeOK
  <2> QED BY <1>1, <2>1, <2>2 DEF Compare, TypeOK
<1>3. Locals'
  BY <1>1 DEF TypeOK, Locals, Setting, Adding
<1>4. Locked'
  <2>1. /\ \A v \in Vars \ {call[t].var} : m_mutex'[v] = m_mutex[v]
        /\ m_mutex'[call[t].var].readers = m_mutex[call[t].var].readers \cup {t}
        /\ m_mutex'[call[t].var].writer = m_mutex[call[t].var].writer
        /\ m_mutex[call[t].var].writer = None
    BY <1>1, LockFacts DEF TypeOK
  <2> QED BY <1>1, <2>1 DEF Locked
<1>5. Alone'
  BY <1>1 DEF TypeOK, Alone, Setting, Adding
<1>6. FreshIds'
  BY <1>1 DEF TypeOK, FreshIds
<1>7. Backed'
  BY <1>1 DEF TypeOK, Backed
<1>8. Told'
  <2>1. \A l \in DOMAIN result : ~(result[l].id <= 0)
    BY DEF TypeOK, FreshIds
  <2> QED BY <1>1, <2>1 DEF Told, Setting, Telling, UpToDate, ToldOf
<1>9. IdsNameListeners'
  BY <1>1 DEF TypeOK, IdsNameListeners
<1>10. ListenerUpToDate'
  BY <1>1 DEF ListenerUpToDate, Setting
<1> QED BY <1>2, <1>3, <1>4, <1>5, <1>6, <1>7, <1>8, <1>9, <1>10

LEMMA NotifyStep ==
    ASSUME Serial, ConfigVarInv, NEW t \in Threads, Notify(t)
    PROVE  ConfigVarInv'
<1> USE DEF ConfigVarInv
<1>1. /\ \A u \in Threads \ {t} : call'[u] = call[u] /\ pc'[u] = pc[u]
      /\ call'[t].var = call[t].var /\ call'[t].val = call[t].val /\ call'[t].old = call[t].old
      /\ call'[t].at = NextId(t)
      /\ pc[t] = "notify" /\ pc'[t] = "notify"
      /\ told' = Put(told, m_cbs[call[t].var][NextId(t)], <<call[t].old, call[t].val>>)
      /\ UNCHANGED <<m_val, m_cbs, m_mutex, s_fun_id, result, gone, halfway>>
  BY DEF Notify, TypeOK, Calls
<1>2. TypeOK'
  <2>1. /\ NextId(t) \in Nat /\ m_cbs[call[t].var][NextId(t)] \in Listeners
        /\ call[t].old \in Values /\ call[t].val \in Values
    BY <1>1, NextFacts DEF Notify, Locals, Setting
  <2>2. call' \in [Threads -> Calls]
    <3>1. [call[t] EXCEPT !.at = NextId(t)] \in Calls
      BY <2>1 DEF TypeOK, Calls
    <3> QED BY <3>1 DEF Notify, TypeOK
  <2>3. /\ DOMAIN told' \subseteq Listeners
        /\ \A l \in DOMAIN told' : told'[l] \in Values \X Values
    BY <1>1, <2>1 DEF TypeOK, Put
  <2> QED BY <1>1, <2>2, <2>3 DEF Notify, TypeOK
<1>3. Locals'
  BY <1>1 DEF TypeOK, Locals, Setting, Adding
<1>4. Locked'
  BY <1>1 DEF TypeOK, Locked
<1>5. Alone'
  BY <1>1 DEF TypeOK, Alone, Setting, Adding
<1>6. FreshIds'
  BY <1>1 DEF TypeOK, FreshIds
<1>7. Backed'
  BY <1>1 DEF TypeOK, Backed
<1>8. Told'
  <2> DEFINE n == NextId(t)
             k == m_cbs[call[t].var][n]
  <2>1. /\ call[t].var \in Vars /\ n \in Nat /\ n > call[t].at /\ call[t].at \in Nat
        /\ \A i \in DOMAIN m_cbs[call[t].var] : i > call[t].at => n <= i
        /\ k \in DOMAIN result \ gone /\ result[k].var = call[t].var /\ result[k].id = n
    BY NextFacts DEF Notify, TypeOK, Calls
  <2>2. /\ DOMAIN told' = DOMAIN told \cup {k}
        /\ \A l \in DOMAIN told \ {k} : told'[l] = told[l]
        /\ told'[k][1] = call[t].old /\ told'[k][2] = call[t].val
    BY <1>1 DEF Put
  <2> HIDE DEF n, k
  <2>3. ASSUME NEW l \in DOMAIN told' \ gone, call[t].var = result[l].var
        PROVE  Telling(l, t)'
    <3>1. CASE l = k
      BY <1>1, <2>1, <2>2, <3>1 DEF Telling, ToldOf, n
    <3>2. CASE l # k
      <4>1. l \in DOMAIN told \ gone /\ l \in DOMAIN result \ gone /\ told'[l] = told[l]
        BY <2>2, <3>2 DEF Told
      <4>2. /\ result[l].id \in Nat /\ result[l].id \in DOMAIN m_cbs[call[t].var]
            /\ result[l].id # n
        BY <2>1, <2>3, <3>2, <4>1 DEF TypeOK, IdsNameListeners, FreshIds
      <4>3. result[l].id <= n <=> result[l].id <= call[t].at
        BY <2>1, <4>2
      <4> QED BY <1>1, <2>3, <4>1, <4>3 DEF Told, Telling, ToldOf, UpToDate, Setting, n
    <3> QED BY <3>1, <3>2
  <2>4. ASSUME NEW l \in DOMAIN told' \ gone, NEW u \in Threads \ {t},
               Setting(u), call[u].var = result[l].var
        PROVE  Telling(l, u)'
    <3>1. call[u].var # call[t].var
      BY <1>1, <2>4 DEF Alone, Setting
    <3>2. l # k
      BY <2>1, <2>4, <3>1
    <3>3. l \in DOMAIN told \ gone /\ told'[l] = told[l] /\ Telling(l, u)
      BY <1>1, <2>2, <2>4, <3>2 DEF Told
    <3> QED BY <1>1, <3>3 DEF Telling, ToldOf, UpToDate
  <2>5. DOMAIN told' \subseteq DOMAIN result'
    BY <1>1, <2>1, <2>2 DEF Told
  <2>6. \A u \in Threads : pc'[u] \in {"notify", "assign"} =>
            call'[u].old = m_val'[call'[u].var]
    BY <1>1 DEF Told
  <2> QED BY <1>1, <2>3, <2>4, <2>5, <2>6 DEF Told, Setting
<1>9. IdsNameListeners'
  BY <1>1 DEF TypeOK, IdsNameListeners
<1>10. ListenerUpToDate'
  <2>1. /\ result[m_cbs[call[t].var][NextId(t)]].var = call[t].var
        /\ call[t].var \in Vars
    BY NextFacts DEF Notify
  <2> QED BY <1>1, <2>1 DEF ListenerUpToDate, Setting, Put
<1> QED BY <1>2, <1>3, <1>4, <1>5, <1>6, <1>7, <1>8, <1>9, <1>10

LEMMA ThrowStep ==
    ASSUME Serial, ConfigVarInv, NEW t \in Threads, Throw(t)
    PROVE  ConfigVarInv'
<1> USE DEF ConfigVarInv
<1> DEFINE k == m_cbs[call[t].var][NextId(t)]
<1>1. /\ \A u \in Threads \ {t} : call'[u] = call[u] /\ pc'[u] = pc[u]
      /\ call' = call
      /\ pc[t] = "notify" /\ pc'[t] = "idle"
      /\ call[t].var \in Vars /\ m_mutex[call[t].var] \in RWMutexes
      /\ m_mutex' = [m_mutex EXCEPT ![call[t].var] = unlock(@, t)]
      /\ told' = Put(told, k, <<call[t].old, call[t].val>>)
      /\ halfway' = halfway \cup {call[t].var}
      /\ UNCHANGED <<m_val, m_cbs, s_fun_id, result, gone>>
  BY DEF Throw, TypeOK, Locals, Setting
<1>2. /\ call[t].old \in Values /\ call[t].val \in Values /\ k \in Listeners
      /\ k \in DOMAIN result \ gone /\ result[k].var = call[t].var
  BY <1>1, NextFacts DEF Throw, Locals, Setting
<1>3. /\ DOMAIN told' = DOMAIN told \cup {k}
      /\ \A l \in DOMAIN told \ {k} : told'[l] = told[l]
      /\ told'[k] = <<call[t].old, call[t].val>>
  BY <1>1 DEF Put
<1> HIDE DEF k
<1>4. TypeOK'
  <2>1. m_mutex' \in [Vars -> RWMutexes]
    BY <1>1, LockFacts DEF TypeOK
  <2>2. /\ DOMAIN told' \subseteq Listeners
        /\ \A l \in DOMAIN told' : told'[l] \in Values \X Values
    <3>1. ASSUME NEW l \in DOMAIN told' PROVE l \in Listeners /\ told'[l] \in Values \X Values
      <4>1. CASE l = k
        BY <1>2, <1>3, <4>1
      <4>2. CASE l # k
        BY <1>3, <3>1, <4>2 DEF TypeOK
      <4> QED BY <4>1, <4>2
    <3> QED BY <3>1
  <2> QED BY <1>1, <2>1, <2>2 DEF Throw, TypeOK
<1>5. Locals'
  BY <1>1 DEF TypeOK, Locals, Setting, Adding
<1>6. Locked'
  <2>1. m_mutex[call[t].var].writer = None
    BY <1>1 DEF Locked
  <2>2. /\ \A v \in Vars \ {call[t].var} : m_mutex'[v] = m_mutex[v]
        /\ m_mutex'[call[t].var].readers = m_mutex[call[t].var].readers \ {t}
        /\ m_mutex'[call[t].var].writer = None
    BY <1>1, <2>1, LockFacts DEF TypeOK
  <2> QED BY <1>1, <2>1, <2>2 DEF Locked
<1>7. Alone'
  BY <1>1 DEF TypeOK, Alone, Setting, Adding
<1>8. FreshIds'
  BY <1>1 DEF TypeOK, FreshIds
<1>9. Backed'
  BY <1>1 DEF TypeOK, Backed
<1>10. Told'
  <2>1. ASSUME NEW l \in DOMAIN told' \ gone, NEW u \in Threads \ {t},
               Setting(u), call[u].var = result[l].var
        PROVE  Telling(l, u)'
    <3>1. call[u].var # call[t].var
      BY <1>1, <2>1 DEF Alone, Setting
    <3>2. l # k
      BY <1>2, <2>1, <3>1
    <3>3. l \in DOMAIN told \ gone /\ told'[l] = told[l] /\ Telling(l, u)
      BY <1>1, <1>3, <2>1, <3>2 DEF Told
    <3> QED BY <1>1, <2>1, <3>1, <3>3 DEF Telling, ToldOf, UpToDate
  <2>2. DOMAIN told' \subseteq DOMAIN result'
    BY <1>1, <1>2, <1>3 DEF Told
  <2>3. \A u \in Threads : pc'[u] \in {"notify", "assign"} =>
            call'[u].old = m_val'[call'[u].var]
    BY <1>1 DEF Told
  <2> QED BY <1>1, <2>1, <2>2, <2>3 DEF Told, Setting
<1>11. IdsNameListeners'
  BY <1>1 DEF TypeOK, IdsNameListeners
<1>12. ListenerUpToDate'
  <2>1. ASSUME NEW l \in (DOMAIN result \cap DOMAIN told') \ gone,
               \A u \in Threads : ~(Setting(u)' /\ call'[u].var = result[l].var),
               result[l].var \notin halfway'
        PROVE  told'[l][2] = m_val[result[l].var]
    <3>1. result[l].var # call[t].var /\ result[l].var \notin halfway
      BY <1>1, <2>1
    <3>2. l \in DOMAIN told /\ told'[l] = told[l]
      BY <1>2, <1>3, <2>1, <3>1
    <3> QED BY <1>1, <2>1, <3>1, <3>2 DEF ListenerUpToDate, Setting
  <2> QED BY <1>1, <2>1 DEF ListenerUpToDate
<1> QED BY <1>4, <1>5, <1>6, <1>7, <1>8, <1>9, <1>10, <1>11, <1>12

LEMMA NotifiedStep ==
    ASSUME Serial, ConfigVarInv, NEW t \in Threads, Notified(t)
    PROVE  ConfigVarInv'
<1> USE DEF ConfigVarInv
<1>1. /\ \A u \in Threads \ {t} : call'[u] = call[u] /\ pc'[u] = pc[u]
      /\ call' = call
      /\ pc[t] = "notify" /\ pc'[t] = "assign"
      /\ call[t].var \in Vars /\ m_mutex[call[t].var] \in RWMutexes
      /\ m_mutex' = [m_mutex EXCEPT ![call[t].var] = unlock(@, t)]
      /\ UNCHANGED <<m_val, m_cbs, s_fun_id, result, gone, told, halfway>>
  BY DEF Notified, TypeOK, Locals, Setting
<1>2. TypeOK'
  <2>1. m_mutex' \in [Vars -> RWMutexes]
    BY <1>1, LockFacts DEF TypeOK
  <2> QED BY <1>1, <2>1 DEF Notified, TypeOK
<1>3. Locals'
  BY <1>1 DEF TypeOK, Locals, Setting, Adding
<1>4. Locked'
  <2>1. m_mutex[call[t].var].writer = None
    BY <1>1 DEF Locked
  <2>2. /\ \A v \in Vars \ {call[t].var} : m_mutex'[v] = m_mutex[v]
        /\ m_mutex'[call[t].var].readers = m_mutex[call[t].var].readers \ {t}
        /\ m_mutex'[call[t].var].writer = None
    BY <1>1, <2>1, LockFacts DEF TypeOK
  <2> QED BY <1>1, <2>1, <2>2 DEF Locked
<1>5. Alone'
  BY <1>1 DEF TypeOK, Alone, Setting, Adding
<1>6. FreshIds'
  BY <1>1 DEF TypeOK, FreshIds
<1>7. Backed'
  BY <1>1 DEF TypeOK, Backed
<1>8. Told'
  <2>1. ASSUME NEW l \in DOMAIN told \ gone, call[t].var = result[l].var
        PROVE  result[l].id <= call[t].at
    <3>1. result[l].id \in DOMAIN m_cbs[call[t].var] /\ result[l].id \in Nat
      BY <2>1 DEF Told, IdsNameListeners, TypeOK
    <3>2. ~(result[l].id > call[t].at) /\ call[t].at \in Nat
      BY <3>1 DEF Notified, Remaining, TypeOK, Calls
    <3> QED BY <3>1, <3>2
  <2> QED BY <1>1, <2>1 DEF Told, Setting, Telling, UpToDate, ToldOf
<1>9. IdsNameListeners'
  BY <1>1 DEF TypeOK, IdsNameListeners
<1>10. ListenerUpToDate'
  BY <1>1 DEF ListenerUpToDate, Setting
<1> QED BY <1>2, <1>3, <1>4, <1>5, <1>6, <1>7, <1>8, <1>9, <1>10

LEMMA AssignStep ==
    ASSUME Serial, ConfigVarInv, NEW t \in Threads, Assign(t)
    PROVE  ConfigVarInv'
<1> USE DEF ConfigVarInv
<1>1. /\ \A u \in Threads \ {t} : call'[u] = call[u] /\ pc'[u] = pc[u]
      /\ call' = call
      /\ pc[t] = "assign" /\ pc'[t] = "idle"
      /\ call[t].var \in Vars /\ call[t].val \in Values
      /\ m_val' = [m_val EXCEPT ![call[t].var] = call[t].val]
      /\ halfway' = halfway \ {call[t].var}
      /\ UNCHANGED <<m_cbs, m_mutex, s_fun_id, result, gone, told>>
  BY DEF Assign, TypeOK, Locals, Setting
<1>2. TypeOK'
  BY <1>1 DEF Assign, TypeOK
<1>3. Locals'
  BY <1>1 DEF TypeOK, Locals, Setting, Adding
<1>4. Locked'
  BY <1>1 DEF TypeOK, Locked
<1>5. Alone'
  BY <1>1 DEF TypeOK, Alone, Setting, Adding
<1>6. FreshIds'
  BY <1>1 DEF TypeOK, FreshIds
<1>7. Backed'
  BY <1>1 DEF TypeOK, Backed
<1>8. Told'
  <2>1. \A u \in Threads \ {t} : Setting(u) => call[u].var # call[t].var
    BY <1>1 DEF Alone, Setting
  <2>2. \A v \in Vars : v # call[t].var => m_val'[v] = m_val[v]
    BY <1>1 DEF TypeOK
  <2>3. \A u \in Threads \ {t} : Setting(u) => call[u].var \in Vars
    BY DEF Locals
  <2> QED BY <1>1, <2>1, <2>2, <2>3 DEF Told, Setting, Telling, UpToDate, ToldOf
<1>9. IdsNameListeners'
  BY <1>1 DEF TypeOK, IdsNameListeners
<1>10. ListenerUpToDate'
  <2>1. ASSUME NEW l \in (DOMAIN result \cap DOMAIN told) \ gone,
               \A u \in Threads : ~(Setting(u)' /\ call'[u].var = result[l].var),
               result[l].var \notin halfway'
        PROVE  told[l][2] = m_val'[result[l].var]
    <3>1. CASE result[l].var = call[t].var
      BY <1>1, <3>1 DEF TypeOK, Told, Telling, ToldOf, Setting
    <3>2. CASE result[l].var # call[t].var
      BY <1>1, <2>1, <3>2 DEF TypeOK, ListenerUpToDate, Setting
    <3> QED BY <3>1, <3>2
  <2> QED BY <1>1, <2>1 DEF ListenerUpToDate
<1> QED BY <1>2, <1>3, <1>4, <1>5, <1>6, <1>7, <1>8, <1>9, <1>10

LEMMA AddListenerStep ==
    ASSUME Serial, ConfigVarInv, NEW t \in Threads, NEW v \in Vars, NEW l \in Listeners, AddListener(t, v, l)
    PROVE  ConfigVarInv'
<1> USE DEF ConfigVarInv
<1>1. /\ \A u \in Threads \ {t} : call'[u] = call[u] /\ pc'[u] = pc[u]
      /\ call'[t].var = v /\ call'[t].cb = l
      /\ pc[t] = "idle" /\ pc'[t] = "add"
      /\ l \notin DOMAIN result /\ \A u \in Threads : ~Adding(u)
      /\ UNCHANGED <<m_val, m_cbs, m_mutex, s_fun_id, result, gone, told, halfway>>
  BY DEF AddListener, TypeOK, Calls, NoCall
<1>2. TypeOK'
  <2>1. [NoCall EXCEPT !.var = v, !.cb = l] \in Calls
    BY DEF NoCall, Calls
  <2> QED BY <2>1 DEF AddListener, TypeOK
<1>3. Locals'
  BY <1>1 DEF TypeOK, Locals, Setting, Adding
<1>4. Locked'
  BY <1>1 DEF TypeOK, Locked
<1>5. Alone'
  BY <1>1 DEF TypeOK, Alone, Setting, Adding
<1>6. FreshIds'
  BY <1>1 DEF TypeOK, FreshIds
<1>7. Backed'
  BY <1>1 DEF TypeOK, Backed
<1>8. Told'
  BY <1>1 DEF TypeOK, Told, Setting, Telling, UpToDate, ToldOf
<1>9. IdsNameListeners'
  BY <1>1 DEF TypeOK, IdsNameListeners
<1>10. ListenerUpToDate'
  BY <1>1 DEF ListenerUpToDate, Setting
<1> QED BY <1>2, <1>3, <1>4, <1>5, <1>6, <1>7, <1>8, <1>9, <1>10

LEMMA AddLockStep ==
    ASSUME Serial, ConfigVarInv, NEW t \in Threads, AddLock(t)
    PROVE  ConfigVarInv'
<1> USE DEF ConfigVarInv
<1>1. /\ \A u \in Threads \ {t} : call'[u] = call[u] /\ pc'[u] = pc[u]
      /\ call' = call
      /\ pc[t] = "add" /\ pc'[t] = "load"
      /\ call[t].var \in Vars /\ m_mutex[call[t].var] \in RWMutexes /\ CanWrite(m_mutex[call[t].var])
      /\ m_mutex' = [m_mutex EXCEPT ![call[t].var] = wrlock(@, t)]
      /\ UNCHANGED <<m_val, m_cbs, s_fun_id, result, gone, told, halfway>>
  BY DEF AddLock, TypeOK, Locals, Adding
<1>2. TypeOK'
  <2>1. m_mutex' \in [Vars -> RWMutexes]
    BY <1>1, LockFacts DEF TypeOK
  <2> QED BY <1>1, <2>1 DEF AddLock, TypeOK
<1>3. Locals'
  BY <1>1 DEF TypeOK, Locals, Setting, Adding
<1>4. Locked'
  <2>1. /\ \A v \in Vars \ {call[t].var} : m_mutex'[v] = m_mutex[v]
        /\ m_mutex'[call[t].var].readers = {}
        /\ m_mutex'[call[t].var].writer = t
        /\ m_mutex[call[t].var].readers = {} /\ m_mutex[call[t].var].writer = None
    BY <1>1, LockFacts DEF TypeOK
  <2> QED BY <1>1, <2>1 DEF Locked
<1>5. Alone'
  BY <1>1 DEF TypeOK, Alone, Setting, Adding
<1>6. FreshIds'
  BY <1>1 DEF TypeOK, FreshIds
<1>7. Backed'
  BY <1>1 DEF TypeOK, Backed
<1>8. Told'
  BY <1>1 DEF TypeOK, Told, Setting, Telling, UpToDate, ToldOf
<1>9. IdsNameListeners'
  BY <1>1 DEF TypeOK, IdsNameListeners
<1>10. ListenerUpToDate'
  BY <1>1 DEF ListenerUpToDate, Setting
<1> QED BY <1>2, <1>3, <1>4, <1>5, <1>6, <1>7, <1>8, <1>9, <1>10

LEMMA AddLoadStep ==
    ASSUME Serial, ConfigVarInv, NEW t \in Threads, AddLoad(t)
    PROVE  ConfigVarInv'
<1> USE DEF ConfigVarInv
<1>1. /\ \A u \in Threads \ {t} : call'[u] = call[u] /\ pc'[u] = pc[u]
      /\ call'[t].var = call[t].var /\ call'[t].cb = call[t].cb /\ call'[t].reg = s_fun_id
      /\ pc[t] = "load" /\ pc'[t] = "store"
      /\ UNCHANGED <<m_val, m_cbs, m_mutex, s_fun_id, result, gone, told, halfway>>
  BY DEF AddLoad, TypeOK, Calls
<1>2. TypeOK'
  <2>1. [call[t] EXCEPT !.reg = s_fun_id] \in Calls
    BY DEF TypeOK, Calls
  <2> QED BY <1>1, <2>1 DEF AddLoad, TypeOK
<1>3. Locals'
  BY <1>1 DEF TypeOK, Locals, Setting, Adding
<1>4. Locked'
  BY <1>1 DEF TypeOK, Locked
<1>5. Alone'
  BY <1>1 DEF TypeOK, Alone, Setting, Adding
<1>6. FreshIds'
  BY <1>1 DEF TypeOK, FreshIds
<1>7. Backed'
  BY <1>1 DEF TypeOK, Backed
<1>8. Told'
  BY <1>1 DEF TypeOK, Told, Setting, Telling, UpToDate, ToldOf
<1>9. IdsNameListeners'
  BY <1>1 DEF TypeOK, IdsNameListeners
<1>10. ListenerUpToDate'
  BY <1>1 DEF ListenerUpToDate, Setting
<1> QED BY <1>2, <1>3, <1>4, <1>5, <1>6, <1>7, <1>8, <1>9, <1>10

LEMMA AddStoreStep ==
    ASSUME Serial, ConfigVarInv, NEW t \in Threads, AddStore(t)
    PROVE  ConfigVarInv'
<1> USE DEF ConfigVarInv
<1>1. /\ \A u \in Threads \ {t} : call'[u] = call[u] /\ pc'[u] = pc[u]
      /\ call' = call
      /\ pc[t] = "store" /\ pc'[t] = "insert"
      /\ s_fun_id \in Nat /\ s_fun_id' = s_fun_id + 1
      /\ UNCHANGED <<m_val, m_cbs, m_mutex, result, gone, told, halfway>>
  BY DEF AddStore, TypeOK, FreshIds
<1>2. TypeOK'
  BY <1>1 DEF AddStore, TypeOK
<1>3. Locals'
  BY <1>1 DEF TypeOK, Locals, Setting, Adding
<1>4. Locked'
  BY <1>1 DEF TypeOK, Locked
<1>5. Alone'
  BY <1>1 DEF TypeOK, Alone, Setting, Adding
<1>6. FreshIds'
  <2>1. \A u \in Threads \ {t} : ~Adding(u)
    BY <1>1 DEF Alone, Adding
  <2>2. /\ \A v \in Vars : \A i \in DOMAIN m_cbs[v] : i \in Nat /\ i <= s_fun_id
        /\ \A k \in DOMAIN result : result[k].id \in Nat /\ result[k].id <= s_fun_id
    BY DEF TypeOK, FreshIds
  <2> QED BY <1>1, <2>1, <2>2 DEF FreshIds, Adding
<1>7. Backed'
  <2>1. \A u \in Threads : pc[u] # "return"
    BY <1>1 DEF Alone, Adding
  <2> QED BY <1>1, <2>1 DEF Backed
<1>8. Told'
  BY <1>1 DEF TypeOK, Told, Setting, Telling, UpToDate, ToldOf
<1>9. IdsNameListeners'
  BY <1>1 DEF TypeOK, IdsNameListeners
<1>10. ListenerUpToDate'
  BY <1>1 DEF ListenerUpToDate, Setting
<1> QED BY <1>2, <1>3, <1>4, <1>5, <1>6, <1>7, <1>8, <1>9, <1>10

LEMMA AddInsertStep ==
    ASSUME Serial, ConfigVarInv, NEW t \in Threads, AddInsert(t)
    PROVE  ConfigVarInv'
<1> USE DEF ConfigVarInv
<1>1. /\ \A u \in Threads \ {t} : call'[u] = call[u] /\ pc'[u] = pc[u]
      /\ call' = call
      /\ pc[t] = "insert" /\ pc'[t] = "return"
      /\ call[t].var \in Vars /\ call[t].cb \in Listeners /\ s_fun_id \in Nat
      /\ \A v \in Vars \ {call[t].var} : m_cbs'[v] = m_cbs[v]
      /\ DOMAIN m_cbs'[call[t].var] = DOMAIN m_cbs[call[t].var] \cup {s_fun_id}
      /\ \A i \in DOMAIN m_cbs[call[t].var] : m_cbs'[call[t].var][i] = m_cbs[call[t].var][i]
      /\ m_cbs'[call[t].var][s_fun_id] = call[t].cb
      /\ \A v \in Vars : s_fun_id \notin DOMAIN m_cbs[v]
      /\ UNCHANGED <<m_val, m_mutex, s_fun_id, result, gone, told, halfway>>
  BY DEF AddInsert, TypeOK, Locals, Adding, FreshIds, Put
<1>2. TypeOK'
  <2>1. DOMAIN m_cbs' = Vars
    BY DEF AddInsert, TypeOK
  <2> QED BY <1>1, <2>1 DEF AddInsert, TypeOK
<1>3. Locals'
  BY <1>1 DEF TypeOK, Locals, Setting, Adding
<1>4. Locked'
  BY <1>1 DEF TypeOK, Locked
<1>5. Alone'
  BY <1>1 DEF TypeOK, Alone, Setting, Adding
<1>6. FreshIds'
  <2>1. \A u \in Threads \ {t} : ~Adding(u)
    BY <1>1 DEF Alone, Adding
  <2>2. \A v \in Vars : \A i \in DOMAIN m_cbs'[v] : i <= s_fun_id
    BY <1>1 DEF TypeOK, FreshIds
  <2> QED BY <1>1, <2>1, <2>2 DEF FreshIds, Adding
<1>7. Backed'
  <2>1. \A u \in Threads : pc[u] # "return"
    BY <1>1 DEF Alone, Adding
  <2> QED BY <1>1, <2>1 DEF Backed
<1>8. Told'
  BY <1>1 DEF TypeOK, Told, Setting, Telling, UpToDate, ToldOf
<1>9. IdsNameListeners'
  BY <1>1 DEF TypeOK, IdsNameListeners
<1>10. ListenerUpToDate'
  BY <1>1 DEF ListenerUpToDate, Setting
<1> QED BY <1>2, <1>3, <1>4, <1>5, <1>6, <1>7, <1>8, <1>9, <1>10

LEMMA AddReturnStep ==
    ASSUME Serial, ConfigVarInv, NEW t \in Threads, AddReturn(t)
    PROVE  ConfigVarInv'
<1> USE DEF ConfigVarInv
<1>1. /\ \A u \in Threads \ {t} : call'[u] = call[u] /\ pc'[u] = pc[u]
      /\ pc[t] = "return" /\ pc'[t] = "idle"
      /\ call[t].var \in Vars /\ call[t].cb \in Listeners \ DOMAIN result
      /\ m_mutex[call[t].var] \in RWMutexes
      /\ m_mutex' = [m_mutex EXCEPT ![call[t].var] = unlock(@, t)]
      /\ DOMAIN result' = DOMAIN result \cup {call[t].cb}
      /\ \A l \in DOMAIN result : result'[l] = result[l]
      /\ result'[call[t].cb].var = call[t].var /\ result'[call[t].cb].id = s_fun_id
      /\ UNCHANGED <<m_val, m_cbs, s_fun_id, gone, told, halfway>>
  BY DEF AddReturn, TypeOK, Locals, Adding, Put
<1>2. TypeOK'
  <2>1. m_mutex' \in [Vars -> RWMutexes]
    BY <1>1, LockFacts DEF TypeOK
  <2>2. NoCall \in Calls
    BY DEF NoCall, Calls
  <2>3. result'[call[t].cb] \in [var : Vars, id : Nat]
    BY <1>1 DEF AddReturn, Put, TypeOK
  <2> QED BY <1>1, <2>1, <2>2, <2>3 DEF AddReturn, TypeOK
<1>3. Locals'
  <2>1. \A u \in Threads \ {t} : ~Adding(u)
    BY <1>1 DEF Alone, Adding
  <2> QED BY <1>1, <2>1 DEF Locals, Setting, Adding
<1>4. Locked'
  <2>1. \A u \in Threads \ {t} : ~Adding(u)
    BY <1>1 DEF Alone, Adding
  <2>2. m_mutex[call[t].var].writer = t /\ m_mutex[call[t].var].readers = {}
    BY <1>1 DEF Locked
  <2>3. /\ \A v \in Vars \ {call[t].var} : m_mutex'[v] = m_mutex[v]
        /\ m_mutex'[call[t].var].readers = {} /\ m_mutex'[call[t].var].writer = None
    <3>1. /\ \A v \in Vars \ {call[t].var} : m_mutex'[v] = m_mutex[v]
          /\ m_mutex'[call[t].var] = unlock(m_mutex[call[t].var], t)
      BY <1>1 DEF TypeOK
    <3>2. /\ unlock(m_mutex[call[t].var], t).readers = {}
          /\ unlock(m_mutex[call[t].var], t).writer = None
      BY <2>2 DEF unlock
    <3> QED BY <3>1, <3>2
  <2> QED BY <1>1, <2>1, <2>2, <2>3 DEF Locked, Adding
<1>5. Alone'
  BY <1>1 DEF TypeOK, Alone, Setting, Adding
<1>6. FreshIds'
  <2>1. \A u \in Threads \ {t} : ~Adding(u)
    BY <1>1 DEF Alone, Adding
  <2>2. /\ \A l \in DOMAIN result' : 0 < result'[l].id /\ result'[l].id <= s_fun_id
        /\ \A k, l \in DOMAIN result' : result'[k].id = result'[l].id => k = l
    BY <1>1 DEF TypeOK, FreshIds
  <2> QED BY <1>1, <2>1, <2>2 DEF FreshIds, Adding
<1>7. Backed'
  <2>1. \A u \in Threads \ {t} : pc[u] # "return"
    BY <1>1 DEF Alone, Adding
  <2>2. m_cbs[call[t].var][s_fun_id] = call[t].cb /\ call[t].cb \notin gone
    BY <1>1 DEF FreshIds, Locals
  <2> QED BY <1>1, <2>1, <2>2 DEF Backed
<1>8. Told'
  <2>1. \A l \in DOMAIN told : l \in DOMAIN result /\ result'[l] = result[l]
    BY <1>1 DEF Told
  <2> QED BY <1>1, <2>1 DEF Told, Setting, Telling, UpToDate, ToldOf
<1>9. IdsNameListeners'
  BY <1>1 DEF FreshIds, IdsNameListeners
<1>10. ListenerUpToDate'
  <2>1. \A l \in DOMAIN told : l \in DOMAIN result /\ result'[l] = result[l]
    BY <1>1 DEF Told
  <2> QED BY <1>1, <2>1 DEF ListenerUpToDate, Setting
<1> QED BY <1>2, <1>3, <1>4, <1>5, <1>6, <1>7, <1>8, <1>9, <1>10

LEMMA DelListenerStep ==
    ASSUME Serial, ConfigVarInv, NEW t \in Threads, NEW l \in Listeners, DelListener(t, l)
    PROVE  ConfigVarInv'
<1> USE DEF ConfigVarInv
<1>1. /\ l \in DOMAIN result \ gone /\ result[l].var \in Vars
      /\ m_mutex[result[l].var] \in RWMutexes /\ CanWrite(m_mutex[result[l].var])
      /\ \A v \in Vars \ {result[l].var} : m_cbs'[v] = m_cbs[v]
      /\ DOMAIN m_cbs'[result[l].var] = DOMAIN m_cbs[result[l].var] \ {result[l].id}
      /\ \A i \in DOMAIN m_cbs'[result[l].var] : m_cbs'[result[l].var][i] = m_cbs[result[l].var][i]
      /\ gone' = gone \cup {l}
      /\ UNCHANGED <<m_val, m_mutex, s_fun_id, pc, call, result, told, halfway>>
  BY DEF DelListener, TypeOK, Erase
<1>2. TypeOK'
  <2>1. DOMAIN m_cbs' = Vars
    BY DEF DelListener, TypeOK
  <2> QED BY <1>1, <2>1 DEF DelListener, TypeOK
<1>3. Locals'
  BY <1>1 DEF TypeOK, Locals, Setting, Adding
<1>4. Locked'
  BY <1>1 DEF TypeOK, Locked
<1>5. Alone'
  BY <1>1 DEF TypeOK, Alone, Setting, Adding
<1>6. FreshIds'
  <2>1. \A u \in Threads : pc[u] = "return" => call[u].var # result[l].var
    <3>1. m_mutex[result[l].var].writer = None
      BY <1>1, LockFacts
    <3> QED BY <3>1 DEF Locked
  <2>2. \A u \in Threads : pc[u] = "return" => call[u].var \in Vars
    BY DEF Locals, Adding
  <2>3. \A v \in Vars : DOMAIN m_cbs'[v] \subseteq DOMAIN m_cbs[v]
    BY <1>1
  <2> QED BY <1>1, <2>1, <2>2, <2>3 DEF FreshIds
<1>7. Backed'
  <2>1. ASSUME NEW v \in Vars, NEW i \in DOMAIN m_cbs'[v]
        PROVE  /\ i \in DOMAIN m_cbs[v] /\ m_cbs'[v][i] = m_cbs[v][i]
               /\ ~(v = result[l].var /\ i = result[l].id)
    BY <1>1
  <2> QED BY <1>1, <2>1 DEF Backed
<1>8. Told'
  BY <1>1 DEF TypeOK, Told, Setting, Telling, UpToDate, ToldOf
<1>9. IdsNameListeners'
  BY <1>1 DEF TypeOK, FreshIds, IdsNameListeners
<1>10. ListenerUpToDate'
  BY <1>1 DEF ListenerUpToDate, Setting
<1> QED BY <1>2, <1>3, <1>4, <1>5, <1>6, <1>7, <1>8, <1>9, <1>10

LEMMA ClearListenerStep ==
    ASSUME Serial, ConfigVarInv, NEW t \in Threads, NEW v \in Vars, ClearListener(t, v)
    PROVE  ConfigVarInv'
<1> USE DEF ConfigVarInv
<1>1. /\ m_mutex[v] \in RWMutexes /\ CanWrite(m_mutex[v])
      /\ \A x \in Vars \ {v} : m_cbs'[x] = m_cbs[x]
      /\ DOMAIN m_cbs'[v] = {}
      /\ gone' = gone \cup {l \in DOMAIN result : result[l].var = v}
      /\ UNCHANGED <<m_val, m_mutex, s_fun_id, pc, call, result, told, halfway>>
  BY DEF ClearListener, TypeOK, EmptyMap
<1>2. TypeOK'
  <2>1. DOMAIN m_cbs' = Vars
    BY DEF ClearListener, TypeOK
  <2> QED BY <1>1, <2>1 DEF ClearListener, TypeOK
<1>3. Locals'
  BY <1>1 DEF TypeOK, Locals, Setting, Adding
<1>4. Locked'
  BY <1>1 DEF TypeOK, Locked
<1>5. Alone'
  BY <1>1 DEF TypeOK, Alone, Setting, Adding
<1>6. FreshIds'
  <2>1. \A u \in Threads : pc[u] = "return" => call[u].var # v
    <3>1. m_mutex[v].writer = None
      BY <1>1, LockFacts
    <3> QED BY <3>1 DEF Locked
  <2>2. \A u \in Threads : pc[u] = "return" => call[u].var \in Vars
    BY DEF Locals, Adding
  <2> QED BY <1>1, <2>1, <2>2 DEF FreshIds
<1>7. Backed'
  BY <1>1 DEF TypeOK, Backed
<1>8. Told'
  BY <1>1 DEF TypeOK, Told, Setting, Telling, UpToDate, ToldOf
<1>9. IdsNameListeners'
  BY <1>1 DEF TypeOK, IdsNameListeners
<1>10. ListenerUpToDate'
  BY <1>1 DEF ListenerUpToDate, Setting
<1> QED BY <1>2, <1>3, <1>4, <1>5, <1>6, <1>7, <1>8, <1>9, <1>10

\* setValue() of the value the variable has returns at once.
LEMMA CompareSameStep ==
    ASSUME Serial, ConfigVarInv, NEW t \in Threads, call[t].val = m_val[call[t].var], Compare(t)
    PROVE  ConfigVarInv'
<1> USE DEF ConfigVarInv
<1>1. /\ \A u \in Threads \ {t} : pc'[u] = pc[u]
      /\ pc[t] = "compare" /\ pc'[t] = "idle"
      /\ UNCHANGED <<m_val, m_cbs, m_mutex, s_fun_id, call, result, gone, told, halfway>>
  BY DEF Compare, TypeOK
<1>2. TypeOK'
  BY DEF Compare, TypeOK
<1>3. Locals'
  BY <1>1 DEF Locals, Setting, Adding
<1>4. Locked'
  BY <1>1 DEF Locked
<1>5. Alone'
  BY <1>1 DEF Alone, Setting, Adding
<1>6. FreshIds'
  BY <1>1 DEF FreshIds
<1>7. Backed'
  BY <1>1 DEF Backed
<1>8. Told'
  BY <1>1 DEF Told, Setting, Telling, UpToDate, ToldOf
<1>9. IdsNameListeners'
  BY <1>1 DEF IdsNameListeners
<1>10. ListenerUpToDate'
  <2>1. ASSUME NEW l \in (DOMAIN result \cap DOMAIN told) \ gone,
               \A u \in Threads : ~(Setting(u)' /\ call[u].var = result[l].var)
        PROVE  UpToDate(l)
    <3>1. CASE call[t].var = result[l].var
      BY <1>1, <3>1 DEF Told, Telling, Setting
    <3>2. CASE call[t].var # result[l].var
      BY <1>1, <2>1, <3>2 DEF ListenerUpToDate, UpToDate, Setting
    <3> QED BY <3>1, <3>2
  <2> QED BY <1>1, <2>1 DEF ListenerUpToDate, UpToDate
<1> QED BY <1>2, <1>3, <1>4, <1>5, <1>6, <1>7, <1>8, <1>9, <1>10

LEMMA Stutter == ConfigVarInv /\ UNCHANGED vars => ConfigVarInv'
<1> SUFFICES ASSUME ConfigVarInv, UNCHANGED vars PROVE ConfigVarInv'
  OBVIOUS
<1> USE DEF ConfigVarInv, vars
<1>1. TypeOK'
  BY DEF TypeOK
<1>2. Locals' /\ Locked' /\ Alone'
  BY DEF Locals, Locked, Alone, Setting, Adding
<1>3. FreshIds' /\ Backed'
  BY DEF FreshIds, Backed
<1>4. Told'
  BY DEF Told, Setting, Telling, UpToDate, ToldOf
<1>5. IdsNameListeners' /\ ListenerUpToDate'
  BY DEF IdsNameListeners, ListenerUpToDate, Setting
<1> QED BY <1>1, <1>2, <1>3, <1>4, <1>5

LEMMA NextStep == Serial /\ ConfigVarInv /\ [Next]_vars => ConfigVarInv'
<1> SUFFICES ASSUME Serial, ConfigVarInv, [Next]_vars PROVE ConfigVarInv'
  OBVIOUS
<1>1. ASSUME NEW t \in Threads, Call(t) PROVE ConfigVarInv'
  BY <1>1, SetValueStep, AddListenerStep, DelListenerStep, ClearListenerStep DEF Call
<1>2. ASSUME NEW t \in Threads, Continue(t) PROVE ConfigVarInv'
  BY <1>2, CompareSameStep, CompareDiffersStep, NotifyStep, ThrowStep, NotifiedStep, AssignStep,
     AddLockStep, AddLoadStep, AddStoreStep, AddInsertStep, AddReturnStep DEF Continue
<1>3. CASE UNCHANGED vars
  BY <1>3, Stutter
<1> QED BY <1>1, <1>2, <1>3 DEF Next, AllIdle

LEMMA InitInv == Init => ConfigVarInv
<1> SUFFICES ASSUME Init PROVE ConfigVarInv
  OBVIOUS
<1> USE DEF Init
<1>1. TypeOK
  <2>1. NoCall \in Calls
    BY DEF NoCall, Calls
  <2>2. Unlocked \in RWMutexes
    BY DEF Unlocked, RWMutexes
  <2> QED BY <2>1, <2>2 DEF TypeOK, EmptyMap
<1>2. Locals /\ Locked /\ Alone
  BY DEF Locals, Locked, Alone, Setting, Adding, EmptyMap, Unlocked
<1>3. FreshIds /\ Backed
  BY DEF FreshIds, Backed, EmptyMap
<1>4. Told /\ IdsNameListeners /\ ListenerUpToDate
  BY DEF Told, IdsNameListeners, ListenerUpToDate, EmptyMap
<1> QED BY <1>1, <1>2, <1>3, <1>4 DEF ConfigVarInv

-----------------------------------------------------------------------------
(***************************************************************************)
(* The listeners that have to be told.                                     *)
(***************************************************************************)

\* The history that a step of another kind leaves alone.
LEMMA DueKept ==
    ASSUME ConfigVarInv, DueInv, UNCHANGED <<m_cbs, s_fun_id>>, DOMAIN told \subseteq DOMAIN told',
           NEW t \in Threads, \A u \in Threads \ {t} : call'[u] = call[u] /\ pc'[u] = pc[u],
           call'[t].due \in {call[t].due, {}},
           pc'[t] \notin {"notify", "assign", "insert"}
    PROVE  DueInv'
  BY DEF DueInv

LEMMA DueCompare ==
    ASSUME ConfigVarInv, DueInv, NEW t \in Threads, call[t].val # m_val[call[t].var], Compare(t)
    PROVE  DueInv'
<1> USE DEF ConfigVarInv
<1> DEFINE v == call[t].var
<1>1. /\ \A u \in Threads \ {t} : call'[u] = call[u] /\ pc'[u] = pc[u]
      /\ call'[t].var = v /\ call'[t].at = 0 /\ call'[t].due = DOMAIN m_cbs[v]
      /\ pc'[t] = "notify" /\ v \in Vars
      /\ UNCHANGED <<m_cbs, s_fun_id, told>>
  BY DEF Compare, TypeOK, Calls, Locals, Setting
<1>2. \A i \in DOMAIN m_cbs[v] : i \in Nat /\ 0 < i /\ i <= s_fun_id
  BY <1>1 DEF TypeOK, FreshIds, Backed
<1>3. \A u \in Threads : pc[u] = "insert" => s_fun_id \notin DOMAIN m_cbs[v]
  BY <1>1 DEF FreshIds
<1> HIDE DEF v
<1>4. /\ \A u \in Threads : \A i \in call'[u].due : i <= s_fun_id
      /\ \A u, w \in Threads : pc'[u] = "insert" => s_fun_id \notin call'[w].due
  BY <1>1, <1>2, <1>3 DEF DueInv
<1>5. \A i \in DOMAIN m_cbs[v] : ~(i <= 0)
  BY <1>2
<1> QED BY <1>1, <1>4, <1>5 DEF DueInv

LEMMA DueNotify ==
    ASSUME ConfigVarInv, DueInv, NEW t \in Threads, Notify(t)
    PROVE  DueInv'
<1> USE DEF ConfigVarInv
<1> DEFINE v == call[t].var
           n == NextId(t)
<1>1. /\ \A u \in Threads \ {t} : call'[u] = call[u]
      /\ call'[t].var = v /\ call'[t].at = n /\ call'[t].due = call[t].due
      /\ pc[t] = "notify" /\ call[t].at \in Nat
      /\ UNCHANGED <<m_cbs, s_fun_id, pc>>
      /\ DOMAIN told' = DOMAIN told \cup {m_cbs[v][n]}
  BY DEF Notify, TypeOK, Calls, Put
<1>2. /\ n \in Nat /\ n > call[t].at /\ v \in Vars
      /\ \A i \in DOMAIN m_cbs[v] : i > call[t].at => n <= i
  BY NextFacts DEF Notify
<1>3. \A i \in DOMAIN m_cbs[v] : i \in Nat
  BY <1>2 DEF TypeOK
<1> HIDE DEF v, n
<1>4. \A i \in DOMAIN m_cbs[v] : i <= n => i = n \/ i <= call[t].at
  BY <1>1, <1>2, <1>3
<1>5. \A i \in DOMAIN m_cbs[v] : i <= n => m_cbs[v][i] \in DOMAIN told'
  BY <1>1, <1>4 DEF DueInv, v
<1> QED BY <1>1, <1>5 DEF DueInv

LEMMA DueNotified ==
    ASSUME ConfigVarInv, DueInv, NEW t \in Threads, Notified(t)
    PROVE  DueInv'
<1> USE DEF ConfigVarInv
<1> DEFINE v == call[t].var
<1>1. /\ pc' = [pc EXCEPT ![t] = "assign"] /\ pc[t] = "notify"
      /\ UNCHANGED <<m_cbs, s_fun_id, call, told>>
      /\ v \in Vars /\ call[t].at \in Nat
  BY DEF Notified, TypeOK, Locals, Setting, Calls
<1>2. \A i \in DOMAIN m_cbs[v] : i <= call[t].at
  BY <1>1 DEF Notified, Remaining, TypeOK
<1>3. \A i \in DOMAIN m_cbs[v] : m_cbs[v][i] \in DOMAIN told
  BY <1>1, <1>2 DEF DueInv
<1> QED BY <1>1, <1>3 DEF DueInv, TypeOK

LEMMA DueStore ==
    ASSUME ConfigVarInv, DueInv, NEW t \in Threads, AddStore(t)
    PROVE  DueInv'
<1> USE DEF ConfigVarInv
<1>1. /\ pc' = [pc EXCEPT ![t] = "insert"] /\ s_fun_id' = s_fun_id + 1 /\ s_fun_id \in Nat
      /\ UNCHANGED <<m_cbs, call, told>>
  BY DEF AddStore, TypeOK, FreshIds
<1>2. \A u \in Threads : \A i \in call[u].due : i \in Nat /\ i <= s_fun_id
  BY DEF DueInv, TypeOK, Calls
<1>3. \A u \in Threads : \A i \in call[u].due : i <= s_fun_id + 1 /\ i # s_fun_id + 1
  BY <1>1, <1>2
<1> QED BY <1>1, <1>3 DEF DueInv, TypeOK

LEMMA DueInsert ==
    ASSUME ConfigVarInv, DueInv, NEW t \in Threads, AddInsert(t)
    PROVE  DueInv'
<1> USE DEF ConfigVarInv
<1> DEFINE v == call[t].var
<1>1. /\ pc' = [pc EXCEPT ![t] = "return"] /\ pc[t] = "insert"
      /\ v \in Vars /\ m_mutex[v] \in RWMutexes /\ m_mutex[v].writer = t
      /\ \A x \in Vars \ {v} : m_cbs'[x] = m_cbs[x]
      /\ DOMAIN m_cbs'[v] = DOMAIN m_cbs[v] \cup {s_fun_id}
      /\ \A i \in DOMAIN m_cbs[v] : m_cbs'[v][i] = m_cbs[v][i]
      /\ UNCHANGED <<s_fun_id, call, told>>
  BY DEF AddInsert, TypeOK, Locals, Locked, Adding, FreshIds, Put
<1>2. \A u \in Threads : pc[u] = "notify" => call[u].var \in Vars \ {v}
  BY <1>1 DEF Locked, Locals, Setting
<1>3. \A u \in Threads : pc[u] = "assign" => call[u].var \in Vars
  BY DEF Locals, Setting
<1>4. \A u \in Threads : s_fun_id \notin call[u].due
  BY <1>1 DEF DueInv
<1> HIDE DEF v
<1>5. \A u \in Threads : pc'[u] = "assign" =>
          \A i \in DOMAIN m_cbs'[call[u].var] \cap call[u].due :
              m_cbs'[call[u].var][i] \in DOMAIN told
  BY <1>1, <1>3, <1>4 DEF DueInv, TypeOK
<1> QED BY <1>1, <1>2, <1>5 DEF DueInv, TypeOK

\* Entries of the map that are erased owe nothing.
LEMMA DueErase ==
    ASSUME ConfigVarInv, DueInv, UNCHANGED <<s_fun_id, pc, call, told>>,
           \A v \in Vars : \A i \in DOMAIN m_cbs'[v] :
               i \in DOMAIN m_cbs[v] /\ m_cbs'[v][i] = m_cbs[v][i]
    PROVE  DueInv'
<1>1. \A u \in Threads : pc[u] \in {"notify", "assign"} => call[u].var \in Vars
  BY DEF ConfigVarInv, Locals, Setting
<1> QED BY <1>1 DEF DueInv

LEMMA DueStep ==
    ASSUME ConfigVarInv, DueInv, NEW t \in Threads, Call(t) \/ Continue(t)
    PROVE  DueInv'
<1> USE DEF ConfigVarInv
<1>1. ASSUME NEW v \in Vars, NEW x \in Values, SetValue(t, v, x) PROVE DueInv'
  BY <1>1, DueKept DEF SetValue, TypeOK, NoCall
<1>2. ASSUME NEW v \in Vars, NEW l \in Listeners, AddListener(t, v, l) PROVE DueInv'
  BY <1>2, DueKept DEF AddListener, TypeOK, NoCall
<1>3. ASSUME NEW l \in Listeners, DelListener(t, l) PROVE DueInv'
  BY <1>3, DueErase DEF DelListener, TypeOK, Erase
<1>4. ASSUME NEW v \in Vars, ClearListener(t, v) PROVE DueInv'
  BY <1>4, DueErase DEF ClearListener, TypeOK, EmptyMap
<1>5. ASSUME Compare(t) PROVE DueInv'
  <2>1. CASE call[t].val = m_val[call[t].var]
    BY <1>5, <2>1, DueKept DEF Compare, TypeOK
  <2> QED BY <1>5, <2>1, DueCompare
<1>6. ASSUME Assign(t) \/ AddLock(t) PROVE DueInv'
  BY <1>6, DueKept DEF Assign, AddLock, TypeOK
<1>7. ASSUME AddLoad(t) PROVE DueInv'
  <2>1. call'[t].due = call[t].due
    BY <1>7 DEF AddLoad, TypeOK, Calls
  <2> QED BY <1>7, <2>1, DueKept DEF AddLoad, TypeOK
<1>8. ASSUME AddReturn(t) PROVE DueInv'
  BY <1>8, DueKept DEF AddReturn, TypeOK, NoCall
<1>9. ASSUME Throw(t) PROVE DueInv'
  BY <1>9, DueKept DEF Throw, TypeOK, Put
<1> QED BY <1>1, <1>2, <1>3, <1>4, <1>5, <1>6, <1>7, <1>8, <1>9, DueNotify, DueNotified, DueStore,
           DueInsert DEF Call, Continue

-----------------------------------------------------------------------------
\* Clients whose setValue() on one variable and addListener() on one type do not
\* overlap: ids, listeners and announcements are as ConfigVarInv says.
THEOREM ConfigVarCorrect == Serial => (Spec => []ConfigVarInv)
<1> SUFFICES ASSUME Serial PROVE Spec => []ConfigVarInv
  OBVIOUS
<1>1. ConfigVarInv /\ [Next]_vars => ConfigVarInv'
  BY NextStep
<1> QED BY <1>1, InitInv, PTL DEF Spec

\* setValue() passes over no listener that was in the map when it compared the values.
THEOREM DueCorrect == Serial => (Spec => []DueInv)
<1> SUFFICES ASSUME Serial PROVE Spec => []DueInv
  OBVIOUS
<1>1. Init => DueInv
  BY DEF Init, DueInv, NoCall
<1>2. ConfigVarInv /\ DueInv /\ [Next]_vars => DueInv'
  <2> SUFFICES ASSUME ConfigVarInv, DueInv, [Next]_vars PROVE DueInv'
    OBVIOUS
  <2>1. CASE UNCHANGED vars
    BY <2>1 DEF vars, DueInv
  <2> QED BY <2>1, DueStep DEF Next, AllIdle
<1> QED BY <1>1, <1>2, ConfigVarCorrect, PTL DEF Spec

\* addListener() returns an id under which delListener() finds this listener and no
\* other, however many listeners of however many variables come and go.
THEOREM IdsNameListenersCorrect == Serial => (Spec => []IdsNameListeners)
<1> SUFFICES ASSUME Serial PROVE Spec => []IdsNameListeners
  OBVIOUS
<1>1. ConfigVarInv => IdsNameListeners
  BY DEF ConfigVarInv
<1> QED BY <1>1, ConfigVarCorrect, PTL

\* Whenever no setValue() is on its way, a listener that was ever called was last
\* told the value that the variable has, unless the last setValue() that called
\* listeners was left by an exception of one.
THEOREM ListenerUpToDateCorrect == Serial => (Spec => []ListenerUpToDate)
<1> SUFFICES ASSUME Serial PROVE Spec => []ListenerUpToDate
  OBVIOUS
<1>1. ConfigVarInv => ListenerUpToDate
  BY DEF ConfigVarInv
<1> QED BY <1>1, ConfigVarCorrect, PTL

\* m_val is assigned only after every listener that was in the map when setValue()
\* compared the values, and still is, has been called with the old and the new value;
\* and so has each that registered since, if it was called at all.
THEOREM ChangeAnnouncedCorrect == Serial => (Spec => ChangeAnnounced)
<1> SUFFICES ASSUME Serial PROVE Spec => ChangeAnnounced
  OBVIOUS
<1> DEFINE Knows(t, v, i) == i \in call[t].due \/ m_cbs[v][i] \in DOMAIN told =>
              m_cbs[v][i] \in DOMAIN told /\ told[m_cbs[v][i]] = <<m_val[v], m_val'[v]>>
           Announced == \A v \in Vars : m_val'[v] # m_val[v] =>
              \E t \in Threads : /\ pc[t] = "assign" /\ call[t].var = v
                                 /\ \A i \in DOMAIN m_cbs[v] : Knows(t, v, i)
<1>1. ConfigVarInv /\ DueInv /\ [Next]_vars => [Announced]_vars
  <2> SUFFICES ASSUME ConfigVarInv, DueInv, Next, NEW v \in Vars, m_val'[v] # m_val[v]
               PROVE  \E t \in Threads : /\ pc[t] = "assign" /\ call[t].var = v
                                         /\ \A i \in DOMAIN m_cbs[v] : Knows(t, v, i)
    OBVIOUS
  <2>1. PICK t \in Threads : Assign(t)
    BY DEF Next, Call, Continue, AllIdle, vars, SetValue, AddListener, DelListener,
           ClearListener, Compare, Notify, Throw, Notified, AddLock, AddLoad, AddStore, AddInsert,
           AddReturn
  <2>2. /\ pc[t] = "assign" /\ call[t].var = v /\ m_val'[v] = call[t].val
        /\ CanWrite(m_mutex[v]) /\ m_mutex[v] \in RWMutexes
    BY <2>1 DEF ConfigVarInv, Assign, TypeOK
  <2>3. \A u \in Threads : ~(pc[u] = "return" /\ call[u].var = v)
    <3>1. m_mutex[v].writer = None
      BY <2>2, LockFacts
    <3> QED BY <3>1 DEF ConfigVarInv, Locked
  <2>4. ASSUME NEW i \in DOMAIN m_cbs[v],
               i \in call[t].due \/ m_cbs[v][i] \in DOMAIN told
        PROVE  m_cbs[v][i] \in DOMAIN told /\ told[m_cbs[v][i]] = <<m_val[v], m_val'[v]>>
    <3> DEFINE l == m_cbs[v][i]
    <3>1. l \in DOMAIN told
      BY <2>2, <2>4 DEF DueInv
    <3>2. l \in DOMAIN result \ gone /\ result[l].var = v
      BY <2>3 DEF ConfigVarInv, Backed
    <3>3. ToldOf(l, t) /\ call[t].old = m_val[v] /\ told[l] \in Values \X Values
      BY <2>2, <3>1, <3>2 DEF ConfigVarInv, TypeOK, Told, Telling, Setting
    <3> QED BY <2>2, <3>1, <3>3 DEF ToldOf
  <2> QED BY <2>2, <2>4
<1>2. [Announced]_vars => [\A v \in Vars : m_val'[v] # m_val[v] =>
          \E t \in Threads :
             /\ pc[t] = "assign" /\ call[t].var = v
             /\ \A i \in DOMAIN m_cbs[v] : LET l == m_cbs[v][i] IN
                   i \in call[t].due \/ l \in DOMAIN told =>
                      l \in DOMAIN told /\ told[l] = <<m_val[v], m_val'[v]>>]_vars
  BY Zenon
<1> HIDE DEF Announced
<1> QED BY <1>1, <1>2, ConfigVarCorrect, DueCorrect, PTL DEF Spec, ChangeAnnounced
=============================================================================
