----------------------------- MODULE ConfigVar -----------------------------
(***************************************************************************)
(* The configuration variables of one type T, class ConfigVar<T> of        *)
(* src/src/config.h: the value and the change listeners of each behind its *)
(* own RWMutex, and the listener counter s_fun_id, a static local of       *)
(* addListener() and therefore shared by all variables of the type.        *)
(*                                                                         *)
(* setValue() announces under the read lock and assigns under the write    *)
(* lock; between the two it holds no lock.  ++s_fun_id is a data race when *)
(* two variables register listeners at once: the build (-O0) loads, stores *)
(* and then loads it again for the map's key and for the result, and these *)
(* are the steps here.  A listener that throws leaves setValue() with the  *)
(* listeners before it told of a change that is not made.  getValue(),     *)
(* toString() and getListener() change nothing and a failed FromStr in     *)
(* fromString() changes nothing either.  Listeners do not call back into   *)
(* their variable.                                                         *)
(***************************************************************************)
EXTENDS Naturals, FiniteSets, RWMutex

CONSTANTS
    Vars,       \* the ConfigVar<T> objects
    Values,     \* the values of T
    Default,    \* the default_value of the constructor
    Listeners,  \* the callbacks that clients register, each at most once
    Serial,     \* TRUE: no two setValue() on one variable and no two
                \* addListener() on the type at the same time
    Throwing,   \* those of them that may throw when they are called
    MaxSets     \* bound: how many calls of setValue() are made

ASSUME ConfigVarConstants ==
    /\ Default \in Values
    /\ None \notin Vars \cup Values \cup Listeners
    /\ Throwing \subseteq Listeners
    /\ Serial \in BOOLEAN
    /\ MaxSets \in Nat

VARIABLES
    m_val, m_cbs,       \* members of each variable, m_mutex too; m_cbs is a map
                        \* from ids to listeners
    m_mutex,
    s_fun_id,
    pc, call,           \* per thread: where it is, and the arguments and locals
    result,             \* a map: where a listener was registered, the id it was given
    gone,               \* the listeners that were deleted or cleared
    told,               \* a map: the arguments a listener was last called with
    halfway,            \* the variables whose last change a listener has prevented
    sets

vars == <<m_val, m_cbs, m_mutex, s_fun_id, pc, call, result, gone, told, halfway, sets>>

\* A std::map is a function whose domain are the keys it has.
EmptyMap == [k \in {} |-> None]

\* map[k] = x and map.erase(k)
Put(map, k, x) == [i \in DOMAIN map \cup {k} |-> IF i = k THEN x ELSE map[i]]

Erase(map, k) == [i \in DOMAIN map \ {k} |-> map[i]]

Calls ==
    [var : Vars \cup {None},        \* this
     val : Values \cup {None},      \* setValue()'s argument
     old : Values \cup {None},      \* m_val when the listeners are called
     due : SUBSET Nat,              \* history: the ids in the map at that time
     at  : Nat,                     \* the last id whose listener was called
     cb  : Listeners \cup {None},   \* addListener()'s argument
     reg : Nat]                     \* s_fun_id as loaded by ++

NoCall == [var |-> None, val |-> None, old |-> None, due |-> {}, at |-> 0, cb |-> None, reg |-> 0]

TypeOK ==
    /\ m_val \in [Vars -> Values]
    /\ DOMAIN m_cbs = Vars
    /\ \A v \in Vars : DOMAIN m_cbs[v] \subseteq Nat
    /\ \A v \in Vars : \A i \in DOMAIN m_cbs[v] : m_cbs[v][i] \in Listeners
    /\ m_mutex \in [Vars -> RWMutexes]
    /\ s_fun_id \in Nat
    /\ pc \in [Threads -> {"idle", "compare", "notify", "assign", "add", "load",
                           "store", "insert", "return"}]
    /\ call \in [Threads -> Calls]
    /\ DOMAIN result \subseteq Listeners
    /\ \A l \in DOMAIN result : result[l] \in [var : Vars, id : Nat]
    /\ gone \in SUBSET Listeners
    /\ DOMAIN told \subseteq Listeners
    /\ \A l \in DOMAIN told : told[l] \in Values \X Values
    /\ halfway \in SUBSET Vars
    /\ sets \in Nat

Init ==
    /\ m_val = [v \in Vars |-> Default]
    /\ m_cbs = [v \in Vars |-> EmptyMap]
    /\ m_mutex = [v \in Vars |-> Unlocked]
    /\ s_fun_id = 0
    /\ pc = [t \in Threads |-> "idle"]
    /\ call = [t \in Threads |-> NoCall]
    /\ result = EmptyMap /\ gone = {}
    /\ told = EmptyMap /\ halfway = {}
    /\ sets = 0

Setting(t) == pc[t] \in {"compare", "notify", "assign"}
Adding(t) == pc[t] \in {"add", "load", "store", "insert", "return"}

Goto(t, label) == pc' = [pc EXCEPT ![t] = label]

-----------------------------------------------------------------------------
\* setValue(val), also called by fromString()
SetValue(t, v, x) ==
    /\ pc[t] = "idle" /\ sets < MaxSets
    /\ Serial => \A u \in Threads : ~(Setting(u) /\ call[u].var = v)
    /\ call' = [call EXCEPT ![t] = [NoCall EXCEPT !.var = v, !.val = x]]
    /\ sets' = sets + 1
    /\ Goto(t, "compare")
    /\ UNCHANGED <<m_val, m_cbs, m_mutex, s_fun_id, result, gone, told, halfway>>

\* Read lock; return if the value is the same.
Compare(t) ==
    LET v == call[t].var IN
    /\ pc[t] = "compare" /\ CanRead(m_mutex[v])
    /\ IF call[t].val = m_val[v]
       THEN Goto(t, "idle") /\ UNCHANGED <<m_mutex, call>>
       ELSE /\ m_mutex' = [m_mutex EXCEPT ![v] = rdlock(@, t)]
            /\ call' = [call EXCEPT ![t].old = m_val[v], ![t].due = DOMAIN m_cbs[v]]
            /\ Goto(t, "notify")
    /\ UNCHANGED <<m_val, m_cbs, s_fun_id, result, gone, told, halfway, sets>>

\* The registered ids behind the last one that was called.
Remaining(t) == {i \in DOMAIN m_cbs[call[t].var] : i > call[t].at}

\* The first of them.
NextId(t) == CHOOSE n \in Remaining(t) : \A k \in Remaining(t) : n <= k

\* Fault: the arguments are swapped.
NotifySwapped(t) ==
    /\ pc[t] = "notify" /\ Remaining(t) # {}
    /\ told' = Put(told, m_cbs[call[t].var][NextId(t)], <<call[t].val, call[t].old>>)
    /\ call' = [call EXCEPT ![t].at = NextId(t)]
    /\ UNCHANGED <<m_val, m_cbs, m_mutex, s_fun_id, pc, result, gone, halfway, sets>>

\* The next listener is called, in the order of the ids.
Notify(t) ==
    /\ pc[t] = "notify" /\ Remaining(t) # {}
    /\ told' = Put(told, m_cbs[call[t].var][NextId(t)], <<call[t].old, call[t].val>>)
    /\ call' = [call EXCEPT ![t].at = NextId(t)]
    /\ UNCHANGED <<m_val, m_cbs, m_mutex, s_fun_id, pc, result, gone, halfway, sets>>

\* Fault: the lock is not released when the stack is unwound.
ThrowLocked(t) ==
    /\ pc[t] = "notify" /\ Remaining(t) # {}
    /\ m_cbs[call[t].var][NextId(t)] \in Throwing
    /\ told' = Put(told, m_cbs[call[t].var][NextId(t)], <<call[t].old, call[t].val>>)
    /\ halfway' = halfway \cup {call[t].var}
    /\ Goto(t, "idle")
    /\ UNCHANGED <<m_val, m_cbs, m_mutex, s_fun_id, call, result, gone, sets>>

\* It throws: the read lock is released and m_val stays as it is.  fromString()
\* catches the exception, other callers of setValue() get it.
Throw(t) ==
    /\ pc[t] = "notify" /\ Remaining(t) # {}
    /\ m_cbs[call[t].var][NextId(t)] \in Throwing
    /\ told' = Put(told, m_cbs[call[t].var][NextId(t)], <<call[t].old, call[t].val>>)
    /\ m_mutex' = [m_mutex EXCEPT ![call[t].var] = unlock(@, t)]
    /\ halfway' = halfway \cup {call[t].var}
    /\ Goto(t, "idle")
    /\ UNCHANGED <<m_val, m_cbs, s_fun_id, call, result, gone, sets>>

\* Fault: the listener at the end of the map is left out.
NotifiedEarly(t) ==
    /\ pc[t] = "notify" /\ Cardinality(Remaining(t)) <= 1
    /\ m_mutex' = [m_mutex EXCEPT ![call[t].var] = unlock(@, t)]
    /\ Goto(t, "assign")
    /\ UNCHANGED <<m_val, m_cbs, s_fun_id, call, result, gone, told, halfway, sets>>

\* All are called: the read lock is released.
Notified(t) ==
    /\ pc[t] = "notify" /\ Remaining(t) = {}
    /\ m_mutex' = [m_mutex EXCEPT ![call[t].var] = unlock(@, t)]
    /\ Goto(t, "assign")
    /\ UNCHANGED <<m_val, m_cbs, s_fun_id, call, result, gone, told, halfway, sets>>

\* Write lock, m_val = val.
Assign(t) ==
    /\ pc[t] = "assign" /\ CanWrite(m_mutex[call[t].var])
    /\ m_val' = [m_val EXCEPT ![call[t].var] = call[t].val]
    /\ halfway' = halfway \ {call[t].var}
    /\ Goto(t, "idle")
    /\ UNCHANGED <<m_cbs, m_mutex, s_fun_id, call, result, gone, told, sets>>

-----------------------------------------------------------------------------
\* addListener(cb)
AddListener(t, v, l) ==
    /\ pc[t] = "idle" /\ l \notin DOMAIN result
    /\ \A u \in Threads : call[u].cb # l
    /\ Serial => \A u \in Threads : ~Adding(u)
    /\ call' = [call EXCEPT ![t] = [NoCall EXCEPT !.var = v, !.cb = l]]
    /\ Goto(t, "add")
    /\ UNCHANGED <<m_val, m_cbs, m_mutex, s_fun_id, result, gone, told, halfway, sets>>

AddLock(t) ==
    /\ pc[t] = "add" /\ CanWrite(m_mutex[call[t].var])
    /\ m_mutex' = [m_mutex EXCEPT ![call[t].var] = wrlock(@, t)]
    /\ Goto(t, "load")
    /\ UNCHANGED <<m_val, m_cbs, s_fun_id, call, result, gone, told, halfway, sets>>

\* ++s_fun_id
AddLoad(t) ==
    /\ pc[t] = "load"
    /\ call' = [call EXCEPT ![t].reg = s_fun_id]
    /\ Goto(t, "store")
    /\ UNCHANGED <<m_val, m_cbs, m_mutex, s_fun_id, result, gone, told, halfway, sets>>

AddStore(t) ==
    /\ pc[t] = "store"
    /\ s_fun_id' = call[t].reg + 1
    /\ Goto(t, "insert")
    /\ UNCHANGED <<m_val, m_cbs, m_mutex, call, result, gone, told, halfway, sets>>

\* m_cbs[s_fun_id] = cb
AddInsert(t) ==
    /\ pc[t] = "insert"
    /\ m_cbs' = [m_cbs EXCEPT ![call[t].var] = Put(@, s_fun_id, call[t].cb)]
    /\ Goto(t, "return")
    /\ UNCHANGED <<m_val, m_mutex, s_fun_id, call, result, gone, told, halfway, sets>>

\* Fault: the number of listeners is returned, as if none were ever deleted.
AddReturnSize(t) ==
    LET v == call[t].var IN
    /\ pc[t] = "return"
    /\ result' = Put(result, call[t].cb, [var |-> v, id |-> Cardinality(DOMAIN m_cbs[v])])
    /\ m_mutex' = [m_mutex EXCEPT ![v] = unlock(@, t)]
    /\ call' = [call EXCEPT ![t] = NoCall]
    /\ Goto(t, "idle")
    /\ UNCHANGED <<m_val, m_cbs, s_fun_id, gone, told, halfway, sets>>

\* return s_fun_id
AddReturn(t) ==
    /\ pc[t] = "return"
    /\ result' = Put(result, call[t].cb, [var |-> call[t].var, id |-> s_fun_id])
    /\ m_mutex' = [m_mutex EXCEPT ![call[t].var] = unlock(@, t)]
    /\ call' = [call EXCEPT ![t] = NoCall]
    /\ Goto(t, "idle")
    /\ UNCHANGED <<m_val, m_cbs, s_fun_id, gone, told, halfway, sets>>

\* delListener(key) with the id a listener was given
DelListener(t, l) ==
    /\ pc[t] = "idle" /\ l \in DOMAIN result \ gone
    /\ CanWrite(m_mutex[result[l].var])
    /\ m_cbs' = [m_cbs EXCEPT ![result[l].var] = Erase(@, result[l].id)]
    /\ gone' = gone \cup {l}
    /\ UNCHANGED <<m_val, m_mutex, s_fun_id, pc, call, result, told, halfway, sets>>

\* clearListener()
ClearListener(t, v) ==
    /\ pc[t] = "idle" /\ CanWrite(m_mutex[v])
    /\ m_cbs' = [m_cbs EXCEPT ![v] = EmptyMap]
    /\ gone' = gone \cup {l \in DOMAIN result : result[l].var = v}
    /\ m_cbs' # m_cbs \/ gone' # gone
    /\ UNCHANGED <<m_val, m_mutex, s_fun_id, pc, call, result, told, halfway, sets>>

-----------------------------------------------------------------------------
Call(t) ==
    \/ \E v \in Vars, x \in Values : SetValue(t, v, x)
    \/ \E v \in Vars, l \in Listeners : AddListener(t, v, l)
    \/ \E l \in Listeners : DelListener(t, l)
    \/ \E v \in Vars : ClearListener(t, v)

Continue(t) ==
    \/ Compare(t) \/ Notify(t) \/ Throw(t) \/ Notified(t) \/ Assign(t)
    \/ AddLock(t) \/ AddLoad(t) \/ AddStore(t) \/ AddInsert(t) \/ AddReturn(t)

\* Every call has returned.
AllIdle ==
    /\ \A t \in Threads : pc[t] = "idle"
    /\ UNCHANGED vars

Next == (\E t \in Threads : Call(t) \/ Continue(t)) \/ AllIdle

\* A thread that has entered a call goes on whenever the locks let it.
Fairness == \A t \in Threads : SF_vars(Continue(t))

Spec == Init /\ [][Next]_vars

FairSpec == Spec /\ Fairness

-----------------------------------------------------------------------------
\* m_cbs: "the key must be unique".  A listener that was registered and not
\* deleted is found under the id that addListener() returned for it.
IdsNameListeners ==
    \A l \in DOMAIN result \ gone :
        LET map == m_cbs[result[l].var] IN
        result[l].id \in DOMAIN map /\ map[result[l].id] = l

\* A listener that was registered before the last change of its variable, and
\* called for it, has been told the value the variable has: what a listener
\* derived from the value is not out of date once setValue() has returned.  When
\* a listener has thrown, those before it are, until the next change is made.
ListenerUpToDate ==
    \A l \in (DOMAIN result \cap DOMAIN told) \ gone :
        /\ result[l].var \notin halfway
        /\ \A t \in Threads : ~(Setting(t) /\ call[t].var = result[l].var)
        => told[l][2] = m_val[result[l].var]

\* The value changes only after every listener that was registered when
\* setValue() compared the values has been told of this very change, unless it
\* was deleted since.  One that registered while setValue() held no lock may not
\* know, but then it has not been told anything else either.
ChangeAnnounced ==
    [][\A v \in Vars : m_val'[v] # m_val[v] =>
          \E t \in Threads :
             /\ pc[t] = "assign" /\ call[t].var = v
             /\ \A i \in DOMAIN m_cbs[v] : LET l == m_cbs[v][i] IN
                   i \in call[t].due \/ l \in DOMAIN told =>
                      l \in DOMAIN told /\ told[l] = <<m_val[v], m_val'[v]>>]_vars

\* No call waits for ever: listeners are called under the read lock, which is
\* released when one throws, and the write lock is taken without holding any
\* other lock.
CallsReturn == \A t \in Threads : pc[t] # "idle" ~> pc[t] = "idle"
=============================================================================
