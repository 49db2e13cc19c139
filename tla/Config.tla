------------------------------- MODULE Config -------------------------------
(***************************************************************************)
(* The registry of configuration variables, class Config of                *)
(* src/src/config.{h,cpp}: the map s_datas behind the RWMutex s_mutex, the *)
(* two Lookup(), Visit() and LoadFromYaml().                               *)
(*                                                                         *)
(* A variable is an object that clients hold pointers to; its type never   *)
(* changes.  What setValue() does besides assigning is in ConfigVar.       *)
(* LookupBase(), which LoadFromYaml() uses, takes no lock.                 *)
(***************************************************************************)
EXTENDS Naturals, FiniteSets, Sequences, RWMutex

CONSTANTS
    Names,          \* the names that are looked up
    Legal,          \* those made of [0-9a-z_.] only
    Types,          \* the T of the variables
    Default(_),     \* the default_value that Lookup<T>() is given
    Convert(_, _),  \* FromStr() of a type and a text: the set of the value, or
                    \* empty when it throws
    Docs,           \* the YAML documents that are loaded
    Members(_),     \* what ListAllMember("", doc) makes of them, entries of a
                    \* key and the node found there
    MaxCalls        \* bound: how many calls are made

ASSUME ConfigConstants ==
    /\ Legal \subseteq Names
    /\ None \notin Names \cup Types
    /\ \A d \in Docs : Members(d) \in Seq({Members(d)[i] : i \in DOMAIN Members(d)})
    /\ MaxCalls \in Nat

VARIABLES
    s_datas,            \* the map from the registered names to the variables; a
                        \* variable is the object, its T and its m_val
    s_mutex,
    pc, call,           \* per thread: where it is, and the arguments and locals
    handed,             \* history: the pointers handed out for each name
    before,             \* history: s_datas when the last load began
    calls

vars == <<s_datas, s_mutex, pc, call, handed, before, calls>>

NoCall == [name |-> None, type |-> None, doc |-> None, todo |-> <<>>, rest |-> {}, seen |-> {}]

\* A name that could not be registered never is; everything has its type.
TypeOK ==
    /\ DOMAIN s_datas \subseteq Legal
    /\ \A n \in DOMAIN s_datas : s_datas[n].id \in Nat /\ s_datas[n].type \in Types
    /\ s_mutex \in RWMutexes
    /\ pc \in [Threads -> {"idle", "lookup", "find", "insert", "load", "visit"}]
    /\ handed \in [Names -> SUBSET Nat]
    /\ calls \in Nat

Init ==
    /\ s_datas = [n \in {} |-> None]
    /\ s_mutex = Unlocked
    /\ pc = [t \in Threads |-> "idle"]
    /\ call = [t \in Threads |-> NoCall]
    /\ handed = [n \in Names |-> {}]
    /\ before = s_datas
    /\ calls = 0

Goto(t, label) == pc' = [pc EXCEPT ![t] = label]

Enter(t) == pc[t] = "idle" /\ calls < MaxCalls /\ calls' = calls + 1

Return(t) == Goto(t, "idle") /\ call' = [call EXCEPT ![t] = NoCall]

Registered == DOMAIN s_datas

\* LookupBase() and an insertion into the map must not meet: clients register
\* their variables before they load a file, and load one at a time.
Loading == \E t \in Threads : pc[t] = "load"

Inserting ==
    \E t \in Threads : pc[t] \in {"lookup", "find", "insert"} /\ call[t].name \notin Registered

-----------------------------------------------------------------------------
\* Lookup<T>(name, default_value)
Lookup(t, n, T) ==
    /\ Enter(t) /\ (n \in Registered \/ ~Loading)
    /\ call' = [call EXCEPT ![t] = [NoCall EXCEPT !.name = n, !.type = T]]
    /\ Goto(t, "lookup")
    /\ UNCHANGED <<s_datas, s_mutex, handed, before>>

\* Faults: a read lock is taken; readers are not waited for.
LookupLockShared(t) ==
    /\ pc[t] = "lookup"
    /\ Goto(t, "find")
    /\ UNCHANGED <<s_datas, s_mutex, call, handed, before, calls>>

LookupLockEager(t) ==
    /\ pc[t] = "lookup" /\ CanRead(s_mutex)
    /\ s_mutex' = wrlock(s_mutex, t)
    /\ Goto(t, "find")
    /\ UNCHANGED <<s_datas, call, handed, before, calls>>

LookupLock(t) ==
    /\ pc[t] = "lookup" /\ CanWrite(s_mutex)
    /\ s_mutex' = wrlock(s_mutex, t)
    /\ Goto(t, "find")
    /\ UNCHANGED <<s_datas, call, handed, before, calls>>

\* The variable that exists is returned if it has type T, nullptr if it has not.
\* A name with other characters throws.
LookupFind(t) ==
    LET n == call[t].name IN
    /\ pc[t] = "find"
    /\ \/ /\ n \in Registered
          /\ handed' = IF s_datas[n].type = call[t].type
                       THEN [handed EXCEPT ![n] = @ \cup {s_datas[n].id}] ELSE handed
          /\ s_mutex' = unlock(s_mutex, t) /\ Return(t)
       \/ /\ n \notin Registered /\ n \notin Legal
          /\ s_mutex' = unlock(s_mutex, t) /\ Return(t)
          /\ UNCHANGED handed
       \/ /\ n \notin Registered /\ n \in Legal
          /\ Goto(t, "insert")
          /\ UNCHANGED <<s_mutex, call, handed>>
    /\ UNCHANGED <<s_datas, before, calls>>

\* A new object, with an id that no other has.
LookupInsert(t) ==
    LET n == call[t].name
        id == CHOOSE i \in 0..MaxCalls : \A m \in Names : i \notin handed[m] IN
    /\ pc[t] = "insert"
    /\ s_datas' = [m \in Registered \cup {n} |->
                      IF m = n THEN [id |-> id, type |-> call[t].type, val |-> Default(call[t].type)]
                      ELSE s_datas[m]]
    /\ handed' = [handed EXCEPT ![n] = @ \cup {id}]
    /\ s_mutex' = unlock(s_mutex, t) /\ Return(t)
    /\ UNCHANGED <<before, calls>>

\* Lookup<T>(name), under the read lock
LookupExisting(t, n, T) ==
    /\ Enter(t) /\ CanRead(s_mutex)
    /\ n \in Registered /\ s_datas[n].type = T
    /\ handed' = [handed EXCEPT ![n] = @ \cup {s_datas[n].id}]
    /\ UNCHANGED <<s_datas, s_mutex, pc, call, before>>

-----------------------------------------------------------------------------
\* LoadFromYaml(root): the members are listed first.
LoadFromYaml(t, d) ==
    /\ Enter(t) /\ ~Loading /\ ~Inserting
    /\ call' = [call EXCEPT ![t] = [NoCall EXCEPT !.doc = d, !.todo = Members(d)]]
    /\ before' = s_datas
    /\ Goto(t, "load")
    /\ UNCHANGED <<s_datas, s_mutex, handed>>

\* Fault: a value that cannot be converted ends the load.
LoadOneAborts(t) ==
    LET e == Head(call[t].todo) IN
    /\ pc[t] = "load" /\ call[t].todo # <<>>
    /\ IF e.key \in Registered
       THEN IF Convert(s_datas[e.key].type, e.node) # {}
            THEN /\ s_datas' = [s_datas EXCEPT ![e.key].val =
                                   CHOOSE v \in Convert(s_datas[e.key].type, e.node) : TRUE]
                 /\ call' = [call EXCEPT ![t].todo = Tail(@)]
            ELSE call' = [call EXCEPT ![t].todo = <<>>] /\ UNCHANGED s_datas
       ELSE call' = [call EXCEPT ![t].todo = Tail(@)] /\ UNCHANGED s_datas
    /\ UNCHANGED <<s_mutex, pc, handed, before, calls>>

\* LookupBase(key) and fromString(), which swallows a failed conversion; the
\* empty key is no name.
LoadOne(t) ==
    LET e == Head(call[t].todo) IN
    /\ pc[t] = "load" /\ call[t].todo # <<>>
    /\ \/ /\ e.key \in Registered
          /\ \E v \in Convert(s_datas[e.key].type, e.node) :
                s_datas' = [s_datas EXCEPT ![e.key].val = v]
       \/ /\ e.key \in Registered => Convert(s_datas[e.key].type, e.node) = {}
          /\ UNCHANGED s_datas
    /\ call' = [call EXCEPT ![t].todo = Tail(@)]
    /\ UNCHANGED <<s_mutex, pc, handed, before, calls>>

LoadReturn(t) ==
    /\ pc[t] = "load" /\ call[t].todo = <<>>
    /\ Return(t)
    /\ UNCHANGED <<s_datas, s_mutex, handed, before, calls>>

-----------------------------------------------------------------------------
\* Visit(cb): the read lock is held while cb is called for every variable.
Visit(t) ==
    /\ Enter(t) /\ CanRead(s_mutex)
    /\ s_mutex' = rdlock(s_mutex, t)
    /\ call' = [call EXCEPT ![t] = [NoCall EXCEPT !.rest = Registered]]
    /\ Goto(t, "visit")
    /\ UNCHANGED <<s_datas, handed, before>>

\* Fault: the iterator is not advanced.
VisitOneAgain(t) ==
    /\ pc[t] = "visit" /\ call[t].rest # {}
    /\ UNCHANGED vars

VisitOne(t) ==
    /\ pc[t] = "visit"
    /\ \E n \in call[t].rest :
          call' = [call EXCEPT ![t].rest = @ \ {n}, ![t].seen = @ \cup {n}]
    /\ UNCHANGED <<s_datas, s_mutex, pc, handed, before, calls>>

VisitReturn(t) ==
    /\ pc[t] = "visit" /\ call[t].rest = {}
    /\ s_mutex' = unlock(s_mutex, t)
    /\ Return(t)
    /\ UNCHANGED <<s_datas, handed, before, calls>>

-----------------------------------------------------------------------------
Call(t) ==
    \/ \E n \in Names, T \in Types : Lookup(t, n, T) \/ LookupExisting(t, n, T)
    \/ \E d \in Docs : LoadFromYaml(t, d)
    \/ Visit(t)

Continue(t) ==
    \/ LookupLock(t) \/ LookupFind(t) \/ LookupInsert(t)
    \/ LoadOne(t) \/ LoadReturn(t)
    \/ VisitOne(t) \/ VisitReturn(t)

\* Every call has returned.
AllIdle == (\A t \in Threads : pc[t] = "idle") /\ UNCHANGED vars

Next == (\E t \in Threads : Call(t) \/ Continue(t)) \/ AllIdle

Spec == Init /\ [][Next]_vars

\* A thread that waits for s_mutex is not locked out for ever.
Fairness == \A t \in Threads : SF_vars(Continue(t))

FairSpec == Spec /\ Fairness

-----------------------------------------------------------------------------
\* "If it exists it is returned": all pointers ever handed out for a name are
\* pointers to the one variable that LoadFromYaml() will find, also when two
\* threads look a new name up at once.
OneObject ==
    \A n \in Names : handed[n] # {} => n \in Registered /\ handed[n] = {s_datas[n].id}

\* Visit(): the map does not change under the iteration, so that every variable
\* is visited.
VisitSeesAll ==
    \A t \in Threads : pc[t] = "visit" => call[t].seen \cup call[t].rest = Registered

\* Every call of every thread returns.
CallsReturn == \A t \in Threads : pc[t] # "idle" ~> pc[t] = "idle"
=============================================================================
