# Verification of the sylar server framework

This directory holds TLA+ models of the concurrent core of the framework under
`src/src/`: the fiber scheduler, threads and the switches between fibers, the
configuration system and the logging system. TLC checks the models on small
instances, and TLAPS proves the safety properties of the scheduler (its refinement of
an abstract job pool included), of threads and fibers, of configuration variables and
their registry, of loggers, of the logging configuration and its pattern parser and of
the file appender for instances of any size.
Definitions carry the names of
the C++ members and functions where TLA+ allows it; `PROJECT.json` gives, for
each of them, the lines it stands for.

To reproduce: `tlc -workers 2 -config <cfg> <module>` for each row of the table
in section 4, and `tlapm` for each module whose name ends in `Proofs`.

## 1. Inventory

| Component | State | Operations | Interaction |
|---|---|---|---|
| `Fiber` (`fiber.{h,cpp}`) | `m_state`, `m_cb`, `m_ctx` and stack; thread-local `t_fiber`, `t_threadFiber` | constructor, `reset`, `call`/`back`, `swapIn`/`swapOut`, `YieldToReady`/`YieldToHold`, `MainFunc`, `CallerMainFunc` | entered by whichever thread the scheduler lets run it; `m_state` is read by the scans of all others, without a lock |
| `Scheduler` (`scheduler.{h,cpp}`) | `m_mutex`, `m_fibers`, `m_threads`, `m_root_fiber`, the atomic counters of active and idle threads, `m_stopping`, `m_auto_stop` | `start`, `stop`, three `schedule`, `run`, `idle`, `stopping` | runs fibers; called from outside threads and from callbacks it runs |
| `ConfigVar<T>` (`config.h`) | `m_val`, `m_cbs`, `m_mutex` (an `RWMutex`), the static `s_fun_id` | `setValue`/`fromString`, `getValue`, `addListener`, `delListener`, `clearListener` | calls listeners under its read lock |
| `Config` (`config.{h,cpp}`) | `s_datas`, `s_mutex` | two `Lookup`, `LookupBase`, `LoadFromYaml`, `Visit` | owns the variables, calls `fromString` of each |
| `LexicalCast` (`config.h`) | none | string to and from containers | `fromString`, `toString` |
| `Logger`, `LogAppender`, `LoggerManager` (`log.{h,cpp}`) | levels, formatters, `m_appenders`, `m_has_formatter`, a mutex each, `m_loggers` | `log`, `add/del/clearAppender(s)`, `setFormatter`, `setLevel`, `getLogger`, `toYamlString` | a logger without appenders calls the root logger with its own mutex held |
| `LogDefine`, `LogIniter` (`log.cpp`) | the variable `logs` | parse, print, the listener | applies a loaded configuration to the loggers |
| `FileLogAppender` (`log.{h,cpp}`) | the stream, `m_last_time`, a mutex | `log`, `reopen` | called by loggers; depends on a file system that others change |
| `LogFormatter`, its items (`log.{h,cpp}`) | `m_items`, `m_error` | `init`, `isError`, `format` | made from the patterns of the configuration |
| `Thread`, `Semaphore` (`thread.{h,cpp}`) | `m_thread`, `m_id`, `m_cb`, `m_semaphore`; thread-local `t_thread` | constructor, `run`, `join`, destructor, `SetName` | the constructor waits for the new thread |
| `Mutex`, `RWMutex`, `Spinlock`, `CASLock` (`thread.h`) | pthread objects | lock, scoped locks | used by all of the above |
| `util`, `macro`, `singleton` | | thread id, backtrace, assertions | |

README.md of the repository also announces an IO scheduler, hooks, sockets,
TCP and HTTP servers (sections 6 to 13). They are not in the source.

What is hard in this code:

- **A fiber is one stack that several threads may enter.** `run()` decides under
  `m_mutex` that a fiber may be taken but enters it without the mutex; the fiber
  publishes `READY` or `HOLD` before its context is saved. What keeps two
  threads off one stack is spread over `run()`, `swapIn()` and the yields.
- **`stopping()` decides on a queue and a counter that change independently.**
  Between `--m_active_thread_count` and `schedule(ft.fiber)` a fiber that wants
  to go on is neither counted nor queued.
- **`use_caller`.** The thread that calls `stop()` becomes a worker inside it, on
  a root fiber that can be entered once.
- **`setValue()` uses two critical sections,** one to announce and one to assign.
- **A static counter shared by variables that have different locks** (`s_fun_id`).
- **The current fiber is known twice:** as the thread-local `t_fiber` and as the
  stack in use. `swapcontext()` saves whatever stack it is called on into the
  object it is given, and only the order of calls makes that the right one.
- **A thread starts before its `Thread` object is finished** and may live longer
  than it.
- **`m_last_time` is read and written outside the mutex**, and is not initialised;
  the file behind the stream may lose its name, its space or its directory.
- **Formatters are copied from loggers to appenders** and have to follow.
- **The logging configuration is applied as a difference** of two values.

For each component the correctness properties are: (scheduler) no fiber on two
stacks, no failed assertion, no job lost or run twice, exact counters, `stop()`
returns, no message starves, work starts where it was pinned; (configuration
variable) ids name listeners, listeners are told of every change before it is
made and are not out of date afterwards; (registry) one variable per name, a
load reaches every variable it should, printed values read back; (logger) the lists
are walked undisturbed, no appender without formatter, formatters follow, no deadlock; (log configuration) the
loggers are what the current file says, and what they print reads back; (formatter)
exactly the well-formed patterns are accepted, and all of the text is kept;
(file appender) no event goes to a file that was rotated away before, logging goes
on when the file system works again; (threads) a constructed thread is known, the
handshake ends, no destroyed object is used; (fiber switches) `t_fiber` is the
fiber that runs, no switch goes through a null pointer or into an ended context,
the count of fibers is right.

## 2. Modules

    Fiber --- Scheduler -+- SchedulerInv ------- SchedulerProofs ---+       (TLAPS)
                         |        \                                 |
                         |         MCScheduler                      |       (TLC)
                         |        /                                 |
                         +- SchedulerJobPool ----- SchedulerJobPoolProofs   (TLAPS)
                               \ JobPool (INSTANCE)
    Fiber --+- FiberSwitch --- FiberSwitchProofs                            (TLAPS)
    Thread -/
    RWMutex -+- ConfigVar -+- MCConfigVar
             |             +- ConfigVarProofs                               (TLAPS)
             +- Config -+- ConfigYaml --- MCConfig
                        |  LexicalCast --/
                        +- ConfigProofs                                     (TLAPS)
    Logger --- LoggerProofs                                                 (TLAPS)
    LogFormatter --- LogConfig -+- MCLogConfig
                                +- LogConfigProofs                          (TLAPS)
    FileLogAppender --- FileLogAppenderProofs                               (TLAPS)

**Fiber** is the object: state, callback, and where its context resumes (at the
entry of `MainFunc`, inside the callback, or behind the last `swapOut()`, where
only the "never reach" assertion is left). It has no specification of its own:
which thread performs an operation, and in how many steps, is up to the module
that composes it with threads.

**Scheduler** composes fibers, workers, the thread that calls `start()` and
`stop()`, and clients. One action is the code of one thread between two accesses
to state that others access. `pc[w]` is the place in `run()`:

| `pc` | code | `pc` | code |
|---|---|---|---|
| `loop` | top of the loop, waiting for `m_mutex` | `after` | behind `swapIn()`, before `--m_active_thread_count` |
| `scan` | walking `m_fibers` with the mutex held | `requeue` | looking at the state of the fiber |
| `dispatch` | behind the unlock, choosing a branch | `resched`, `park` | `schedule(fiber)`; `m_state = HOLD` |
| `assert`, `enter` | `swapIn()`: the assertion, then the switch | `idle` | in the idle fiber |
| `body` | in the callback | `exited` | `run()` has returned |
| `swapout` | the state is published, the stack not yet left | `abort`, `corrupt` | assertion failed; two threads on one stack |

The scan is taken entry by entry because it reads `m_state` of fibers that write
it without `m_mutex`. `mpc` is the place of the main thread in `start()` and
`stop()`. A callback is a *job*: it may return, throw, yield to READY or to HOLD,
and call `schedule()`.

**JobPool** is the abstract specification: what clients may rely on. A job is
new, pending, running on one thread, parked or done; a pool goes down only when
no job is pending or running. **SchedulerJobPool** maps the scheduler to it
(`ImplementsJobPool`).

**SchedulerInv** has the inductive invariants of section 5.

**Thread** has the objects and the pthreads behind them: the constructor that waits
for `m_semaphore`, `run()` up to `notify()`, the callback, `join()`, and the
destructor that detaches a thread which was not joined. `stray` collects the
threads that used an object after its end.

**FiberSwitch** composes Fiber and Thread: what `t_fiber`, `t_threadFiber` and the
`t_fiber` of `scheduler.cpp` (here `t_main`) are on each thread, which stack the
thread is on, and which stack each context holds. `swapcontext()` is modelled by
what it does to stacks, so that saving into the wrong object is possible, and a switch
that follows a null pointer, fails the assertion of `swapIn()` or resumes an ended context
sets `crashed`. A switch is one step; what happens inside one is the subject of Scheduler.

**RWMutex** is the lock as a value, for the two modules that use it.

**ConfigVar** is the set of variables of one type, since they share `s_fun_id`.
`++s_fun_id` is a data race if two variables register listeners at once; the
model takes the load, the store and the two loads that follow as steps, which is
what the unoptimised build does. A listener in `Throwing` may throw (`Throw`): the read
lock is released, `m_val` stays, and the listeners before it have heard of a change that
is not made (`config.h:309-311`; `fromString()` catches the exception at line 287).

**Config** is the registry; **ConfigYaml** has `ListAllMember()` as a recursive
operator, and a reference definition, without recursion, of the value that a
document has for a name. **LexicalCast** has the conversions between YAML text and
values, for numbers, strings, sequences, sets and maps, nested in any way. A text
is represented by the node it is the text of, which takes for granted that
yaml-cpp reads what it writes; scalars are plain words without quotes. What the
code makes of a node of the wrong shape is kept: a scalar or null makes an empty
container, a map read as a vector gives elements with the text "", a sequence read
as a map throws, and one element that throws makes the whole conversion throw.
`Config` takes the conversion and the list of members as operator constants, so
that it has no recursion in it.

**Logger** has loggers, appenders and the manager under concurrent calls, with
the nested mutexes. A logging statement is two steps: the macro that compares the
level and makes the event, and the destructor of `LogEventWrap` that calls
`Logger::log()`; the level may have changed in between. **LogConfig** has the parser, the printer and the listener
of `logs`; the loggers in it are the sequential counterpart of those in Logger.
**LogFormatter** has the pattern parser `init()`, as the iterations of its loop (`Step`,
`Run`), and, independently, a grammar of patterns: a pattern is `Written` if it can be
cut into pieces, and `SpeltUpTo` says that elements are its text.

**FileLogAppender** has `log()` in its five steps (read the clock, compare,
`reopen()`, assign `m_last_time`, write), the `ofstream` with its buffer and its
error state, and a world in which seconds pass, the file is renamed, the disk fills
up and the directory goes and comes back. `m_last_time` is not initialised by the
constructor: until it is assigned, the comparison may come out either way, and the
events for which it found the seconds equal are in `unset`. A write that failed sets
`failed`.

## 3. Clients

Some of the interfaces are only correct if clients keep to rules that no document
states. The rules are parameters of the models. A rule excludes what it names, so the
properties that are checked under it say nothing of that; each rule is therefore given
here with what happens without it, and with the configuration that shows it, one of the
further ones at the end of section 4 unless it is called a run.

*Scheduler, `Contract`.*

- An existing fiber is scheduled only if the scheduler has no reference to it any
  more, or by itself, for its own thread, before it yields to HOLD. Otherwise two
  messages for it are taken by two workers, and the `EXEC` test of the scan
  (`scheduler.cpp:174`) is stale for the second: `MCSchedulerDouble`, where a client
  submits a fiber and wakes it before it has run. With or without the contract, a
  client can only schedule a fiber it may hold a pointer to (`known`): one it has
  submitted, or one that a callback has run in. The `cb_fiber` of a worker is a local of
  `run()` until then.
- Outside threads do not call `schedule()` while `stop()` runs: the message may
  arrive after the last thread has left.
- A callback pins work to no thread but its own: another one may have left.
- A scheduler with `use_caller` is started once. A second `start()`, `stop()`
  calls the root fiber again, whose context has ended: it resumes behind `back()`
  at "never reach" (`fiber.cpp:238`): `MCSchedulerAgain`.

*ConfigVar, `Serial`.* No two `setValue()` on one variable and no two
`addListener()` on one type overlap. Two setters announce in one order and assign
in the other: the listener is left with a value the variable does not have
(`config.h:312`): `MCConfigVarRace`. Two registrations get one id: run
`config_var_ids`.

*Config.* `LookupBase()` reads `s_datas` without `s_mutex`: no load overlaps the
registration of a new name, and one load runs at a time. `LoadReaches` and `LoadInv` say
what the rule is for; without it TLC finds a name inserted in the middle of a load.

*Logger, `Rules`.* `once`: an appender is added once, to one logger. When it is
removed and added again it keeps the formatter of its first stay, because
`addAppender()` asks for an empty `m_formatter`, not for `m_has_formatter`
(`log.cpp:283`): `LoggerMoved`. `apart`: its own formatter is not set while it is being
added, since `addAppender()` tests and sets in two critical sections
(`log.cpp:283-286`) and would overwrite it: `LoggerOwn`. `nonempty`: no empty formatter is
set; an appender would dereference it. Lists may become empty at any time, the root
logger's too: an event that finds both empty is dropped, as the code does.

*FiberSwitch, `Rules`.* `scheduler`: `swapIn()` is called by the scheduling fiber of
the thread. On a thread without one `GetMainFiber()` is null and the switch follows
it; `tests/test_fiber.cpp:19-24` does just that: run `fiber_test`. `native`: `call()` is
called on the thread's native stack. Elsewhere it saves the caller's stack into the main
fiber, and the thread never comes back to its own. `yield`: a root fiber does not yield,
because `swapOut()` would switch from the scheduling fiber to itself. A fourth rule, `live`
(no fiber is entered that runs or has ended), is assumed by no property that is said to
hold: entering such a fiber crashes, and the properties are about everything up to there.
`fiber_test` has it, so that its crash has no other reason. `Scheduler` keeps to all four.

*Thread, `Detached`.* A thread whose object may be destroyed before it ends must keep
away from `Thread::GetThis()` and `SetName()`, which use the object (`thread.cpp:58`).

Where the models differ from what is written:

- A fiber pinned to a thread that yields to READY is queued again for any thread
  (`scheduler.cpp:199`, `Reschedule`); `src/README.md:28` promises a fixed thread:
  `MCSchedulerPin`.
- After a write has failed, `reopen()` never opens the file again: it closes only a
  stream that is good (`log.cpp:412`), and `open()` of an open stream fails. The comment
  at `log.h:272` says the file is reopened: run `file_reopen`, theorem `FailedForGood`.
  `Recovers` is about the faults before.
- The first comparison with `m_last_time` reads a value nobody has assigned
  (`log.h:279`). If it is the current second, `reopen()` is left out: an event may go to a
  file that was rotated, or be lost although a missing directory is back. `FreshFile` and
  `Recovers` except the events in `unset`.
- `%%` is no escape: the loop appends one `%` and looks at the second again, as the
  start of an item (`log.cpp:452-457`). `Written` says so.
- A define with an invalid formatter leaves the logger with the formatter of an
  earlier load (`SetPattern`; the comment at `log.cpp:713` says it stays the
  default): `MCLogConfigDefault`. So does a define without formatter, and the level of an appender is never read (`ParseAppender`; `Log.md:70`
  shows the key).
- `reset()` of a fiber made with `use_caller` gives it `MainFunc` instead of
  `CallerMainFunc` (`fiber.cpp:121`); nobody does so, and `resetFiber` leaves it out.

## 4. Runs

| Run | Module, cfg | Instance | Shows |
|---|---|---|---|
| `scheduler_caller` | MCScheduler, MCSchedulerCaller | caller and 1 worker, 2 jobs, 2 fibers, 1 yield per job, 1 wake-up, 1 start | `ImplementsJobPool`, `FiberExclusive`, `AssertionsHold`, `StartsWherePinned`, `NoOrphan`, and `OwnerInv`, the invariant of the proofs |
| `scheduler_alone` | MCScheduler, MCSchedulerAlone | the caller only, 2 jobs, 2 fibers, 2 wake-ups, fair | `ImplementsJobPool` across the early return of `stop()`; `StopReturns` on the root fiber |
| `scheduler_restart` | MCScheduler, MCSchedulerRestart | 2 workers, 1 job, 2 fibers, 1 yield, 1 wake-up, 2 starts, fair | `ImplementsJobPool`, `StopReturns`, `TypeOK`, `CountersExact` across a restart, with one worker leaving while the other is about to queue its fiber again |
| `config_var` | MCConfigVar, MCConfigVar | 2 threads, 2 variables, 2 listeners, one of which may throw, 3 values, 2 sets, fair | `IdsNameListeners`, `ListenerUpToDate`, `ChangeAnnounced`, `CallsReturn` |
| `config_var_ids` | MCConfigVar, MCConfigVarIds | 2 threads, 2 variables, 3 listeners, overlapping | *violation* of `IdsNameListeners` |
| `config` | MCConfig, MCConfig | 2 threads, 3 names, types int, vector of strings and map of sets of int, 3 documents, 5 calls, fair | `OneObject`, `VisitSeesAll`, `LoadReaches`, `RoundTrip`, `CallsReturn` |
| `logger` | Logger, Logger | 2 threads, 2 loggers, 2 appenders, 2 formatters, 2 levels, 5 calls, fair | `NoNullFormatter`, `OwnFormatterKept`, `FormatterInherited`, `WalkUndisturbed`, `LockOrder`, `CallsReturn` |
| `log_config` | MCLogConfig, MCLogConfig | all documents of at most 2 nodes out of 50; all patterns of at most 5 characters out of 6 | `ConfigApplied`, `OthersUntouched`, `RoundTrip`, `DumpReloads`, `FormatterReads` |
| `file_appender` | FileLogAppender, FileLogAppender | 2 threads, 3 seconds, 3 events, 2 faults | `FreshFile`, `Recovers` |
| `file_reopen` | FileLogAppender, FileLogAppenderReopen | the same | *violation* of `ReopenOpens`, the comment at `log.h:272`: the disk is full, a write fails, the disk works again, the file stays closed |
| `fiber_switch` | FiberSwitch, FiberSwitch | the creator and 2 threads, one of which may be abandoned, 2 fibers, 2 yields, fair; fibers may be entered at any time | `RunningIsCurrent`, `WayBack`, `CountExact`, `StartedKnown`, `NoStray`, `ConstructorReturns` |
| `fiber_test` | FiberSwitch, FiberSwitchTest | the creator and 1 thread, 1 fiber, no scheduling fiber needed | *violation* of `NoCrash`: the sequence of `tests/test_fiber.cpp:19-24` |

Further configurations look at one question each, mostly what a rule of section 3
excludes. They are run by hand, with the same command:

| cfg (module) | Instance | Outcome |
|---|---|---|
| MCSchedulerAny (MCScheduler) | caller and 1 worker, clients without contract, 2 starts | holds: `TypeOK`, `CountersExact`, whatever clients do |
| MCSchedulerLive (MCScheduler) | 2 workers, 2 jobs, work pinned to either, fair | holds: `NoStarvation`, although scans pass over messages for the other worker |
| MCSchedulerDouble (MCScheduler) | 2 workers, 1 job, no contract | violation of `AssertionsHold`: two messages for one fiber |
| MCSchedulerAgain (MCScheduler) | the caller only, no contract, 2 starts | violation of `AssertionsHold`: the root fiber called again |
| MCSchedulerPin (MCScheduler) | 2 workers, 1 job that yields | violation of `StaysPinned`: requeued for any thread |
| MCConfigVarRace (MCConfigVar) | 2 overlapping setters, 1 listener | violation of `ListenerUpToDate` |
| LoggerOwn (Logger) | as Logger, without `apart` | violation of `OwnFormatterKept` |
| LoggerMoved (Logger) | as Logger, without `once` | violation of `FormatterInherited` |
| MCLogConfigDefault (MCLogConfig) | as MCLogConfig | violation of `WrongFormatDefault`, the comment at `log.cpp:713` |

Each module has a type invariant. That of Scheduler is checked and proved; those of
FileLogAppender, FiberSwitch, ConfigVar, Logger and LogConfig are parts of the proved
invariants of section 5; elsewhere it documents the state.

*Why the bounds are enough.* Two threads on one fiber, or one lock, need two
threads; the contract's rules and the scan's two reasons to skip all come up with
two messages. One yield per job is enough for a fiber to be resumed on another
thread, two starts for a restart, and two workers without the caller for one of them to
see `stopping()` while the other has just taken itself off the counter. Two setters, two variables and two listeners
are what the announcements and the shared counter need; a listener that registers
between the two halves of `setValue()` is among the cases. Five calls on loggers
hold a creation, an addition, a change of formatter on either side and an event.
Three seconds are what a thread needs to be two seconds late with its assignment to
`m_last_time`; two faults, for a fault behind another one or a rotation in one; three
events, for one before, one during and one after. Two fibers and three threads let a
fiber run on a second thread while the first runs another, next to a root fiber.
Five characters hold every order of `%`, a name and two braces.
The state spaces have between 384 (LogConfig, whose million transitions are the
loads of every document in every state) and 1.4 million states. The bounds are named
(`MaxYields`, `MaxWakes`, `MaxStarts`, `MaxSets`, `MaxCalls`, `MaxTime`, `MaxEvents`,
`MaxFaults`, and `MaxWidth`, `MaxDepth` of the reference definition); they only limit
what clients and the file system do. No bound cuts a call short.

Workers, jobs and fibers are symmetric in the invariant and refinement runs of the
scheduler; runs with a liveness property use no symmetry.

*Deadlock* is checked, except in the runs of FileLogAppender and FiberSwitch, where time
and events run out or a detached thread is all that is left; `ConstructorReturns` says
of the latter that the one call which waits for another thread returns. Every state without a successor would be an
error, except that a model whose calls have all returned, whose process has
stopped or crashed may stutter (`AllIdle`, `Quiet`, `Ended`).

*Fairness.* Every thread that has begun a call goes on: strong fairness for each
thread, because a thread that waits for a mutex is enabled only while the mutex is
free, and pthread mutexes hand the lock to a waiter eventually. Callbacks end
their turns (return, throw or yield): a callback that never does would keep its
thread, and nothing in the scheduler preempts it. `start()` and `stop()` go on once the
client is inside them. FiberSwitch has weak fairness of
the handshake alone (a thread that can run does run). Clients are never required to
call anything; in particular neither `start()` nor `stop()` need be called.

Faults: definitions marked `Fault:` are never part of a specification. Each is a
plausible mistake in the definition that follows it, used to see that the
properties notice.

## 5. Proofs

TLAPS proves, about the scheduler, for any finite set of workers, any sets of fibers
and jobs, with and without `use_caller`, any number of yields, wake-ups and starts,
and from the assumptions `FiberConstants` and `SchedulerConstants` only:

| Theorem | Statement |
|---|---|
| `TypeCorrect` | `Spec => []TypeOK`; the `size_t` counters never go below zero |
| `CountersCorrect` | `Spec => []CountersExact` |
| `Ownership` | `Contract => (Spec => []OwnerInv)` |
| `ExclusiveCorrect` | `Contract => (Spec => []FiberExclusive)` |
| `AssertionsCorrect` | `Contract => (Spec => []AssertionsHold)` |
| `StopAgreed`, `NoOrphanCorrect` | under `Contract`: `Spec => []P` for `StopInv`, `NoOrphan` |
| `PinKept`, `StartsWherePinnedCorrect` | under `Contract`: `Spec => []P` for `PinInv`, `StartsWherePinned` |
| `JobsInOnePlace` | under `Contract`: `Spec => []JobInv` |
| `ImplementsJobPoolCorrect` | under `Contract`: `Spec => ImplementsJobPool`, the refinement of JobPool |

*SchedulerProofs, counters.* Neither `TypeOK` nor `CountersExact` is inductive. The decrement
behind `swapIn()` stays in `Nat` only because the thread is among the active ones
that are counted, and a thread counts as active from the moment it takes a message,
which needs the message to be non-empty: so `BaseInv` adds `QueueOK` (no empty
message is queued, `scheduleNoLock()`) and `Shape` (what `ft` and `cb_fiber` hold at
each place, and that the caller is in `run()` only inside `stop()`). There is one
lemma per conjunct and in it one case per action that touches its variables;
`NextActions` lists the disjuncts of `Next` once. The counters rest on `Counting`,
which puts the cardinality facts in the form the provers can use.

*SchedulerProofs, ownership.* Under `Contract`, `FiberExclusive` holds because a fiber has
one owner. `OwnerInv` says where each can be: `QueueDistinct` (one message per
fiber), `RefsDisjoint` (one worker, as `ft` or as `cb_fiber`), `SelfScheduled` (in
the queue *and* with a worker only if its callback scheduled it for this very worker
and is on its way out, in HOLD), `Places` (the state of a fiber at each place of
`run()`), `FiberStates` (EXEC means a worker is in its callback; an ended context
belongs to a finished fiber) and `RootOnce`. The critical steps are `ScanTake`,
where ownership passes from the queue to the worker, `Reschedule`, where it passes
back, and `Wake`, where the contract is needed.

*SchedulerJobPoolProofs.* What clients see needs three more invariants, each of them
inductive together with `BaseInv` and `OwnerInv`. `StopInv` is about the end: in which
phase of `start()` and `stop()` which threads are there (`Phases`), that a scan holds
`m_mutex` and has passed over nothing its thread may take (`Scanning`), that a thread
whose idle fiber ended has seen `m_stopping` and leaves nothing queued for itself
(`Leavers`), and that while anything is queued some thread is there that will look at
the queue again (`Takers`). `NoOrphan` follows, and so does the abstract step `Down`:
when the last thread has been joined the queue is empty. The decisive case is a worker
that finds the queue without work for it between another's `--m_active_thread_count`
and `schedule(fiber)`: it may leave, because the other one has not and scans again.
`PinInv` follows the thread a job was submitted for from the message to the worker to
the first `swapIn()`. `JobInv` says that a job is in one place: one message or one
worker as a callback, or one fiber, which is what makes its abstract status a function.

The refinement is proved step by step. `StatusOf`, `RunnerOf` and `Woken` of
SchedulerJobPool are expressions over all messages and workers, so a lemma per kind of
abstract step (`SeesNothing`, `SeesSubmit`, `SeesBegin`, `SeesEndTurn`, `SeesWake`,
`SeesUp`, `SeesDown`) reduces it to facts about one job at a time, and a lemma per
concrete action supplies them: entering a callback is `Begin`, publishing `READY` or
`HOLD` or ending is `EndTurn`, the three `schedule()` are `Submit` or `Wake`, and
everything else in `run()`, the requeue included, is a stutter.

For the other components it proves, for any sets and bounds that satisfy the named
assumptions of the modules:

| Theorem | Statement |
|---|---|
| `HandshakeCorrect`, `StartedKnownCorrect`, `NoStrayCorrect` | `Spec => []P` for `HandshakeInv`, `StartedKnown`, `NoStray`, whatever rules clients break |
| `SwitchCorrect`, `RunningIsCurrentCorrect`, `WayBackCorrect` | if `KeepsRules` (`scheduler`, `native` and `yield`, not `live`): `Spec => []P` for `crashed \/ SwitchInv`, `RunningIsCurrent`, `WayBack` |
| `CountExactCorrect` | if `KeepsRules` and there are finitely many threads and fibers: `Spec => []CountExact` |
| `ConfigCorrect`, `OneObjectCorrect`, `VisitSeesAllCorrect`, `LoadCorrect` | `Spec => []P` for `ConfigInv`, `OneObject`, `VisitSeesAll`, `LoadInv`; nothing is assumed of conversions, and of the members of a document only that they are a sequence |
| `ConfigVarCorrect`, `DueCorrect`, `IdsNameListenersCorrect`, `ListenerUpToDateCorrect`, `ChangeAnnouncedCorrect` | under `Serial`: `Spec => []P` for `ConfigVarInv`, `DueInv`, `IdsNameListeners`, `ListenerUpToDate`, and `Spec => ChangeAnnounced` |
| `LoggerInvariant`, `LoggerTypeCorrect`, `LockOrderCorrect` | `Spec => []P` for `LoggerInv`, `TypeOK`, `LockOrder`, whatever rules clients break |
| `NoNullFormatterCorrect` | if `"nonempty" \in Rules`: `Spec => []NoNullFormatter` |
| `OwnFormatterKeptCorrect` | if `"apart" \in Rules`: `Spec => []OwnFormatterKept` |
| `WalkUndisturbedCorrect` | `Spec => []WalkUndisturbed`, whatever rules clients break |
| `FormatterInheritedCorrect` | if `"once"`, `"apart"` and `"nonempty"` are in `Rules`: `Spec => []FormatterInherited` |
| `AcceptsWrittenAlways`, `ReadsBackAlways`, `FormatterReadsCorrect` | `AcceptsWritten(p)` and `ReadsBack(p)` for every sequence `p` over any set; `Spec => []FormatterReads` |
| `LogConfigCorrect`, `TypeCorrect`, `ConfigAppliedCorrect`, `OthersUntouchedCorrect` | `Spec => []P` for `LogConfigInv`, `TypeOK`, `ConfigApplied`, `OthersUntouched` |
| `RoundTripCorrect`, `DumpReloadsCorrect` | `Spec => []P` for LogConfig's `RoundTrip` and `DumpReloads` |
| `AppenderCorrect`, `FreshFileCorrect`, `RecoversCorrect` | `Spec => []P` for `AppenderInv`, `FreshFile`, `Recovers` |
| `FailedForGood` | `Spec => [](failed => Broken)`: after a failed write the stream is never good again |

*FiberSwitchProofs, handshake.* `StartedKnown` needs to know where the constructor can
be while the thread is on its way: `OnItsWay` (it waits for this very thread, and the
semaphore is zero until `notify()`) and `Left` (what `run()`, `join()` and the
destructor have done when). The object is alive wherever it is used because a thread
short of `notify()` has its constructor waiting.

*FiberSwitchProofs, switches.* That `t_fiber` is right after a switch depends on what
contexts hold, so the heart of `SwitchInv` is `OwnStacks`: every object holds its own
stack. A switch keeps it if the object saved into is the one the thread is on, which
is `OnFiber` for the way out and the client's rule for the way in. `Scheduling` and
`MainFiber` give each thread its way back: a root fiber belongs to one thread and
stays EXEC while other fibers run in its stead, and a thread that has a current or a
scheduling fiber has its main fiber. All of this lasts until a fiber is entered that was
not fit to be, a state from which nothing is resumed, so the invariant is
`crashed \/ SwitchInv`; `WayBack` says that a thread never crashes on its way back from a
fiber. `CountExact` follows each step by the one or two
fibers it adds or removes (`Counted`) and the library's theorems on cardinality.

*ConfigProofs.* `OneObject` breaks if a name appears between the search and the
insertion. `Locked` says who holds `s_mutex` at each place, and that a writer is
alone; `Absent`, that a name on its way into the map is not in it. `LoadInv` is the part
of `LoadReaches` behind the listing of the members. `Undisturbed` (whoever looks a name up
during a load finds it) keeps the map as it was, and `LoadApplies` follows the loop over
the members: each variable is what the first k of them make of it (`Made`), which the next
member either leaves (`MadeByNone`) or replaces (`MadeByLast`).

*ConfigVarProofs.* `s_fun_id` is shared by variables with different locks, so ids are
unique only because `Serial` lets one `addListener()` in at a time. `FreshIds` follows
the counter through the load, the store and the two loads behind it; `Backed` says that
a map has no entry but the one of a registered listener, without which `delListener()`
and `clearListener()` could leave a listener that is called and has no id. `Told` is
what `setValue()` owes in the middle of its loop: the listeners up to the iterator have
heard of this change, those behind it still know the value the variable has. That the
walk in key order finds every listener rests on the well-foundedness of `<` on `Nat`.
A listener that throws puts the variable into `halfway`, where nothing is claimed of what
the others were told until the next assignment.
`Told` is about listeners that were ever called; that none is passed over is `DueInv`,
about the history `due`, the ids in the map when the values were compared. Behind the loop
all of them have been called; a listener that registers before the assignment has an id
that is not among them, because `s_fun_id` never returns to an old value.

*LoggerProofs.* `LoggerInv` holds whatever clients do; the parts that need a rule are
implications with the rule on the left, so that each theorem names exactly the rules it
rests on, or none. `Locks` says which mutexes a call holds where; that a logger passes an event
on only if it is not the root logger is what keeps the order. `Formatted` and
`OwnOnes` are one rule each. `WalkUndisturbed` rests on the locks: a list changes only
while nobody else holds its logger's mutex, and who passes an event on to the root logger
keeps the mutex of the logger whose list was empty. `FormatterInherited` needs four facts at once: an
appender has one logger at most (`OneLogger`), one on its way in has no formatter or the
logger's (`Joining`), `setFormatter()` spreads the formatter the logger has over
appenders that are on its list (`Spreading`), and an appender that does not follow yet
is on the list of what it still has to see to (`Following`).

*LogConfigProofs.* The listener computes the added, modified and removed defines and
touches no other logger. That this is enough takes `OneDefine`: two defines of one name
in a value would make the outcome depend on their order. It holds because `insert()`
keeps the first node of a name (`ParseFacts`). Three lemmas then say what happens to a
logger whose define is new or modified, is as before, or is not there. `OthersUntouched`
also needs that what is configured now is among what ever was. Nothing is assumed of
documents but that they consist of nodes, and of patterns but that they are sequences.

*LogConfigProofs, text.* The loops over a pattern and over the appender nodes are
recursive functions on the number of iterations. Induction on that number is done without
an induction theorem: `Least` (a set of numbers has a least member) gives `UpTo` and
`DownFrom`, which carry a set of numbers from one end to the other, and the sets are those
of the iterations at which a statement holds. An iteration reads text, a bare item, an
item with a format, or meets an unclosed brace (`StepCases`). That the parser accepts what
is `Written`: while nothing was wrong the loop only stops at cuts of the grammar, since the
piece that starts at a position has one end at most, where the iteration ends
(`StepGood`); conversely the positions it stops at are a way to cut
the pattern. That the elements spell the pattern is the invariant `ReadSoFar`: the elements
spell what is read up to the text that is still collected in `nstr`. `ParseAppendersAll`
says that nothing is skipped among nodes that are all well-formed, which those that are
printed and dumped are; the level names are told apart by going through them. `RoundTrip`
and `DumpReloads` also need that a define in `conf` came out of the parser
(`ParsedDefines`): its appenders have no level, and a stdout appender has no formatter.

*FileLogAppenderProofs.* `Fresh` relates the stream to everything that could have been
compared with it: it is at least as new as `m_last_time` and as the time of every
thread that is past the comparison. It survives a late assignment of an older second
because the stream can only be newer. `Closed` does the same for a stream that could
not be opened, and `Logged` ties events to the second their thread read. `FailedForGood` needs
only that a stream that has failed keeps its file: `reopen()` closes good streams alone.

Only model-checked: all liveness properties, which are beyond the prover (fairness,
ENABLED), and ConfigYaml's `LoadReaches` and `RoundTrip`. These two are about operators
that recur over YAML trees and over types (`ListAllMember`, `FromStr`, `ToStr`), which the
provers cannot follow; what a load does with the list of members, whatever it is, is
`LoadCorrect`. TypeOK of Config, whose ids need a counting argument that nothing else uses,
is not proved either.

## 6. Not modelled

- The format items of `LogFormatter` and the text that `LogEvent` carries.
- `Spinlock`, `CASLock` and the null locks, which nothing uses. `Mutex` is atomic, and
  calls of pthread and of semaphores succeed: otherwise the code throws.
- Listeners that call back into their variable and callbacks of `Visit()` that register a
  name. Both would wait for the lock their own thread holds.
- What the rules of section 3 exclude, in the runs and theorems that are said to hold:
  overlapping setters and registrations of listeners (`Serial`), loads that overlap
  registrations of names, an appender's `setFormatter()` during its addition (`apart`),
  an appender at a second logger (`once`), and a detached thread that uses `GetThis()` or
  `SetName()` after its object is gone (`Detached`).
- Stack memory and reference counts. A fiber that yielded to HOLD and is dropped by
  every owner is never destroyed, since the pointer on its own stack keeps it alive.
- The thread-locals of a scheduler that is destroyed: `~Scheduler()` leaves the
  `t_fiber` of `scheduler.cpp` pointing to its root fiber.
- The quoting of scalars by yaml-cpp and the number formats of boost.
- `util`, `macro`, `singleton`: stateless.

## 7. Plan

1. `LoadReaches` with `ListAllMember` as a loop over a list of nodes that are still to be
   visited, which can be proved about as the loops of LogConfig are.
2. `RoundTrip` of Config for one level of containers.
