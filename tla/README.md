# A verification project for mnthr

mnthr is a library of user-level threads: cooperative coroutines on `ucontext`,
scheduled by a loop around libev (or kqueue). This directory holds TLA+ modules
that model its core, TLC configurations that check them on small instances, and
TLAPS proofs. Paths like `mnthr.c:2313` are under `src/src/`.

## 1. The system

One context runs at a time. A thread runs until it calls something that ends in
`yield()`; control then returns to `poller_resume` in the main context. So there
is no preemption, and everything that is hard comes from what happens between a
thread's switch and its return: other threads run, exit, are created in the same
context, signal, interrupt, or schedule it.

| component | state | operations | interacts with | must hold |
|---|---|---|---|---|
| sleep queue (`mnthr.c:287-508`, `poller.c:110-233`) | `the_sleepq`, a trie keyed by `expire_ticks` that holds one bucket host per key, the other contexts of the key in the host's `sleepq_bucket` | `sleepq_remove`, `sleepq_insert`, `sleepq_append`, the walk `poller_sift_sleepq` | everything that makes a thread runnable | it is a multimap of first-come lines; nobody is lost or linked twice |
| contexts (`mnthr.c:645-950`) | `ctxes`, `free_list`, per context `co.{id,state,rc,abac,f}` | new, new_sig, run, spawn, exit, hold, `mnthr_gc` | `poller_resume` reclaims | a free context is referenced by nothing; a held one is not reused |
| loop core (`poller.c:34-107`, `ev_poller.c:926-999`) | `me`, `timecounter_now`, the walk's `runq` and `sleepq_bucket_tmp` | `poller_resume`, the prepare callback | sleep queue, contexts | one slice per walk, only to resumable threads, not before their time |
| wait queues (`mnthr.c:1295-1368`) | `waitq` of each context and condition, `hosting_waitq` | append, remove, resume one, resume all, join | exit drains the queue of the thread | queue and back reference agree; no waiter is lost |
| interrupts and timed waits (`mnthr.c:1485-1578`, `2654-2769`) | the waiter is in a wait queue and in the sleep queue at once | `mnthr_set_interrupt*`, `mnthr_wait_for`, `mnthr_peek` | both queues, reuse of contexts | timeout and exit are told apart |
| event primitive (`mnthr.c:2261-2368`) | `owner` | subscribe, send, error, error and join | sleep queue | the subscriber is always reachable |
| condition, semaphore, inverted semaphore, lock (`mnthr.c:2371-2651`) | a wait queue, counters | wait, signal, acquire, release, fini | wait queues | exact counts, exclusion, no lost wakeup |
| waits of the libev poller (`ev_poller.c`) | the hash `events` of watchers, `data` of each, `pdata.ev` of each thread | `mnthr_get_rbuflen`, `mnthr_wait_for_*`, `mnthr_stat_*`, the callbacks, `poller_clear_event` | interrupts stop watchers | a waiting thread has a started watcher of its own |
| waits of the kqueue poller (`kevent_poller.c`) | the change list `kevents0`, the results `kevents1`, `event_count`, `event_max`, `pdata.kev` of each thread | the same waits, `mnthr_loop` | `kevent()` and the knotes in the kernel, interrupts | a wait can be answered, and is answered by its own event only; the loop does not end under a waiter |
| descriptor helpers (`mnthr.c:1592-2253`, `bytestream_helper.c`) | offsets, what is left, `pos` and `eod` of a bytestream | socket, bind, connect, accept, read, write, sendfile, the bytestream adapters | the waits, the kernel, the peer, other processes | nothing taken is lost, what is reported as sent was sent, descriptors are not leaked, calls end |
| shutdown (`mnthr.c:577-591`) | `CO_FLAG_SHUTDOWN` | `mnthr_shutdown` | both loops | the loop ends |
| tick conversions, init and fini, diagnostics | | | | not modelled, see section 8 |

What is hard here, and what the properties are for: a thread that is scheduled
again while the walk already holds it; a context reused while somebody still
looks at it; a waiter that is in two queues; interrupted threads that stay in
wait queues; wakeups spent on a thread that does not need them; `errno` left at
`EINTR`; watchers that outlive the wait they were started for; results of
`kevent()` that name a thread and not a wait; data that is gone between the wait
that announced it and the system call. The list, line by
line, is under `hazards` in `PROJECT.json`.

## 2. The modules

```
DTQueue <- SleepQueue <- Scheduler            EvPoller   KeventPoller   Transfer
   |          |  refines
   |          +--> TimerMap
   +---- CondVar <- SemaState <- InvertedSemaphore
            |           +------- Semaphore --+ refines
            +----------- RWLock -------------+--> SharedLock
```

* **DTQueue** - the queue macros of mncommon, an external library, as sequences.
* **SleepQueue** - `sq.trie`, `sq.bucket`, `sq.expire` are the trie nodes, the
  `sleepq_bucket` and the `expire_ticks` of the code; `runq` and `tmp` are the
  locals of `poller_sift_sleepq`. `Schedule` is the triple "remove, set
  `expire_ticks`, enqueue" all callers use; `Collect`, `PopHost` and `PopBucket`
  are one turn each of the three loops of the walk. Its guard `c \notin Staged`
  is a contract: whoever uses the queue must not schedule a context the walk has
  taken. The library does not always keep it (section 5).
* **TimerMap** - the abstract specification: a multimap from time to lines.
* **Scheduler** - contexts, wait queues, join, interrupts, timed waits, events
  and the condition, over SleepQueue. One action per library call up to its
  switch, one for what follows the switch (`TimedReturnGone`,
  `wait_for_timeout`, `subscribe_return`), and forced steps for the loop of
  `resume_waitq_all`, for `mnthr_ctx_finalize` and for the contexts `mnthr_gc`
  frees one after the other (`doomed`, `mnthr_ctx_fini`): nothing else happens until
  they are over. `Calls` says which library
  calls the application of a run makes. `fault` records that an assertion failed,
  that a list was modified through a link in use, or that `mnthr_gc` freed a
  context a wait will look at or the sleep queue refers to; nothing is modelled after that. `ctxes` is the array
  in its order, because `mnthr_gc` walks it; `left` are the chains of held contexts
  it loses (`mnthr.c:884`: the loop follows the link it has just reset, so only
  the first held context gets back to `free_list`). `mnthr_shutdown` sets the
  flag and spawns an empty thread; `loop_break` is `ev_break`, or the condition of
  the kqueue loop. `call`, `slice`, `last` and `exitrc` are history the properties
  need, except that `call` also holds the locals (`ctx`, `id`) of a call that has
  switched.
* **CondVar** - the condition as the primitives see it, with interrupts;
  **Semaphore**, **InvertedSemaphore**, **RWLock** are built on it, the first two over
  **SemaState**, the fields their structures share. Which of the
  scheduled threads goes on first is left open there, which covers every order
  the scheduler could choose. `holders`, `readers`, `writers` are history.
* **SharedLock** - the abstract specification of the semaphore and of the lock: up to
  `Limit` threads share, or one has all to itself; no counts, queues or wakeups. The
  semaphore implements it with `Limit` = `N` and nobody exclusive (`SharesUnits`), the
  lock with its readers as the sharers and its writer exclusive (`SharesAccess`).
* **EvPoller** - the watchers of the libev poller. The items for different
  descriptors or masks are independent, so an item is a member of `Io` or `Stat`.
  Readiness is the environment's choice. The scheduler is the set `due`. `made`
  are the paths with an item; `Freed` is what `pdata.ev` holds after
  `mnthr_stat_destroy` freed the item it names.
* **KeventPoller** - the alternative for kqueue. A round is the walk (`runq`), one
  `kevent()` call and the results one by one (`loop_result`); a thread
  that the walk or a result resumes makes its calls before the loop goes on. `loop_kevent` enters the call (`loop_idle` when
  there is nothing to pass). In it the kernel, which is external, takes the changes one
  by one (`kevent_change`: an addition replaces the udata; one for a closed descriptor,
  or a deletion of what is not there, fails and is reported if there is room), gives up
  when there is no room (`kevent_fails`), or returns what failed, else some of the events
  that are registered (`kevent_returns`). `clean` is TRUE while no
  deletion has failed, every failed change found room in `kevents1`, and nobody was
  interrupted when a result for it already stood there: behind such a step the code
  loses its bookkeeping (section 5), and behaviours are followed only up to it.
  `clash` are the events two threads asked for at once. Nobody calls `mnthr_shutdown`,
  which ends this loop at its next round whoever waits (`kevent_poller.c:624`).
* **Transfer** - the calls made of waits and non-blocking system calls, by one
  thread, one at a time, every wait and every system call a step. Bytes and
  connections are numbered in order of arrival, so a lost, repeated or reordered one
  shows. Others act between any two steps: `arrive`, `peer_close`, `steal`,
  `drain`, `fill`. A wait returns what the event announced (kqueue) or what there
  is now or a constant (libev), so both pollers are covered by `Announced`. `taken`
  is history.

Operators introduced by a comment that begins with *Wrong:* are plausible mistakes
in the operation that follows them. No specification uses them; put in place of
the operation, each makes TLC report the property it belongs to, which shows that
the property can fail. `PROJECT.json` pairs them.

## 3. The runs

| run | instance | shows |
|---|---|---|
| `sleepq` | 4 contexts, clock 2..4 | the four parts of the invariant of the sleep queue; it implements TimerMap |
| `sched_core` | 3 contexts, 3 threads ever, clock 2..4 | nothing cut: without interrupts and timed waits the staged race cannot happen (`UsesSleepQueue`), nobody is run twice in a walk, run when dormant, or woken early; sleeping, joining, priorities, the condition and the event together |
| `sched_reuse` | 3 contexts, 3 threads ever, interrupts, `mnthr_peek`, `mnthr_new_sig`, `mnthr_gc`; the staged races cut | free list exact but for what the collection leaves behind, nobody is lost, held contexts keep their code |
| `sched_timed` | 3 contexts, 4 threads ever, one timeout, exits with `EINTR`, `mnthr_gc` | nothing cut: the waits with a timeout against the exit of the target (also when the walk holds the waiter already), its interruption, the reuse and the collection of its context; the code they return |
| `sched_live` | 3 contexts, fair, shutdown at any time | scheduled threads run, an exit resumes all joiners, a shutdown ends the loop |
| `sema` | 4 threads, 2 units, interrupts, fini | exact count; no lost wakeup and waiters woken until somebody is interrupted |
| `isema_one` | 4 threads, n = 3, one waiter | the acquire that fills it wakes the waiter |
| `rwlock` | 3 threads, interrupts, fini | exclusion; no lost wakeup and readers woken until somebody is interrupted |
| `io` | 3 threads, 2 descriptors shared by two each, a path that is made and destroyed; one thread interrupted, one resumed out of its waits | a descriptor is given up on every path; the callbacks' assertions hold; waits nobody else disturbs end |
| `kevent` | 3 threads, 2 descriptors, one of them shared by two threads and closed and opened again, one thread interrupted, one in `mnthr_wait_for_events` | no wait is lost between change list, kernel and results; a result finds the wait it belongs to; the walk finds no waiter; the loop does not end under one |
| `transfer` | 3 bytes or connections, sizes up to 2, 2 bytes of room, a file of 2 bytes, 2 addresses | nothing lost or out of bounds, sent exactly once, no descriptor leaked, no wait with data in hand, calls end |

The run `sched_dormant` ends in a violation and is the subject of section 5.

### Bounds

Three contexts give one that waits, one that is waited for and one that
interferes (reuses, interrupts, signals); `MaxId` is 3 or 4, so that a context is
reused while another is still held or joined. Two threads can share a bucket while the third is
its host. The clock has two ticks after the start, so two different deadlines can
lie between two walks. `MaxId` bounds the number of threads ever
created and `MaxNow` the clock; a thread only asks for a deadline before `MaxNow`,
so that no sleep is cut off by the bound. The semaphore has more threads than
units, so at least two wait while others barge in. Runs with
`CHECK_DEADLOCK FALSE` are those in which the program may stop: every thread has
exited, waits for something nobody will do, or the model has recorded a fault.

`StagedRace = FALSE` (run `sched_reuse`) cuts the behaviours in which a thread on
the walk's lists is scheduled again. They are real behaviours of the code and the
subject of `sched_dormant`: such a thread has two entries, runs through the first, and
what is true of the lists, of the free list and of who can be reached is not true after
that. All other runs cut nothing; `sched_core` shows that without interrupts and timed
waits the races do not occur.

`sched_timed` has four threads, so that a context is given to another thread between the
exit of the target and the return of the waiter: with three, a code that looked at the
state of the context alone would pass. Its waits are `mnthr_wait_for` and
`mnthr_set_interrupt_and_join_with_timeout`; with `mnthr_peek` as well the instance has
more states than can be searched, and the theorem covers it. `WaitReturnsCode` is
stated for as long as the context of the target has not been given to another thread
(section 5). That is said with `last`, the thread a context was last given to, and not
with `co.id`: a context may be reused by a thread that exits before the waiter runs, and
then `co.id` is -1 as if it had not been.

`NoEarlyWake` is checked without interrupts and timed waits. A thread that was
interrupted out of `mnthr_join` stays in the wait queue of its old target, and when that
exits, a later sleep of the thread ends early: that is what the code does (neither
`join_waitq` nor `mnthr_set_interrupt` unlinks it). For the same reason nothing says
that a timed wait does not end before its time. `sched_live` has no `mnthr_yield`: its
threads reschedule themselves by sleeping, up to the clock's bound, and each other by
exits.

The history variable `intr` of CondVar says that somebody was interrupted. A thread
that was signalled and is then interrupted before it runs returns the error and does
not pass the signal on (`mnthr.c:2436`), so `NoLostWakeup`, `NoLostRelease`,
`WaiterWoken` and `ReaderWoken` speak of behaviours up to the first interrupt; `Counted`, `Exclusion`,
`ReadersWaitForWriter` and `WaitersQueued` hold with interrupts. In EvPoller
`Interruptible` and `Resumable` say to whom others do what, so that one instance has
threads whose waits are disturbed and threads whose waits are not.

KeventPoller bounds `event_count` by `MaxCount` = 2 in both directions: a wait for
both directions of a descriptor, or two waits, are registered at once, and a third
thread acts. Transfer: a size of 2 against 2 bytes of room and one `fill` gives
short writes and refusals at every point; three items that arrive are more than any
size; `MaxFails` bounds how often one `mnthr_sendfile` is refused, which the code
does not bound (it calls again at once, and each refusal adds one byte to what is
left). Its calls can always go on, so deadlock is checked there.

The types of the variables (`TypeOK` of each module) are proved for every module.

### Fairness

* Scheduler: weak fairness of the poller, of calls under way and of switching
  calls - the loop turns, and a cooperative thread yields at last - and strong
  fairness of a clock that advances, since libev's `ev_now` does.
* Semaphore, RWLock: a scheduled thread goes on (the scheduler's `ScheduledRuns`),
  and a holder releases, which is the application's part.
* EvPoller: strong fairness of every watcher and every scheduled thread - each is
  possible only between slices, and a round of the loop serves all of them - and
  a running thread yields.
* Transfer: the thread takes its next step when it can (`ScheduledRuns` and
  `WaitEnds` of the layers below), the peer reads what it is sent and closes in
  the end. Without the last two no blocking call need return.

## 4. What is proved

For every set of contexts or threads, every clock, every size and every `N`: all of the
28 invariants the runs check, and all of the safety properties that are
no invariants (`HeldKeepsCode`, `NoEarlyWake`, `UsesSleepQueue`, `IsTimerMap`,
`SuccessIsAnEvent`). Each inductive invariant below was checked by TLC on an instance of its run
before it was proved.

* **DTQueueProofs** has the lemmas on queues: what enqueue, remove and the tail hold,
  that they keep elements distinct.
* **SleepQueueProofs**: `SQInv`, the conjunction of `SQTypeOK`, `KeyIsExpire`,
  `PlacedOnce`, `OnlyHostsHaveBuckets` and `ExpireIsPlaced`, is inductive, hence
  an invariant. None of the parts is inductive alone: `sleepq_remove` finds a
  context only if `KeyIsExpire` and `ExpireIsPlaced` hold; promoting the first
  member of a bucket keeps `KeyIsExpire` only if `PlacedOnce` says that it is not
  a host elsewhere, and keeps `PlacedOnce` only if its own bucket is empty, which
  is `OnlyHostsHaveBuckets`. The proof states the effect of remove and enqueue as
  lemmas on the record `sq` (`GoodNow` is the invariant of the record apart from
  the walk), then goes action by action. Its second part is the refinement: every
  step of SleepQueue is a step of TimerMap or a stutter under the mapping
  `line[k]` = host of `k` followed by its bucket, `batches` = the hosts on `runq`
  with their buckets, `current` = `tmp`.
* **SchedulerProofs**, in three layers.
  1. `BaseInv` (types, who runs, what a timed wait waits in, wait queues and
     `hosting_waitq`) needs no hypothesis: `WaitqConsistent` and `HeldKeepsCode` hold
     in every instance, up to the step that ends in a fault.
  2. `TameInv` says for each state of a context where it is linked: in the sleep queue
     with which `expire_ticks` (`Idle`, `Accounted`), on the walk's lists
     (`StagedDue`, `Slices`), as the subscriber (`Subscriber`), on `free_list` or
     behind (`Pools`, `Retired`). It contains `SQInv`: the step of SleepQueue that each action
     takes is allowed there because what is scheduled is not staged, and that is so
     because of the rest of `TameInv`. So `UsesSleepQueue`, and with it all that is
     proved of the sleep queue (in particular `IsTimerMap`, theorem
     `SchedulerIsTimerMap`), and `ResumesResumable`, `SingleSlice`,
     `NoLostThread` and `FreeListExact` come out of one induction. So does
     `SchedulerListsSound`: no list is modified through a link the walk is using
     (`fault` is never "list"), because every context that is scheduled is outside
     of the walk's lists (`PutsNoFault`). The hypothesis is
     `Tame`: either the staged races are cut (as in `sched_reuse`), or the
     application makes none of the calls that can cause one (`PlainCalls`, as in
     `sched_core`). It is needed: `sched_dormant` violates
     `ResumesResumable` without it. `NoEarlyWake` is proved under `PlainCalls`
     alone; with interrupts it is false (section 3, Bounds).
  3. `WaitInv` says what a timed wait can know when it returns, and needs neither
     `Tame` nor anything else of layer 2: in the staged races a thread may have two
     entries, run early, or be finalized with an entry left over, and the wait still
     tells a timeout from an exit. While a context is finalized no thread runs
     (`Ending`), thread ids grow (`Recent`), and so a wait whose target was finalized
     finds another id there for ever, and one whose target was not finds a live thread
     with the id it remembers (`Started`, `Told`). The code returned stays in `co.rc` from
     the exit until the context is given away or freed (`Told`), which rests on the free
     list and the collection taking only contexts that are no threads (`Pooled`) and on
     the lists of the sleep queue leading to allocated contexts only (`Allocated`). It gives `TimedWaitTellsTrue` and `WaitReturnsCode` for applications
     that start threads as they make them (`Spawned`). That hypothesis is needed:
     `mnthr_peek` at a thread that `mnthr_new` made and nobody has run yet finds it
     dormant when it times out, takes it for one that has exited, and returns 0.
* **CondVarProofs** has the facts on the wait queue that the primitives use, among
  them `QuietQueue`: until somebody is interrupted, the queue holds waiting threads
  only, so no signal is spent on a thread that has gone on.
* **PrimitivesProofs**. Semaphore: `SemaInv` = queue facts, types, "who waits holds
  nothing" and `Counted`, with interrupts and destruction at any time. `NoLostWakeup`
  follows with `QuietQueue`, by counting the scheduled threads: a release adds a unit
  and a scheduled thread, or finds the queue empty; whoever takes a unit without
  having been scheduled takes one away on the other side of the inequality. For the
  inverted semaphore `ISInv` (only the waiters are ever in the queue, `i` counts who
  has acquired) gives `FilledWakes` for one waiting thread; with two it is false, as an
  acquire wakes one only. Lock: `RWInv` likewise with `Exclusion`; from it
  `ReadersWaitForWriter`, and with `QuietQueue` `NoLostRelease`. Then the two
  refinements, action by action: every step of Semaphore is `Share`, `Unshare` or a
  stutter of SharedLock (`SemaphoreSharesUnits`), every step of RWLock a step of it or a
  stutter (`RWLockSharesAccess`). `Counted` and `Exclusion` are what they need: the code looks
  at its own count, SharedLock at who is in.
* **EvPollerProofs**: `EvInv` ties the three references between threads and items
  together (`wait`, `pdata`, `data`): a descriptor is carried by exactly the thread
  that waits for it (`IoOwned`), and only an interrupt schedules a thread in a wait
  (`DueIsInterrupted`). It holds whatever the application does and gives
  `SuccessIsAnEvent`. `AssertionsHold` needs `StatUsersLeftAlone` (nobody interrupts or
  resumes the threads that wait for paths, since `mnthr_stat_wait` does not give the
  item up on its error path), `WaiterReachable` needs `StatUsersAlone` (each path has
  one user, since `mnthr_stat_destroy` does not look for waiters). The run `io`
  satisfies both; nothing is assumed of descriptors.
* **TransferProofs**: `TransferInv` says what room a call has left, what it may hold
  between two steps and which prefix it has sent, and with that `NothingLost`,
  `WaitsEmptyHanded`, `SentExactly` and `SocketReady`.
* **KeventPollerProofs**: `Inv` = types, who runs in which part of the loop (`Shape`),
  `NoFail`, and, while `clean`, `Good`, which follows a wait through its three homes.
  In the change list: every addition is deleted behind it or its thread still waits for
  the event, and it is the thread's last (`AddsAwaited`). In the kernel: a knote's
  thread waits for the event or the list names the event (`KnotesAwaited`), and a closed
  descriptor has none (`ClosedForgotten`). Among the results: while the changes are
  taken, each is a failed addition whose thread still waits, or a deletion of it is
  still to fail (`FailedOK`); then each finds its thread waiting, and no other is for
  that thread (`ResultsOK`). `ResultsOK` alone is not inductive: that a result of an
  earlier wait cannot turn up comes from `AddsAwaited` and `KnotesAwaited` at the moment
  `kevent()` returns, when the list is empty, and from `Coupled`, which says what `state`,
  `call`, `rc`, `due` and `runq` of a thread say about each other. `Reached` turns
  `WaiterReachable` around: a lone waiter will be registered once the list has been taken
  (`Claimed`) or be told of the failure (`Refused`); with "is in the list" in place of
  "will be registered" a deletion behind the addition would break it. `CountOK` bounds
  `event_count` from below by the cardinality of waits, registrations and results
  together; the bound is over the union, because one event is all three in turn, and a
  `clash` makes two waits share one registration. It gives `LoopServesWaiters`, for
  the threads in `mnthr_wait_for_events` too. From the same invariant an action
  property, `KeventWaitEndsByItsEvent`: a wait for one event ends by a result for that
  event, whose code the thread is given, or by an interrupt, and by nothing else.

The assumptions are the named `ASSUME`s of the modules (null pointers are no
contexts, the clock starts after `MNTHR_SLEEP_RESUME_NOW` and stays below
`MNTHR_SLEEP_FOREVER`, the sets of threads of the primitives and of threads and
descriptors of KeventPoller are finite, sizes are positive) and, where a theorem says so, the hypotheses on the application named above.

Model-checked only is liveness (`ScheduledRuns`, `ExitResumesJoiners`, `ShutdownEnds`,
`WaiterWoken`, `ReaderWoken`, `WaitEnds`, `CallEnds`): it rests on fairness and ENABLED,
which are out of the prover's reach. The proofs of the kqueue poller follow the code up
to the first failed deletion, as the run does, and say nothing of what comes after.

## 5. Where code and comments disagree

`sched_dormant` ends in a violation: `poller_resume` is handed a dormant context,
which `poller.c:40` says cannot be; the quote is in `PROJECT.json`. A thread that the
walk has taken onto its lists is scheduled a second time. It runs through the first
entry and exits; the next walk meets the second one, in the trie under
`MNTHR_SLEEP_RESUME_NOW`, and its context is dormant. It is finalized again and pushed to
`free_list` a second time. Without the cut of `sched_reuse`, `NoLostThread` fails too: in
these races a thread can become unreachable.

The model also shows the following behaviour. It is part of the modules, has no run of
its own, and is listed under `hazards`. Four of these are ruled out by comments:

* `mnthr_wait_for` and `mnthr_peek` read `co.rc` of the context after the switch
  (`mnthr.c:2703`): when it was given to another thread meanwhile, they may return that
  thread's code, although `mnthr.c:2658` promises the code of the thread waited for;
  when `mnthr_gc` freed it, they read freed memory (fault "freed");
* a timeout of `mnthr_signal_subscribe_with_timeout` is not reported: the walk has
  reset `expire_ticks`, by which the call tells (`mnthr.c:2313`, action
  `subscribe_return`); `mnthr_private.h:158` documents `MNTHR_WAIT_TIMEOUT`;
* an exit with `errno` at `EINTR` is lost: the context stays RESUMED, its joiners
  wait (`poller.c:71`, action `ExitEINTR`), although `mnthr.c:896-898` says that it is
  reclaimed as soon as the worker function returns;
* a waiter with a timeout that the walk holds already, and whose target exits then, has
  two entries. The wait itself tells the truth (`TimedWaitTellsTrue`), but the second
  entry can end the thread's next `mnthr_wait_for` or `mnthr_peek` before its interval
  is over (against `mnthr.c:2654`).

The others are ruled out by no comment, or by the code's own assertions only:

* `mnthr_gc` loses all held contexts but the first (`mnthr.c:884`);
* a waiter interrupted out of `mnthr_cond_wait` that signals the same condition is
  handed to `set_resume` and fails `assert(ctx != me)` (`mnthr.c:1433`);
* waiters woken by `mnthr_sema_fini` fail the assertion behind their loop
  (`mnthr.c:2439`), and a full inverted semaphore accepts one more and fails the
  next assertion (`mnthr.c:2499`);
* a failed `mnthr_stat_wait` keeps the item (`ev_poller.c:365`); when the thread was
  resumed otherwise, the watcher later fires for a thread that has moved on;
* an interrupt of a thread that was turned away from a watcher stops that watcher
  for the thread that waits (`ev_poller.c:522`): `WaiterReachable` and `WaitEnds`
  leave out waits for items an interruptible thread shares (`Undisturbed`);
* a thread whose failed `mnthr_stat_wait` left `pdata.ev` behind, which destroys the
  item and is interrupted, has the freed item looked at (`ev_poller.c:330`, `469`);
* kqueue: a thread interrupted while its result stands in `kevents1` is counted
  down twice and resumed twice; a deletion that fails, because the descriptor was
  closed, resumes the thread in whatever call it is in with `MNTHR_CO_RC_POLLER`;
  more failed changes than `event_max` end the loop; a second thread on the same
  event silently replaces the first (`clash`), where the libev poller refuses it;
  `mnthr_wait_for_events` leaves the event that did not happen registered, and when
  both happen at once the thread is resumed for the second while the walk is still
  to resume it for the first - hence the exception for `Selectors`;
* `mnthr_sendfile` counts a refusal as minus one byte sent, so it sends one byte too
  many for each (`again`), and does not return when its descriptor is broken
  (`sendfile_error`);
* a failed write makes the bytestream adapter move `pos` by the error code
  (`FailedPos`), and a successful one leaves `pos` alone, as `mnthr_write_all`
  returns 0;
* the default build defines `NDEBUG` (`Makefile.am:34`), so the assertions
  whose failure ends a behaviour here are not evaluated there, and the program goes
  on in the state they would have reported.

## 6. Abstractions worth knowing

* `co.f = NULL` and `co.id = -1` always change together: the model has `id` only.
* `assert(me->hosting_waitq = waitq)` (`mnthr.c:1311`, `1347`, `1362`) is an
  assignment; the field is set to NULL two lines later, so it has no effect here.
* Return codes are small integers; in the pollers the lengths returned by the waits
  are left out, so `mnthr_get_rbuflen`, `mnthr_get_wbuflen` and the
  `mnthr_wait_for_*` are one action. Transfer has the lengths.
* In KeventPoller a wait for a path is a wait for one event of a descriptor like any
  other; what it reports (`fflags`) is left out, and with it the `FAIL("mnthr_loop")` for
  a result of an earlier wait for a path that meets its thread in
  `mnthr_wait_for_events` (`kevent_poller.c:792`; it concerns `Selectors` only). The walk takes an arbitrary set of
  the sleeping threads for expired, and nobody interrupts a thread the walk holds,
  which is Scheduler's subject.
* In Transfer `mnthr_recv_allb` and `mnthr_recvfrom_allb` are `mnthr_read_allb`, and
  `mnthr_send_all` and `mnthr_sendto_all` are `mnthr_write_all`, which they repeat.
  `FIONREAD` counts connections there; on Linux it fails for a listening socket, and
  `mnthr_accept_all` with it (`Refused`).
  Descriptors are streams: of a datagram, `mnthr_recvfrom_allb` drops what is beyond the
  size asked for (`mnthr.c:2029-2031`), so `NothingLost` says nothing about datagram
  sockets. `sendfile` is the call of a build without `HAVE_SF_HDTR` (`mnthr.c:2234`); in the
  two others (`mnthr.c:2240`, `2243`) it returns 0 when it succeeds and does not advance
  `*offset`, so the loop ends after the first one, whatever was sent.
* A timed wait asks for at least one tick and not for ever (`Deadline`): a timeout of 0,
  which schedules the caller at once, and one of `MNTHR_SLEEP_FOREVER` are left out
  (for a sleep they are `mnthr_yield` and `mnthr_giveup`, which are modelled).
* A destroyed lock is not asked for again; a thread woken by `mnthr_rwlock_fini`
  takes it and releases it.
* An error of `swapcontext` and failing allocations end the program and are left out.
* In EvPoller `mnthr_sleep` stands for any wait that ends by itself, and
  `set_resume` for a wake-up through a wait queue the thread was interrupted out of.

## 7. The source's lines

`map` in `PROJECT.json` names, for every definition that models code, the lines it
stands for.

## 8. Not modelled, and the plan

Not modelled:

* `mnthr_sendfile_np`: the arguments and results of `sendfile` differ between the
  three platforms it is written for, and the loop with them;
* `mnthr_init`, `mnthr_fini`, `poller_init`, `poller_fini`: allocation before and
  release after the loop (`mnthr_fini` is listed as a hazard);
* the tick conversions at 64 bits (`ev_poller.c:388-458`): TLC's integers have 32;
* the mask `mnthr_wait_for_events` reports in the libev poller;
* `kevent_util.c`: printing and unused wrappers;
* diagnostics, profiling, traces, `ucontext` and stacks: no state the properties
  see.

Done: sleep queue, scheduler with collection and shutdown, primitives, waits of both
pollers, descriptor helpers; proofs of the safety properties of all of them.
Left for later:

1. An abstract module of waits ("one owner per event") that EvPoller, and
   KeventPoller while it is clean, implement.
2. `WaitReturnsCode` for applications that use `mnthr_new` and `mnthr_run` apart, which
   needs a code for "not started yet" that the source does not have.
