# SlimCommonIo: a TLA+ verification of the io_uring library

SlimCommonIo is a C++20 coroutine library on Linux io_uring. This project models all of it in TLA+, from the
submission ring and the coroutine frames to the event loop, the multi-threaded runtime and the programs the
repository runs on them, model-checks it with TLC and proves its central properties with TLAPS.
Paths below are relative to the repository.

## 1. The system and what is hard about it

| Part | Source | State | Operations |
|---|---|---|---|
| `IO` | `src/io.cpp`, `include/slim/common/io.h.in` | ring fd, three mappings, pointers into them | constructor with five ways to fail, destructor |
| `Awaitable` | `src/awaitable.cpp`, `awaitable.h.in` | `result`, `handle`, optional timeout; the thread-local `tl_sq_full` | `with_timeout`, `await_suspend` (`has_capacity`, `commit_one`), `await_resume`, `take_pending_sq_error` |
| Operations | `src/operations.cpp`, `operations.h.in` | arguments | ten `prepare()`s |
| `Task` | `task.h.in` | frame, continuation, stored exception | resume, final suspend with symmetric transfer, move, destroy, `co_await` |
| `Scheduler` | `src/scheduler.cpp`, `scheduler.h.in` | `inbox_`, `tasks_`, `eventfd_armed_`, `shutting_down_`, the eventfd | `post`, `spawn`, `run`, `shutdown`, destructor; inside: `drain`, `drain_inbox`, `arm_eventfd_read`, `reap` |
| `Runtime` | `src/runtime.cpp`, `runtime.h.in` | `state_`, `next_worker_`, a dispatcher and N workers, each a `Scheduler` with its thread | `start`, `stop`, `post`, destructor |

How they interact. Any thread calls `post()`: the callable goes into `inbox_` under a mutex and 1 is
written to the eventfd. One thread drives the scheduler. Its `drain()` keeps a read of the eventfd in
flight on the ring, submits every staged SQE (submission queue entry) with one `io_uring_enter`,
sleeps there until a CQE (completion queue entry) arrives, and handles each CQE: the eventfd's by running
the inbox, an operation's by resuming the coroutine that awaits it. A resumed coroutine runs to its
next `co_await`, whose `await_suspend` stages the next SQE. `reap()` destroys finished coroutines.
`Runtime` runs one such scheduler as a dispatcher and one per worker and hands jobs round.

The hard behaviours, each an entry of `hazards` in `PROJECT.json`:

* wake-ups: push and eventfd write are two steps, and so are requeue and poke; a stop may be requested
  before the callback is registered, between the loop test and the system call, or during exit; the
  eventfd read must be outstanding whenever the runner sleeps;
* the full ring: `spawn()` throws `SQFull` before `resume()` or after it, a `co_await` resumed by
  `drain()` is skipped, `arm_eventfd_read()` does not ask for room;
* failures: `io_uring_enter` fails or is interrupted and its result is ignored, the eventfd read
  completes with an error, the eventfd counter is at its limit, `tasks_` cannot grow;
* life cycle: stop, shutdown, restart and destruction in any legal order, with work outstanding; a `start()` that
  fails half-way because a thread cannot be created;
* hand-over: jobs travel from the caller through the dispatcher to a worker while either is being stopped;
* nested coroutines: who resumes whom, where an exception goes, which frame a destroyed Task takes with it, and a
  thread-local error flag shared by every `spawn()` on the thread;
* the ring: indices that wrap at 2^32, linked pairs of SQEs, sizes the kernel rounds, a constructor that may fail at
  five places;
* programs: locals that jobs refer to, deadlines that pass while jobs run.

What should hold of each part: of `Scheduler`, that no wake-up is lost, that every callable is in exactly
one place and served in order, that a suspended coroutine's operation is somewhere on its way, that no
operation outlives its frame, that stop and shutdown end; of the submission queue, that staging never
overwrites; of `Task`, that a result or exception reaches the awaiting frame exactly once and no frame is
resumed after its end; of `Runtime`, that every job is handed to exactly one worker, in turn, that no thread
outlives `stop()` or the destructor and that one thread at a time drives a scheduler; of `IO`, that every path releases exactly what it acquired.

## 2. Modules

From the bottom up; an arrow reads "implements" and is checked by TLC and proved.

| Module | What it is |
|---|---|
| `SubmissionQueue` | the submission queue as operators on the sequence of staged SQEs: `HasCapacity`, `Commit` (on a full ring a commit overwrites the oldest), `Stage` (`await_suspend` with one slot or two), `Arm` (`arm_eventfd_read()`), and what one `io_uring_enter` consumes |
| `StagedQueue` | those operators as an abstract specification |
| `SqRing` → `StagedQueue` | the ring itself: free-running indices modulo `Modulus`, masked slots, unsigned subtraction |
| `IoLifetime` | `IO::IO`, `Scheduler::Scheduler` and their destructors, composed with `SqRing` |
| `Operations` | the ten `prepare()`s, `with_timeout`, and (external) the kernel that completes such requests |
| `TaskFrames` | coroutine frames: what a `Task` owns, destroys and returns, where a frame goes when it ends |
| `Coroutines` | the coroutines at work: `Task`, `Awaitable`, `spawn`, `drain`, `reap`, `shutdown`, over `TaskFrames`, `Operations`, `SubmissionQueue` and `Queues` |
| `TestPrograms` | the programs `Coroutines` runs: 51 of the repository's tests, and two generated families |
| `EventLoop` | what a scheduler promises of the callables handed to it, as an abstract specification |
| `Scheduler` → `EventLoop` | the scheduler, its threads and the kernel, over `SubmissionQueue` |
| `Runtime` → `EventLoop` for each of its schedulers | the dispatcher, the workers, their threads, the owner and the clients |
| `Clients` | three whole programs around a `Runtime` |
| `Queues`, `Lemmas` | elements and uniqueness of queues; lemmas on queues and on modular arithmetic |
| `MCScheduler`, `MCRuntime` | instances for TLC |
| `SchedulerProofs`, `FrameProofs`, `RuntimeProofs`, `ClientsProofs`, `RingProofs`, `TaskFramesProofs`, `CoroutinesProofs` | theorems and proofs |

### Scheduler: state and actions

`inbox`, `tasks`, `eventfd_armed`, `shutting_down` are the members of the class. `pc` says where the driving
thread is (`check` the loop test, `drain` before `io_uring_enter`, `wait` inside it, `cqe` in the loop over
completions, `inbox` and `poke` inside `drain_inbox()`), `mode` which function drives (`run()`, `shutdown()`,
the destructor), `local` is `drain_inbox()`'s queue, `batch` how many of the completions it saw `drain()` has
still to handle. `sq` is the staged part of the submission queue, `inflight`, `timers` and `reads` what the kernel
works on, `cq` the completion queue with the kernel's overflow backlog behind it, `efd` the eventfd counter,
`stop` the state of the stop token and its callback. `finished`, `dropped`, `skipped`, `orphaned` and
`overwritten` are history: no action reads them.

A *job* is a callable whose body is `scheduler.spawn(coroutine())`, the form every test and example uses. Of the
coroutine the model keeps `Awaits[j]`, the number of SQEs each `co_await` stages (2 after `with_timeout()`),
`at[j]`, the `co_await` its frame is suspended at, and `started[j]`, how often it was created and resumed: an
operation is named by job and start, so that a completion for a destroyed frame is told apart from one for its
successor. What a coroutine computes and what its operations transfer are left out.

| Action | Code |
|---|---|
| `PostPush`, `PostWrite` | `post()`, either side of the unlock; `PostWrite` fails at the counter's limit |
| `Start`, `RequestStop`, `StopCallback`, `Register` | creation of the jthread, `request_stop()`, the callback it calls, `run()` registering it (and calling it at once if the stop came first) |
| `Shutdown`, `Destroy`, `CheckRun`, `CheckShutdown` | entry and loop tests of `shutdown()`, `~Scheduler`, `run()` |
| `DrainEnter`, `DrainEnterFails` | `drain()` up to and including the submission; `ArmIfNeeded` is `arm_eventfd_read()` |
| `WaitReturns`, `WaitInterrupted` | the end of the wait, and the loads of `cq.head` and `cq.tail` |
| `CqeEventfd`, `CqeNull`, `CqeOp`, `CqeDangling` | one turn of the loop over completions; `CqeDangling` resumes a destroyed frame: undefined, and the model stops |
| `InboxSpawned`, `InboxRequeue`, `InboxPoke`, `InboxDropped`, `InboxDone` | one turn of `drain_inbox()`'s loop, by what `spawn()` does |
| `DirectSpawn` | `spawn()` called by the owner between runs |
| `Reap` | `reap()` |
| `EfdReadCompletes`, `EfdReadFails`, `OpCompletes`, `TimerCompletes` | the kernel (external) |

`spawn()` is `SqFull` (the throw before `resume()`), `Spawned`, or `SpawnThrowsLate` (the side channel's
`SQFull`, or `BadAllocation`). A resumed frame runs to the first `co_await` the ring has room for
(`SuspendsAt`); those it passes returned `false` from `await_suspend`.

Steps of the driving thread that touch nothing another thread or the kernel sees are one action with the step
they precede. Handling a CQE takes it off the queue at once although the code moves `cq.head` after the handler:
only the kernel reads it, to find room, and the backlog is part of `cq`. 
`io_uring_enter` takes every SQE it is offered (`DrainEnter`) or none (`DrainEnterFails`). A kernel that runs short may take only
the first ones; it then returns without waiting, as after `WaitInterrupted`, and leaves the others staged, as after `DrainEnterFails`,
and has no action of its own.

### Runtime: state and actions

`state` and `next_worker` are the members. `Loops` are the schedulers, `0 .. N-1` the workers and `N` the
dispatcher; each has `runner` (its jthread: none, running `run()`, or returned and not yet joined), `stopping` (its
stop token), `inbox`, `local` (the queue of a `drain_inbox()` under way) and `tasks`. `call`, `step` and `phase` are the
owner's program counter: the member function, how many schedulers it has dealt with, and where it is in stopping one
(request, join, shutdown). `sent`, `finished` and `dropped` are history; `home[j]` is the scheduler a job was last given to.

| Action | Code |
|---|---|
| `Post` | `post()`: the callable goes to the dispatcher's inbox, in every state |
| `Start`, `StartLoop`, `StartFails` | `start()`: guard, one jthread after the other, a throwing jthread constructor |
| `ReplaceLoop` | assignment to a jthread that still runs, after an earlier `start()` failed: two threads in one `Scheduler`, undefined, and the model stops |
| `Stop`, `Destroy` | entry of `stop()` and of the destructor; members are destroyed after the destructor's `stop()` |
| `RequestStop`, `Join`, `ShutdownReturns` | the three steps of stopping one scheduler: dispatcher first in `stop()`, workers first when members are destroyed |
| `TakeInbox`, `Dispatch` | `drain_inbox()` swaps its inbox out; the dispatcher's callable picks a worker and posts to it |
| `Accept`, `Requeue`, `Drop` | a worker calls a job whose `spawn()` succeeds, throws `SQFull`, or throws something else |
| `Finish`, `RunReturns` | `reap()`; `run()`'s loop test after a stop |

Each scheduler is reduced to its queues. What justifies it: the reduction and `Scheduler` implement one and the same
specification, `EventLoop` (theorems `SchedulerIsEventLoop` and `RuntimeOfEventLoops`), and a non-empty inbox of a
running scheduler is served (`NoLostWakeup`, `JobsComplete`). Failures inside a scheduler that its own runs show (a
lost operation, a second start after a late `SQFull`) are not repeated here.

### EventLoop

A queue of callables, the coroutines that are owned and the callables that are over. A callable is handed over once;
the first of the queue is called and leaves a coroutine, nothing, or itself at the end of the queue (the retry of
`drain_inbox()`); a coroutine ends. `Scheduler` maps `drain_inbox()`'s queue followed by the inbox to the queue, `tasks` to the owned ones, `finished` and `dropped` to those over.

### SqRing and IoLifetime

`SqRing` has `head`, `tail` and the slots; `Staged`, the SQEs from head to tail, is the refinement mapping. `RStage`,
`RArm` and `REnter` are `await_suspend`, `arm_eventfd_read()` and the submission; what the kernel took is observable, so
that the refinement also says in which order SQEs are taken.

`IoLifetime` makes and destroys an `IO` and its `Scheduler` again and again. `phase` is the constructor's next step, `io`
says which resource each member names (`cq` may name the submission ring's), `size` the mapped sizes, `live` what the
process holds; `bad` records a release of something not held. Each step has its failure (`SetupFails`, `MapSqFails`,
`MapSqesFails`, `MapCqFails`, `EventfdFails`) with exactly the releases of that error path. Sizes are in words of 4
bytes; rounding, clamping and the layout of the shared memory are the kernel's (external).

### Operations, Coroutines and TestPrograms

A program is a main function and the coroutines it spawns, as sequences of statements (`Await`, `Call` for `co_await` of a
Task, `Spawn`, `Throw`, `Return`, ...). One thread runs it; the kernel completes requests in any order. A frame has its
statement, its continuation (`cont`), the Task its current `co_await` owns (`child`), its stored exception and value and its
state (initial, started, final, freed). `calls` is the stack of `resume()` calls (`spawn` within `spawn` included), `cur` the
frame whose code runs.

| Action | Code |
|---|---|
| `Suspend`, `Refuse` | `Awaitable::await_suspend`, with and without room |
| `CoAwait`, `AwaitResume`, `Plain` | `Task::await_suspend`; `await_resume`/`result()` and the end of the full expression; the body's end through `FinalAwaiter` |
| `SpawnFull`, `SpawnResume`, `SpawnLateThrow`, `SpawnPush` | `spawn()`: the throw before `resume()`, the resume, the throw after it, `push_back` |
| `MakeTask`, `MoveTask`, `ResumeTask`, `AskDone`, `AskResult` | a Task driven by hand |
| `BeginShutdown`, `DrainEnter`, `WaitReturns`, `CqeSkipped`, `CqeResume`, `DrainReturned`, `Reap` | `shutdown()`, `drain()` and `reap()`, one resume at a time |
| `Complete`, `TimeOut`, `Connector` | the kernel and a connecting thread (external) |

A request keeps what its result depends on: descriptor, buffer or path, length modulo `LenMod`, mask, timeout. The
kernel has a table of descriptors and one of files, enough for every result the programs test for.
Nothing is posted here and the eventfd read never completes: `Scheduler` has that half.

### Clients

`Clients` extends `Runtime` with a main thread: construct and start, post, wait for the counter, stop, check, destroy; or
destroy when a deadline passes first. A job's coroutine counts itself (`Count`) one step before `reap()` may find it ended
(`Reaped`), which is the window in which `stop()` is called.

## 3. Runs

| Run | Result | Question |
|---|---|---|
| `light` | pass | Room to spare, two runs, all faults: `NoLostWakeup`, `QuiescentWhenDestroyed`, and that `Scheduler` implements `EventLoop` (`IsEventLoop`) |
| `overload` | pass | A ring of two slots, a timed coroutine, retries: `OneHome`, `WakeInv` (which implies `NoLostWakeup`), and that only arming on a full ring loses an operation (`OnlyArmingLoses`) and only a throw after `resume()` leaves one dangling (`OnlyLateThrowDangles`) |
| `live` | pass | `StopEndsRun`, `JobsComplete`, `ShutdownReturns` under fairness |
| `exhausted_ring` | violation | `ShutdownReturns` on a full ring |
| `late_sqfull` | violation | `StartedOnce`: a retried callable has not run |
| `bad_alloc` | violation | `NeverResumesFreed`: a failed spawn does not crash the thread |
| `silent_skip` | violation | `NoSilentSkip`: a full ring met mid-coroutine is caught |
| `rt_restart` | pass | Two workers, four jobs, two starts: `OneWorker` (no job lost or given twice), `RoundRobin`, `DispatcherInside`, `QuietWhenStopped`, `OneDriver`, and that every scheduler implements `EventLoop` (`EventLoops`) |
| `rt_live` | pass | Threads that cannot be created, and retries: `LifecycleInv`, `QuietWhenGone` after the destructor, and `JobsRun` and `CallsReturn` under fairness |
| `clients` | pass | Whole programs: `ChecksHold`, `LocalsOutliveJobs`, `TestsEnd` |
| `ring` | pass | Constructors with every failure, the ring with wrapping indices: `ReleasedOnce`, `MappingsCover`, `RingSizes`, and that the ring implements the queue (`RingIsQueue`) |
| `programs` | pass | Coroutine programs: `TestsPass`, `ProgramsEnd`, `OutcomesExact` (values and exceptions of nested Tasks), `HandlesLive` (no Task or continuation handle dangles), `OneReasonToWait`, `FlagConsumed`, `OnlyNestedSpawnMisblames`, `OnlyLateThrowCrashes`, `DeadlinesLinked` (an operation in the kernel has its timeout exactly if it was given one) |

The violations are disagreements between the code and what the repository says of it; `findings` in
`PROJECT.json` quotes the lines. Each has a counterexample that needs no fault but the one it is about
(`Faults` is empty or `{"alloc"}`).

* **exhausted_ring.** `arm_eventfd_read()` uses the slot `tail & mask` without a capacity check. With every slot
  staged that is the oldest SQE; its coroutine never resumes. `OnlyArmingLoses` says this is the only way.
* **late_sqfull.** `spawn()` checks for one slot, a timed operation needs two. With one free the coroutine
  runs, is refused, goes on with result 0 and is destroyed, and the callable is run again.
* **bad_alloc.** `push_back` follows `resume()`; when it throws, the frame goes while its SQE stays.
* **silent_skip.** More completions than slots in one `drain()`: a resumed coroutine's next operation is refused
  and the error discarded.

`OnlyNestedSpawnMisblames` and `OnlyLateThrowCrashes` describe the same weaknesses from the coroutines' side. A coroutine
that was refused and then calls `spawn()` has its flag taken by the inner `spawn()`: the inner task, which was never
refused, is destroyed, and the outer one is kept. Where no Task is resumed by hand, `spawn()` blames none in another way: one that it destroys after the
fact was refused itself or ran inside the `resume()` of one that was, and one that it keeps although it was refused has lost its
flag to a nested `spawn()`. And nothing but such a throw after `resume()` destroys a frame with an operation staged.
`Task::resume()` called by hand does not take the flag: if the Task awaits an operation and is refused, the flag stays set after
`resume()` returned, and the next `spawn()` on that thread, however much room it has, destroys its own task and throws
`SQFull`. No code in the repository awaits an operation in a Task it resumes itself; 36 generated programs do, and
`FlagConsumed` and `OnlyNestedSpawnMisblames` say that this is the only other way (`LeftByHand`).

`DeadlinesLinked` is what `awaitable.cpp:50` is concerned with: a `LINK_TIMEOUT` applies to the SQE before it in the same
submission. If capacity were asked for one slot, the operation would go to the kernel without its deadline or its slot would be
overwritten. The property also needs that the eventfd read, committed without asking for room, lands on the oldest
SQE and never between the two, and that a submission, which takes every SQE up to the size of the ring, never ends between
them.

Other disagreements have no run of their own:

* `shutting_down_` is set by `shutdown()` and never cleared: after a restart `drain()` polls where `scheduler.cpp:210` says it
  blocks "until at least one CQE arrives". The model has it (`WaitReturns`).
* `start()` has no roll-back: a jthread that cannot be created leaves the workers before it running and `state_`
  unchanged, so that `stop()` does nothing. A second `start()` assigns to a live jthread, whose successor is in `run()`
  before it is stopped, where `runtime.h.in:29` says workers are replaced "without racing against a live runner thread".
  This is the action `ReplaceLoop`; the destructor does stop them (`QuietWhenGone`).
* `README.md:246` says that `start()` throws after `stop()`; `runtime.cpp:23` and the tests allow it, and so does the model.
* `README.md:394` serves connections in an accept loop "until Runtime stops it"; `shutdown()` cancels nothing, so an accept
  that never completes keeps `stop()` waiting.
* `README.md:86` says that "each worker and the dispatcher use the same ring depth"; `Runtime`'s constructor gives
  its depth argument to the dispatcher's ring only (`runtime.cpp:8`), and the workers' rings have the default.
* The programs of `runtime_write.cpp` declare the counter their jobs refer to after the `Runtime`: when a deadline passes,
  it dies first and a job that is still running increments a dead local. Those of `multi_threaded.cpp` give `run()` the
  token of a stop source of their own, so that the jthread's destructor joins a thread nobody stopped: they hang where
  they mean to fail (`FanoutTimesOut`).
* For 2^31 entries or more, `entries * 2` wraps and the completion queue is not twice the submission queue (`RingSizes`).

### Bounds

`Entries` is 4 (room for everything), 2 (every boundary between one and two slots, and arming on a full ring) or 1
(the smallest ring). Two jobs give two posters racing with the runner and one job queued behind another;
`silent_skip` needs three. `EfdMax` 1 to 3 reaches the counter's limit. `MaxStarts` 2 allows one retry, `MaxRuns` 2 one
restart. `overload` does not check for deadlock because its second start of a job is cut off by `MaxStarts`; the
others stop only where the system does (`Ended`). The violation runs look for one property only and do not check for
deadlock either.

For `Runtime`, two workers are the fewest with an order between them. Four jobs against `CounterSize` 3 pass the wrap of
`next_worker_`, at which the turn skips (3 is not a multiple of 2, as 2^64 is not of most worker counts; `Turn` says
so). `MaxStarts` 2 is one restart or one retry. Jobs differ only by name, so `rt_restart`
uses symmetry; the liveness run does not. `clients` has three jobs for two workers, so that one worker gets two.

For `ring`, ten depths cover zero, powers of two, their neighbours, the kernel's limit (`MaxSq` 4) and the wrap of
`entries * 2` (`Modulus` 16); the ring that is used has two slots and indices that wrap eight times as late, so that every
combination of wrapped and unwrapped head and tail with every fill occurs. For `programs`, `Roomy` (8 entries) stands
for 256: none of the programs stages more than six SQEs. Chains are three levels deep, one more than the shortest with a
middle; each level may suspend before awaiting the next, catch, and end by returning or throwing. Overloads cover rings of one to
three entries, zero to two slots, `spawn()` inside a coroutine and a third inside that one; the programs with a Task resumed by hand, the same
rings, one or two slots for that Task and up to two for the one spawned after it. `MaxFrames` 6 is never exceeded (`TypeOK`).

### Fairness

`FairSpec` assumes that the threads are scheduled (weak fairness of the driving thread, the stop callback, a
poster between push and write), that `io_uring_enter` does not fail every time (strong fairness of `DrainEnter`,
since `DrainEnterFails` may be taken instead at each turn), and that the kernel completes an eventfd read once the
counter is up, a timeout, and every operation. The last is the user's part: it holds of a timed operation, and not of an
idle `accept`. Nobody is assumed to post, start or stop.

`Runtime`'s adds that coroutines end and that a job refused with `SQFull` is at last accepted (strong fairness of
`Accept`): the `drain()` that requeues it also submits what filled the ring. The first is again the user's part.
`CFairSpec` of `Clients` is the same with the main thread scheduled; no deadline has to pass. `FairSpec` of `Coroutines`
assumes that the thread and the connecting thread are scheduled and that the kernel completes a request it holds once it
is ready or its deadline has passed, strongly because completions are only taken into account at `drain()`.

## 4. Proofs

`SchedulerProofs`, for every ring size, every finite or infinite set of jobs, all scripts and all faults:

* `TypeCorrect`: `Spec => []TypeOK`.
* `WakeInvariant`: `Spec => []WakeInv`, and from it
* `WakeupNeverLost`: `Spec => []NoLostWakeup`.

Assumptions, here and in `FrameProofs`: `EntriesAssumption` (the ring has a slot) and `ConstantsAssumption` (types of the constants; the
eventfd can count to 1).

`NoLostWakeup` speaks of the sleeping runner only and is not inductive. `WakeInv` follows the notification and the
read through every step: a queued callable has `efd > 0`, a completed eventfd read, or a writer between its two
steps; so has a stop that `run()` has not seen; and while `eventfd_armed_` is set a read is in flight, completed or
staged *among the SQEs the next submission takes*. The last part needs `ArmQueue`: arming a ring with any number of
SQEs staged, `Entries` or more included, leaves a read within the first `Entries` positions. So the overwriting that
`exhausted_ring` shows costs an operation but never the wake-up.

* `CallablesOneHome`: `Spec => []OneHome`.
* `SchedulerIsEventLoop`: `Spec => IsEventLoop`.

`OneHome` alone is not inductive: the swap of `drain_inbox()` overwrites `local`, and loses nothing only because `local` is
empty outside `drain_inbox()` (`LocalInv`). The refinement then takes one step per
action: the swap of the inbox leaves `local \o inbox` unchanged, a requeue moves the first element to the end, a late throw
is a call that leaves nothing or puts it back, `reap()` ends a set of coroutines.

`FrameProofs`, from the same assumptions:

* `FrameInvariant`: `Spec => []FrameInv`, and from it
* `SuspendedReachable`: `Spec => []OnlyArmingLoses`,
* `CompletionsFindFrames`: `Spec => []OnlyLateThrowDangles`,
* `DestructorFlushes`: `Spec => []QuiescentWhenDestroyed`.

The two `Only` properties are not inductive: a frame that is resumed while a second request of the same `co_await` is still
somewhere would leave that one without its frame. `FrameInv` adds that an operation is in one place (`OnePlace`) and there
once (`OnceInv`), that only owned frames are suspended and that an orphaned operation belongs to a start that happened. What an
action does to frames is first reduced to six moves (`FrameMoves`: nothing, a start, a submission, a completion, a resumption,
a reap), so that queues are reasoned about action by action and frames move by move.

`RuntimeProofs`, for every number of workers and jobs, every width of `next_worker_` and any number of starts:

* `RuntimeTypes`: `Spec => []TypeOK`.
* `NeverPostsToStopped`: `Spec => []DispatcherInside`.
* `Lifecycle`: `Spec => []LifecycleInv`, and from it
* `DestructorQuiet`: `Spec => []QuietWhenGone`.
* `DrivenByOne` and `StopQuiet`: if threads can always be created, `Spec => []OneDriver` and `Spec => []QuietWhenStopped`. The
  assumption is needed (`ReplaceLoop`).

Assumption: `RuntimeAssumption` (there is a worker, and the types of the constants).

`DispatcherInside` and the two `Quiet` properties speak of the ends of calls and are not inductive. `LifecycleInv` says
of every point inside `start()`, `stop()` and the destructor which threads exist: the workers already started run
(`StartInv`); the dispatcher exists only in state Running and, inside `stop()`, only before its join, while no worker has
been touched (`DispatcherInv`); a scheduler already dealt with, or in `shutdown()`, has no thread (`ThreadInv`); one without
a thread is at rest unless `shutdown()` drives it (`RestInv`). `DrivenByOne` adds `ClearInv`: without failed starts a
worker that `start()` has not reached has no thread.

And of the jobs:

* `JobsOneWorker`: `Spec => []OneWorker`.
* `DealtInTurn`: `Spec => []RoundRobin`.
* `RuntimeOfEventLoops`: `Spec => EventLoops`.

`PlaceInv` says of every job which scheduler holds it, that it holds it once, and that a scheduler other than the one
`home` names does not; a post by the dispatcher moves a job from one scheduler's queue to the end of another's within one
step, so the proofs split on the scheduler that acts and the others. `DealInv` says that the jobs dispatched are a
prefix of those posted, that the dispatcher's queue is the rest in order, and that `next_worker` is the length of that prefix
modulo the width of the counter; that a turn names a worker and how it moves on at the wrap is arithmetic (`Lemmas`).

`ClientsProofs`, for any number of workers and any finite set of jobs with at least one for each worker:

* `ClientsUseRuntime`: `CSpec => Spec`. The tests use the runtime as its specification allows, so every theorem above holds of
  them.
* `TestsAssertTruly`: `CSpec => []ChecksHold`.
* `LocalsSafe`: `CSpec => []LocalsOutliveJobs`.

`MainInv` says how far the jobs are when the main thread is at each point, `CountInv` that a job that counted itself is still
owned by its worker or reaped. That every worker was handed a job comes from `DealInv`: the first N jobs of the order in which they
were posted went to N different workers. Assumption: `ClientsAssumption` (as many jobs as workers, no more workers than
`size_t` counts, and no fault but a full ring: the tests do not survive a thread that cannot be created).

`RingProofs`, for every ring whose number of entries divides the number of index values:

* `RingTyped`: `RSpec => []RingTypeOK`.
* `RingRefines`: `RSpec => RingIsQueue`.

The argument is that distances between indices survive the wrap (`ModDiff`, `ModAdd`): position i of the queue is the slot of
`head + i - 1`, two positions less than a ring apart have different slots, and the slot written on a full ring is that of the
position a ring earlier, which is the overwriting that `SubmissionQueue.Commit` describes.

And of `IoLifetime`, for every set of depths:

* `IoTypes`: `Spec => []TypeOK`.
* `ResourcesReleased`: `Spec => []ReleasedOnce`, from an invariant that says which members are held at every `phase`.
* `MappingsLong`: `Spec => []MappingsCover`. Under `SINGLE_MMAP` it rests on the index array lying behind the completion
  entries in the shared region (`Params`).
* `SizesAsAsked`: `Spec => []RingSizes`. A power of two is a number all of whose divisors but 1 are even; that exactly one lies
  between n and 2n - 1 (`PowerExists`, `PowersApart`) and that rounding 2n gives twice the rounding of n (`Rounded`) is proved from
  that definition.
* `RingOfEveryIo`: `Spec => RingIsQueue`.

Assumptions: `EntriesAssumption`, `RingAssumption` and `RequestsAssumption`. `PowersAssumption`, which TLC evaluates and no proof
uses, says that `IsPowerOfTwo` is what its name says.

`CoroutinesProofs`, for every program that `Coroutines` can run, of any length, depth of nesting and ring size, whose main
function leaves its coroutines to the `Scheduler` (`Scheduled`: it spawns, and makes, moves or resumes no Task itself):

* `Invariant`: `Spec => [](Scheduled => CoroutineInv)`, and from it, under the same hypothesis,
* `HandlesAreLive`: `HandlesLive`,
* `OneReason`: `OneReasonToWait`,
* `OnlyLateThrowsCrash`: `OnlyLateThrowCrashes`,
* `FlagIsConsumed`: `FlagConsumed`,
* `OnlyNestedSpawnsMisblame`: `OnlyNestedSpawnMisblames`.
* `TimespecExact`: for every integer number of milliseconds, `with_timeout()`'s `tv_sec` and `tv_nsec` add up to it; they are
  normalised if it is not negative, and if it is, one of them is negative, which the kernel refuses.

Assumption: `ProgramsAssumption` (a ring has a slot; a main function has a length). `Programs` is otherwise arbitrary: 785 of
the 829 programs of the run `programs` are `Scheduled`.

None of the properties is inductive. `HandlesLive` says that an owned frame is alive, and `~Task` frees a frame with everything
it owns, so one must know that nothing else refers into what is freed. `TreeInv` says that frames form trees: the
continuation of a frame is older than it and is the one whose `co_await` owns it, and all frames of a tree have one root, the
spawned Task. `RunInv` describes the stack of `resume()` calls: the running frame belongs to the task of the innermost, each
other one was made by a `spawn()` statement of a frame of the one below, and no task is on the stack twice; a task whose
`spawn()` has not returned is not in `tasks_`. `OpsInv` says that an operation is staged, in flight or completed, once.
`PendInv` joins the two: an operation belongs to a frame suspended on it, or to one whose task a late throw destroyed, and a
suspended frame has an operation, an inner Task or a `spawn()` to wait for. `FlagInv` says that while the flag is set some call on the
stack was refused, and that a refused task still being spawned has the flag or lost it to a nested `spawn()`.

What `~Task` frees (`Owned`) is defined as the least set closed under `child`, not by recursion; that it stays within one tree
and takes whole subtrees is then proved by exhibiting closed sets, without induction. `TaskFramesProofs` has the
invariant and the moves on frames (code goes on, a frame waits, resumes, is awaited, is spawned, ends, is destroyed), with
a proof for each that it preserves each part of the invariant; it knows nothing of statements, descriptors or the kernel.
`CoroutinesProofs` reduces every action of `Coroutines` to one of those moves, and its `NextInv` has one case per action.

Left to TLC, because the prover does not reach them: all liveness (`ProgramsEnd` and the others). Of `Coroutines` also what depends
on the statements of a program and not on how frames are handled: `TestsPass`, `OutcomesExact`, `DeadlinesLinked`, the
bound on the number of frames in `TypeOK`; and programs that drive a Task by hand, where a handle is whatever main
makes of it.

## 5. Not modelled

* The fields of a request that every caller leaves at the default (flags, modes, offsets), the pointers into the
  mappings, logging, `error_codes.h.in`: no control depends on them.
* `Runtime` without workers (`fetch_add % 0`): the repository says nothing of it, and `RuntimeAssumption` excludes it.
* The buffer of the eventfd read after the `Scheduler` is destroyed: the read stays with the ring until the `IO` closes it.
  What the kernel may still write and when is not visible in the code.
* Tasks that are moved, or awaited a second time, while they are suspended: no code in the repository does it.
* The two programs of `multi_threaded.cpp` that share one `Scheduler` among posting threads: every step of theirs is an
  action of `Scheduler`, whose runs explore them in any order. The second posts 320 jobs to a ring of 256 entries and so
  relies on the requeue that `overload` checks.
