----------------------------- MODULE Scheduler -----------------------------
(***************************************************************************)
(* slim::common::io::Scheduler on one io_uring: the threads that post()    *)
(* callables, the owner that starts, stops, shuts down and destroys it,    *)
(* the thread that drives run() or shutdown(), and the kernel.             *)
(*                                                                         *)
(* A job is a callable whose body is scheduler.spawn(coroutine()).  What   *)
(* is kept of the coroutine is the sequence of its co_awaits, each by the  *)
(* number of SQEs it stages: 1, or 2 after with_timeout().                 *)
(***************************************************************************)
EXTENDS SubmissionQueue, Queues, FiniteSets

CONSTANTS
  Jobs,         \* the callables
  DirectJobs,   \* those whose coroutine the owner spawns itself, between runs
  Awaits,       \* Awaits[j][k]: the SQEs co_await number k of job j stages
  Faults,       \* what may go wrong: "enter", "read" (the eventfd's), "alloc"
  EfdMax,       \* the largest value the eventfd counter holds
  MaxStarts,    \* bound: how often the coroutine of one job may be started
  MaxRuns       \* bound: how often run() may be called

ASSUME ConstantsAssumption ==
  /\ DirectJobs \subseteq Jobs
  /\ Faults \subseteq {"enter", "read", "alloc"}
  /\ Awaits \in [Jobs -> Seq({1, 2})]
  /\ EfdMax \in Nat \ {0} /\ MaxStarts \in Nat \ {0} /\ MaxRuns \in Nat

VARIABLES
  \* members of Scheduler
  inbox,          \* inbox_
  tasks,          \* tasks_: the jobs whose coroutine frame it owns
  eventfd_armed, shutting_down,
  \* the driving thread
  pc,             \* where it is
  mode,           \* which member function drives: run, shutdown, ~Scheduler
  local,          \* drain_inbox()'s queue
  batch,          \* CQEs drain() has yet to handle of those it saw
  runs,           \* calls of run() so far
  \* std::stop_token and its callback
  stop,
  \* the coroutines
  started,        \* how often the coroutine of a job was created and resumed
  at,             \* the co_await a live frame is suspended at; 0: no frame
  \* the other threads
  sent,           \* how far post(j) got
  \* the kernel
  efd,            \* the eventfd counter
  sq,             \* staged SQEs
  inflight,       \* operations submitted and not completed
  timers,         \* link timeouts that are ticking
  reads,          \* eventfd reads in flight
  cq,             \* completions, the kernel's overflow backlog included
  \* history
  finished,       \* jobs whose frame was reaped at its final suspend point
  dropped,        \* jobs given up because spawn() threw
  skipped,        \* jobs with a co_await that returned 0 without an operation
  orphaned,       \* operations left staged by a frame that was destroyed
  overwritten     \* staged operations that arm_eventfd_read() overwrote

flags       == <<eventfd_armed, shutting_down>>
memberVars  == <<inbox, flags>>
signalVars  == <<stop, sent, efd>>
callVars    == <<mode, runs>>
loopVars    == <<local, batch>>
driverVars  == <<pc, callVars, loopVars>>
coVars      == <<tasks, started, at, skipped>>
historyVars == <<finished, dropped, orphaned, overwritten>>
jobVars     == <<coVars, historyVars>>
kernelVars  == <<inflight, timers, reads, cq>>
ringVars    == <<sq, kernelVars>>
vars == <<memberVars, signalVars, driverVars, jobVars, ringVars>>

-----------------------------------------------------------------------------
Awaitable == [job : Jobs, gen : 1 .. MaxStarts]
Awt(j, g) == [job |-> j, gen |-> g]
Current(j) == Awt(j, started[j])

NullCqe == [kind |-> "null"]   \* user_data 0: a link timeout's completion
Cqe == {EventfdRead, NullCqe} \cup {Op(a) : a \in Awaitable}

AwaitCount(j) == Len(Awaits[j])
DoneTooEarly(j) == at[j] >= AwaitCount(j)   \* mutant of Done
Suspended(j)  == at[j] \in 1 .. AwaitCount(j)
Done(j)       == at[j] = AwaitCount(j) + 1

(* A write of 1 to the eventfd; EFD_NONBLOCK makes it fail at the limit. *)
EfdFull == efd = EfdMax
Notify  == efd' = IF EfdFull THEN efd ELSE efd + 1

Driving == pc \in {"check", "drain", "wait", "cqe", "inbox", "poke"}

Init ==
  /\ inbox = <<>> /\ tasks = {} /\ eventfd_armed = FALSE /\ shutting_down = FALSE
  /\ pc = "idle" /\ mode = "run" /\ local = <<>> /\ batch = 0 /\ runs = 0
  /\ stop = "no"
  /\ started = [j \in Jobs |-> 0] /\ at = [j \in Jobs |-> 0]
  /\ sent = [j \in Jobs |-> "no"]
  /\ efd = 0 /\ sq = <<>> /\ inflight = {} /\ timers = {} /\ reads = 0 /\ cq = <<>>
  /\ finished = {} /\ dropped = {} /\ skipped = {} /\ orphaned = {} /\ overwritten = {}

-----------------------------------------------------------------------------
PostPushFront(j) ==        \* mutant of PostPush: a stack instead of a queue
  /\ pc # "closed" /\ sent[j] = "no" /\ j \notin DirectJobs
  /\ inbox' = <<j>> \o inbox
  /\ sent' = [sent EXCEPT ![j] = "pushed"]
  /\ UNCHANGED <<flags, stop, efd, driverVars, jobVars, ringVars>>

PostWriteSilent(j) ==      \* mutant of PostWrite: the eventfd is not written
  /\ sent[j] = "pushed"
  /\ sent' = [sent EXCEPT ![j] = "ok"]
  /\ UNCHANGED <<memberVars, stop, efd, driverVars, jobVars, ringVars>>

(* post(): push under inbox_mutex_, then write the eventfd.  A failed write *)
(* throws EventFdWriteFailed with the callable already queued.              *)
PostPush(j) ==
  /\ pc # "closed" /\ sent[j] = "no" /\ j \notin DirectJobs
  /\ inbox' = Append(inbox, j)
  /\ sent' = [sent EXCEPT ![j] = "pushed"]
  /\ UNCHANGED <<flags, stop, efd, driverVars, jobVars, ringVars>>

PostWrite(j) ==
  /\ sent[j] = "pushed"
  /\ Notify
  /\ sent' = [sent EXCEPT ![j] = IF EfdFull THEN "failed" ELSE "ok"]
  /\ UNCHANGED <<memberVars, stop, driverVars, jobVars, ringVars>>

-----------------------------------------------------------------------------
(* The owner: create the jthread, request_stop(), shutdown(), destroy. *)
Start ==
  /\ pc = "idle" /\ runs < MaxRuns
  /\ pc' = "starting" /\ mode' = "run" /\ runs' = runs + 1 /\ stop' = "no"
  /\ UNCHANGED <<memberVars, sent, efd, loopVars, jobVars, ringVars>>

(* request_stop() runs the registered callback, a write to the eventfd; a  *)
(* callback not yet registered is run by its own constructor instead.      *)
RequestStop ==
  /\ stop = "no" /\ mode = "run" /\ (pc = "starting" \/ Driving)
  /\ stop' = IF pc = "starting" THEN "requested" ELSE "calling"
  /\ UNCHANGED <<memberVars, sent, efd, driverVars, jobVars, ringVars>>

StopCallbackSilent ==      \* mutant of StopCallback: no wake_on_stop
  /\ stop = "calling" /\ stop' = "done"
  /\ UNCHANGED <<memberVars, sent, efd, driverVars, jobVars, ringVars>>

StopCallback ==
  /\ stop = "calling"
  /\ Notify
  /\ stop' = "done"
  /\ UNCHANGED <<memberVars, sent, driverVars, jobVars, ringVars>>

Shutdown ==
  /\ pc = "idle"
  /\ shutting_down' = TRUE /\ mode' = "shutdown" /\ pc' = "check"
  /\ UNCHANGED <<inbox, eventfd_armed, signalVars, runs, loopVars, jobVars, ringVars>>

DestroyUnflushed ==        \* mutant of Destroy: no shutdown() in the destructor
  /\ pc = "idle" /\ \A j \in Jobs : sent[j] # "pushed"
  /\ mode' = "destroy" /\ pc' = "closed"
  /\ UNCHANGED <<memberVars, signalVars, runs, loopVars, jobVars, ringVars>>

(* ~Scheduler: nobody may be inside post() any more.  Unfinished tasks are *)
(* shut down first; the callables still in inbox_ are destroyed unrun.     *)
Destroy ==
  /\ pc = "idle" /\ \A j \in Jobs : sent[j] # "pushed"
  /\ mode' = "destroy"
  /\ IF tasks = {} THEN pc' = "closed" /\ UNCHANGED shutting_down
                   ELSE pc' = "check"  /\ shutting_down' = TRUE
  /\ UNCHANGED <<inbox, eventfd_armed, signalVars, runs, loopVars, jobVars, ringVars>>

-----------------------------------------------------------------------------
(* Coroutines.  A frame resumed after co_await number from - 1 runs to the *)
(* first co_await for which the ring has room; each one before it returned *)
(* false from await_suspend and set tl_sq_full.                            *)
SuspendsAt(j, from, k) ==
  /\ k \in from .. AwaitCount(j) + 1
  /\ \A m \in from .. k - 1 : ~HasCapacity(sq, Awaits[j][m])
  /\ k <= AwaitCount(j) => HasCapacity(sq, Awaits[j][k])

StageAwait(j, g, k) ==
  sq' = IF k <= AwaitCount(j) THEN Stage(sq, Awt(j, g), Awaits[j][k]) ELSE sq

(* spawn() up to the return of handle.resume(): k is where the new frame   *)
(* suspends, and k > 1 says that tl_sq_full is set.                        *)
SpawnResume(j, k) ==
  /\ ~SqFull(sq) /\ started[j] < MaxStarts
  /\ SuspendsAt(j, 1, k)
  /\ started' = [started EXCEPT ![j] = @ + 1]
  /\ StageAwait(j, started[j] + 1, k)
  /\ skipped' = IF k > 1 THEN skipped \cup {j} ELSE skipped

(* spawn() succeeds. *)
Spawned(j) ==
  /\ SpawnResume(j, 1)
  /\ at' = [at EXCEPT ![j] = 1] /\ tasks' = tasks \cup {j}
  /\ UNCHANGED orphaned

(* spawn() throws after resume(), and the caller's Task destroys the frame *)
(* whatever it left staged: SQFull from the side channel (k > 1), or       *)
(* BadAllocation from tasks_.push_back (k = 1).                            *)
SpawnThrowsLate(j, k) ==
  /\ SpawnResume(j, k) /\ (k = 1 => "alloc" \in Faults)
  /\ orphaned' = IF k <= AwaitCount(j)
                   THEN orphaned \cup {Awt(j, started[j] + 1)} ELSE orphaned
  /\ UNCHANGED <<tasks, at>>

(* The owner spawns a job between runs; what spawn() throws reaches it. *)
DirectSpawn(j) ==
  /\ pc = "idle" /\ j \in DirectJobs /\ sent[j] = "no"
  /\ sent' = [sent EXCEPT ![j] = "ok"]
  /\ \/ Spawned(j) /\ UNCHANGED dropped
     \/ /\ \E k \in 1 .. AwaitCount(j) + 1 : SpawnThrowsLate(j, k)
        /\ dropped' = dropped \cup {j}
     \/ /\ SqFull(sq)
        /\ dropped' = dropped \cup {j}
        /\ UNCHANGED <<coVars, orphaned, sq>>
  /\ UNCHANGED <<memberVars, stop, efd, driverVars, finished, overwritten, kernelVars>>

-----------------------------------------------------------------------------
(* The driving thread.  run() registers the stop callback, which writes    *)
(* the eventfd at once when the stop was requested before that.            *)
Register ==
  /\ pc = "starting" /\ pc' = "check"
  /\ IF stop = "requested" THEN Notify /\ stop' = "done" ELSE UNCHANGED <<stop, efd>>
  /\ UNCHANGED <<memberVars, sent, callVars, loopVars, jobVars, ringVars>>

(* run()'s loop test.  Leaving destroys the callback; one that has not     *)
(* begun by then is never called.                                          *)
CheckRun ==
  /\ pc = "check" /\ mode = "run"
  /\ IF stop = "no" THEN pc' = "drain" /\ UNCHANGED stop
                    ELSE pc' = "idle"  /\ stop' = "done"
  /\ UNCHANGED <<memberVars, sent, efd, callVars, loopVars, jobVars, ringVars>>

(* shutdown()'s loop test; the destructor closes the eventfd after it. *)
CheckShutdown ==
  /\ pc = "check" /\ mode # "run"
  /\ pc' = IF tasks # {} THEN "drain" ELSE IF mode = "destroy" THEN "closed" ELSE "idle"
  /\ UNCHANGED <<memberVars, signalVars, callVars, loopVars, jobVars, ringVars>>

(* drain() up to io_uring_enter: re-arm the eventfd read if its completion *)
(* was handled.                                                            *)
ToSubmit == IF eventfd_armed THEN sq ELSE Arm(sq)

ArmIfNeeded ==
  /\ eventfd_armed' = TRUE
  /\ overwritten' = overwritten \cup
       {a \in Awaitable : Op(a) \in Elements(sq) /\ Op(a) \notin Elements(ToSubmit)}

SeeCompletionsPastTail ==  \* mutant of SeeCompletions: current <= tail
  batch' = Len(cq) + 1

(* The CQEs drain() reads cq.tail to see, once io_uring_enter returned. *)
SeeCompletions ==
  batch' = IF Len(cq) <= 2 * Entries THEN Len(cq) ELSE 2 * Entries

(* io_uring_enter consumes the SQEs.  A link timeout whose operation is    *)
(* not directly ahead of it is refused with a completion of its own.       *)
DrainEnter ==
  LET q == ToSubmit
      taken == 1 .. Submittable(q)
      linked(i) == i > 1 /\ q[i-1] = Op(q[i].awt)
      Of(kind) == {i \in taken : q[i].kind = kind}
      refused == {i \in Of("timeout") : ~linked(i)}
  IN /\ pc = "drain" /\ pc' = "wait"
     /\ ArmIfNeeded
     /\ sq' = Remaining(q)
     /\ inflight' = inflight \cup {q[i].awt : i \in Of("op")}
     /\ timers' = timers \cup {q[i].awt : i \in Of("timeout") \ refused}
     /\ reads' = reads + Cardinality(Of("eventfd"))
     /\ cq' = cq \o [i \in 1 .. Cardinality(refused) |-> NullCqe]
     /\ UNCHANGED <<inbox, shutting_down, signalVars, callVars, loopVars, coVars,
                    finished, dropped, orphaned>>

(* io_uring_enter fails before it consumes anything; drain() ignores its result. *)
DrainEnterFails ==
  /\ "enter" \in Faults /\ pc = "drain" /\ pc' = "cqe"
  /\ ArmIfNeeded
  /\ sq' = ToSubmit
  /\ SeeCompletions
  /\ UNCHANGED <<inbox, shutting_down, signalVars, callVars, local, coVars,
                 finished, dropped, orphaned, kernelVars>>

WaitReturnsOnCqe ==        \* mutant of WaitReturns: min_complete always 1
  /\ pc = "wait" /\ cq # <<>>
  /\ pc' = "cqe" /\ SeeCompletions
  /\ UNCHANGED <<memberVars, signalVars, callVars, local, jobVars, ringVars>>

(* The wait ends: min_complete is 0 once shutting_down_ is set. *)
WaitReturns ==
  /\ pc = "wait" /\ (cq # <<>> \/ shutting_down)
  /\ pc' = "cqe" /\ SeeCompletions
  /\ UNCHANGED <<memberVars, signalVars, callVars, local, jobVars, ringVars>>

(* A signal ends it with no completion. *)
WaitInterrupted ==
  /\ "enter" \in Faults /\ pc = "wait" /\ cq = <<>> /\ ~shutting_down
  /\ pc' = "cqe" /\ SeeCompletions
  /\ UNCHANGED <<memberVars, signalVars, callVars, local, jobVars, ringVars>>

-----------------------------------------------------------------------------
(* drain()'s loop over the completions it saw.  The handler of a CQE takes *)
(* it off the queue in the same step: cq.head moves after the handler, but *)
(* only the kernel reads it, to find room, and cq has its backlog in it.   *)
NextCqe ==
  /\ pc = "cqe" /\ batch > 0
  /\ cq' = Tail(cq) /\ batch' = batch - 1
  /\ UNCHANGED <<inflight, timers, reads>>

CqeEventfdStaysArmed ==    \* mutant of CqeEventfd: eventfd_armed_ is not cleared
  /\ NextCqe /\ Head(cq) = EventfdRead
  /\ local' = inbox /\ inbox' = <<>>
  /\ pc' = "inbox"
  /\ UNCHANGED <<flags, signalVars, callVars, jobVars, sq>>

(* The eventfd read's: clear the flag and enter drain_inbox(), which swaps *)
(* the inbox out under the mutex.                                          *)
CqeEventfd ==
  /\ NextCqe /\ Head(cq) = EventfdRead
  /\ eventfd_armed' = FALSE
  /\ local' = inbox /\ inbox' = <<>>
  /\ pc' = "inbox"
  /\ UNCHANGED <<shutting_down, signalVars, callVars, jobVars, sq>>

CqeNull ==
  /\ NextCqe /\ Head(cq) = NullCqe
  /\ UNCHANGED <<memberVars, signalVars, pc, callVars, local, jobVars, sq>>

(* An operation's: resume the frame that awaits it.  tl_sq_full, set when  *)
(* the frame met a full ring, is taken and ignored.                        *)
Awaiting(a) == Suspended(a.job) /\ a = Current(a.job)

CqeOp ==
  /\ NextCqe /\ Head(cq).kind = "op" /\ Awaiting(Head(cq).awt)
  /\ LET j == Head(cq).awt.job
     IN \E k \in 1 .. AwaitCount(j) + 1 :
          /\ SuspendsAt(j, at[j] + 1, k)
          /\ StageAwait(j, started[j], k)
          /\ at' = [at EXCEPT ![j] = k]
          /\ skipped' = IF k > at[j] + 1 THEN skipped \cup {j} ELSE skipped
  /\ UNCHANGED <<memberVars, signalVars, pc, callVars, local, tasks, started, historyVars>>

(* ... or, when that frame was destroyed, write to and resume freed        *)
(* memory: undefined, and nothing is claimed of what follows.              *)
CqeDangling ==
  /\ NextCqe /\ Head(cq).kind = "op" /\ ~Awaiting(Head(cq).awt)
  /\ pc' = "crashed"
  /\ UNCHANGED <<memberVars, signalVars, callVars, local, jobVars, sq>>

(* After the loop, reap() destroys the tasks that are done. *)
Reap ==
  LET done == {j \in tasks : Done(j)}
  IN /\ pc = "cqe" /\ batch = 0 /\ pc' = "check"
     /\ tasks' = tasks \ done
     /\ at' = [j \in Jobs |-> IF j \in done THEN 0 ELSE at[j]]
     /\ finished' = finished \cup done
     /\ UNCHANGED <<memberVars, signalVars, callVars, loopVars, started, skipped,
                    dropped, orphaned, overwritten, ringVars>>

-----------------------------------------------------------------------------
(* drain_inbox()'s loop: take a callable and call it.                      *)
NextTask(j) ==
  /\ pc = "inbox" /\ local # <<>> /\ j = Head(local)
  /\ local' = Tail(local)

InboxSpawned(j) ==
  /\ NextTask(j) /\ Spawned(j)
  /\ UNCHANGED <<memberVars, signalVars, pc, callVars, batch,
                 finished, dropped, overwritten, kernelVars>>

Requeue(j, queue) ==       \* InboxRequeue with another queue afterwards
  /\ NextTask(j)
  /\ \/ SqFull(sq) /\ UNCHANGED <<coVars, orphaned, sq>>
     \/ \E k \in 2 .. AwaitCount(j) + 1 : SpawnThrowsLate(j, k)
  /\ inbox' = queue
  /\ pc' = "poke"
  /\ UNCHANGED <<flags, signalVars, callVars, batch, finished, dropped, overwritten, kernelVars>>
RequeueForgets(j) == Requeue(j, inbox)   \* mutant of InboxRequeue

(* SQFull, from either side of resume(): queue the callable again ... *)
InboxRequeue(j) ==
  /\ NextTask(j)
  /\ \/ SqFull(sq) /\ UNCHANGED <<coVars, orphaned, sq>>
     \/ \E k \in 2 .. AwaitCount(j) + 1 : SpawnThrowsLate(j, k)
  /\ inbox' = Append(inbox, j)
  /\ pc' = "poke"
  /\ UNCHANGED <<flags, signalVars, callVars, batch, finished, dropped, overwritten, kernelVars>>

(* ... and write the eventfd, with the mutex released in between. *)
InboxPoke ==
  /\ pc = "poke" /\ pc' = "inbox"
  /\ Notify
  /\ UNCHANGED <<memberVars, stop, sent, callVars, loopVars, jobVars, ringVars>>

(* BadAllocation: the callable is dropped. *)
InboxDropped(j) ==
  /\ NextTask(j) /\ SpawnThrowsLate(j, 1)
  /\ dropped' = dropped \cup {j}
  /\ UNCHANGED <<memberVars, signalVars, pc, callVars, batch, finished, overwritten, kernelVars>>

InboxDone ==
  /\ pc = "inbox" /\ local = <<>> /\ pc' = "cqe"
  /\ UNCHANGED <<memberVars, signalVars, callVars, loopVars, jobVars, ringVars>>

-----------------------------------------------------------------------------
(* The kernel.  A read of the eventfd waits for a non-zero counter and     *)
(* takes all of it; it can also fail, and drain() does not look at res.    *)
Complete(c) ==
  /\ cq' = Append(cq, c)
  /\ UNCHANGED <<memberVars, stop, sent, driverVars, jobVars, sq>>

EfdReadCompletes ==
  /\ reads > 0 /\ efd > 0
  /\ reads' = reads - 1 /\ efd' = 0
  /\ Complete(EventfdRead)
  /\ UNCHANGED <<inflight, timers>>

EfdReadFails ==
  /\ "read" \in Faults /\ reads > 0 /\ reads' = reads - 1
  /\ Complete(EventfdRead)
  /\ UNCHANGED <<efd, inflight, timers>>

(* An operation completes, or its link timeout cancels it; the timeout has *)
(* a completion of its own, before or after.                               *)
OpCompletes(a) ==
  /\ a \in inflight /\ inflight' = inflight \ {a}
  /\ Complete(Op(a))
  /\ UNCHANGED <<efd, timers, reads>>

TimerCompletes(a) ==
  /\ a \in timers /\ timers' = timers \ {a}
  /\ Complete(NullCqe)
  /\ UNCHANGED <<efd, inflight, reads>>

-----------------------------------------------------------------------------
Clients == \E j \in Jobs : PostPush(j) \/ PostWrite(j) \/ DirectSpawn(j)
Owner   == Start \/ RequestStop \/ StopCallback \/ Shutdown \/ Destroy
Loop    == Register \/ CheckRun \/ CheckShutdown \/ DrainEnter \/ DrainEnterFails
           \/ WaitReturns \/ WaitInterrupted \/ Reap
Handler == CqeEventfd \/ CqeNull \/ CqeOp \/ CqeDangling \/ InboxPoke \/ InboxDone
           \/ \E j \in Jobs : InboxSpawned(j) \/ InboxRequeue(j) \/ InboxDropped(j)
Kernel  == EfdReadCompletes \/ EfdReadFails
           \/ \E a \in Awaitable : OpCompletes(a) \/ TimerCompletes(a)

(* Destroyed, or past undefined behaviour: nothing more happens. *)
Ended == pc \in {"closed", "crashed"} /\ UNCHANGED vars

Next == Clients \/ Owner \/ Loop \/ Handler \/ Kernel \/ Ended

Spec == Init /\ [][Next]_vars

-----------------------------------------------------------------------------
(* Types, and that drain() never counts CQEs that are not there. *)
TypeOK ==
  /\ inbox \in Seq(Jobs) /\ local \in Seq(Jobs) /\ tasks \subseteq Jobs
  /\ eventfd_armed \in BOOLEAN /\ shutting_down \in BOOLEAN
  /\ pc \in {"idle", "starting", "check", "drain", "wait", "cqe", "inbox", "poke",
             "closed", "crashed"}
  /\ mode \in {"run", "shutdown", "destroy"}
  /\ batch \in 0 .. Len(cq) /\ runs \in 0 .. MaxRuns
  /\ stop \in {"no", "requested", "calling", "done"}
  /\ started \in [Jobs -> 0 .. MaxStarts] /\ at \in [Jobs -> Nat]
  /\ sent \in [Jobs -> {"no", "pushed", "ok", "failed"}]
  /\ efd \in 0 .. EfdMax /\ sq \in Seq(Sqe(Awaitable))
  /\ inflight \subseteq Awaitable /\ timers \subseteq Awaitable
  /\ reads \in Nat /\ cq \in Seq(Cqe)
  /\ finished \subseteq Jobs /\ dropped \subseteq Jobs /\ skipped \subseteq Jobs
  /\ orphaned \subseteq Awaitable /\ overwritten \subseteq Awaitable

(* No lost wake-up.  Whenever the runner sleeps in io_uring_enter with     *)
(* nothing completed, and a callable is queued or a stop was requested,    *)
(* then either the thread that did it has its eventfd write still to make, *)
(* or the counter is up and a read of it is in flight, so that the kernel  *)
(* ends the wait.  This is what the always-in-flight read, the write after *)
(* the push, the write after a requeue and the stop callback are for.      *)
Asleep == pc = "wait" /\ cq = <<>> /\ ~shutting_down

NoLostWakeup ==
  Asleep /\ (inbox # <<>> \/ (mode = "run" /\ stop # "no")) =>
    \/ \E j \in Jobs : sent[j] = "pushed"
    \/ stop = "calling"
    \/ efd > 0 /\ reads > 0

(* Why it holds.  A queued callable has a notification on its way: the     *)
(* counter is up, or the read of it has completed, or the writer is        *)
(* between push and write.  A stop that run() has not seen has one too.    *)
(* While eventfd_armed_ is set there is a read that the next               *)
(* io_uring_enter submits, in flight or completed; during the wait it is   *)
(* past being submitted.                                                   *)
Notified == efd > 0 \/ EventfdRead \in Elements(cq)

InboxNotified ==
  inbox # <<>> => Notified \/ pc = "poke" \/ \E j \in Jobs : sent[j] = "pushed"

StopNotified ==
  /\ stop = "requested" => pc = "starting"
  /\ mode = "run" /\ stop = "done" /\ pc \in {"drain", "wait"} => Notified

ReadStaged(q) == \E i \in 1 .. Submittable(q) : q[i] = EventfdRead

ReadArmed ==
  /\ eventfd_armed => reads > 0 \/ EventfdRead \in Elements(cq) \/ ReadStaged(sq)
  /\ pc = "wait" => reads > 0 \/ EventfdRead \in Elements(cq)

WakeInv == InboxNotified /\ StopNotified /\ ReadArmed

(* Every callable handed over is in exactly one place: once in the inbox   *)
(* or in drain_inbox()'s queue, or running as a task, or finished, or      *)
(* given up; so a requeue neither loses nor doubles it and the swap does   *)
(* not run one twice.                                                      *)
Queue == local \o inbox

OneHome ==
  /\ Unique(Queue)
  /\ \A j \in Jobs :
       sent[j] # "no" <=> j \in Elements(Queue) \cup tasks \cup finished \cup dropped
  /\ Elements(Queue) \cap (tasks \cup finished \cup dropped) = {}
  /\ tasks \cap finished = {} /\ dropped \cap (tasks \cup finished) = {}

(* A suspended coroutine will be resumed: its operation is staged, with    *)
(* the kernel or completed -- or its SQE was overwritten by                *)
(* arm_eventfd_read().                                                     *)
Reaches(a) == Op(a) \in Elements(sq) \/ a \in inflight \/ Op(a) \in Elements(cq)

OnlyArmingLoses ==
  \A j \in Jobs : Suspended(j) => Reaches(Current(j)) \/ Current(j) \in overwritten

(* Only a frame that spawn() destroyed by throwing after resume() leaves   *)
(* an operation behind that is completed to freed memory.                  *)
OnlyLateThrowDangles ==
  \A a \in Awaitable : Reaches(a) => Awaiting(a) \/ a \in orphaned

(* Once the Scheduler is destroyed, the kernel holds no reference into a   *)
(* coroutine frame other than those a late throw left behind.              *)
QuiescentWhenDestroyed ==
  pc = "closed" => \A a \in Awaitable : Reaches(a) => a \in orphaned

(* The Scheduler implements EventLoop: the swap in drain_inbox(), the      *)
(* requeue on SQFull, a throwing spawn(), reap(), shutdown() and restarts  *)
(* never lose, double or resurrect a callable, and one is overtaken only   *)
(* by being requeued.                                                      *)
AsEventLoop ==
  INSTANCE EventLoop WITH queue <- Queue, owned <- tasks, over <- finished \cup dropped

IsEventLoop == AsEventLoop!LSpec

-----------------------------------------------------------------------------
(* Fairness.  The threads are scheduled; io_uring_enter, which may fail or *)
(* be interrupted, does not fail every time it is tried; the kernel        *)
(* completes an eventfd read once the counter is up, a timeout, and every  *)
(* operation.  Nobody has to post, start or stop.                          *)
DriverStep == Register \/ CheckRun \/ CheckShutdown \/ WaitReturns \/ Reap \/ Handler

Fairness ==
  /\ WF_vars(DriverStep) /\ SF_vars(DrainEnter)
  /\ WF_vars(StopCallback) /\ WF_vars(\E j \in Jobs : PostWrite(j))
  /\ WF_vars(EfdReadCompletes) /\ WF_vars(\E a \in Awaitable : TimerCompletes(a))
  /\ \A a \in Awaitable : WF_vars(OpCompletes(a))

FairSpec == Spec /\ Fairness

(* request_stop() ends run(), also one that sleeps in io_uring_enter, and  *)
(* whatever operations are still outstanding.                              *)
StopEndsRun == (mode = "run" /\ stop # "no") ~> (pc \in {"idle", "crashed"})

(* While run() goes on, a callable that was queued is run to its end (or   *)
(* dropped for want of memory).                                            *)
JobsComplete ==
  \A j \in Jobs : (sent[j] # "no" /\ mode = "run" /\ stop = "no" /\ pc # "idle") ~>
                   (Done(j) \/ j \in finished \cup dropped \/ stop # "no" \/ pc = "crashed")

(* shutdown(), and the one the destructor calls, returns. *)
ShutdownReturns ==
  (mode # "run" /\ Driving) ~> (pc \in {"idle", "closed", "crashed"})

-----------------------------------------------------------------------------
(* What the repository says of the code and the code does not do.          *)

(* A callable is retried only if none of its coroutine has run: "zero risk *)
(* of duplicating work" (spawn()'s comment).                               *)
StartedOnce == \A j \in Jobs : started[j] <= 1

(* A failed spawn() does not make drain() resume a destroyed coroutine.    *)
NeverResumesFreed == pc # "crashed"

(* No coroutine runs to its end past a co_await whose operation was never  *)
(* submitted.                                                              *)
NoSilentSkip == \A j \in tasks : Done(j) => j \notin skipped
=============================================================================
