------------------------------ MODULE Runtime ------------------------------
(***************************************************************************)
(* slim::common::io::Runtime: a dispatcher and N workers, each a Scheduler *)
(* with a thread of its own; the clients that post() jobs; and the owner   *)
(* that calls start(), stop() and the destructor.                          *)
(*                                                                         *)
(* A Scheduler is reduced to what module Scheduler shows of it: its inbox, *)
(* the queue a drain_inbox() under way works through, the coroutines it    *)
(* owns.  While its thread runs, a non-empty inbox is served: that no      *)
(* wake-up is lost is proved there.                                        *)
(***************************************************************************)
EXTENDS Queues, FiniteSets

CONSTANTS
  Jobs,          \* what clients post; a job spawns one coroutine
  N,             \* worker_count
  CounterSize,   \* values of the std::atomic<size_t> next_worker_
  Faults,        \* "thread": no thread can be created, "sqfull", "alloc"
  MaxStarts      \* bound: how often start() may be called

ASSUME RuntimeAssumption ==
  /\ N \in Nat \ {0} /\ CounterSize \in Nat \ {0} /\ MaxStarts \in Nat
  /\ Faults \subseteq {"thread", "sqfull", "alloc"}

Workers    == 0 .. N - 1
Dispatcher == N
Loops      == 0 .. N       \* the schedulers, each with its runner thread

VARIABLES
  \* members of Runtime
  state,         \* state_
  next_worker,   \* next_worker_
  \* the owner's thread
  call,          \* the member function it is in
  step,          \* that function's progress through the schedulers
  phase,         \* where it is in stopping one of them
  closing,       \* whether the destructor was called
  starts,        \* calls of start() so far
  \* per scheduler: std::jthread, and the state of Scheduler
  runner,        \* the thread: none, running run(), or returned and not joined
  stopping,      \* its stop token
  inbox, local, tasks,
  \* history
  sent,          \* the jobs in the order in which they were posted
  home,          \* the scheduler a job was handed to
  finished, dropped

ownerVars  == <<call, step, phase, closing, starts>>
threadVars == <<runner, stopping>>
queueVars  == <<inbox, local, tasks>>
jobVars    == <<sent, home, finished, dropped>>
vars == <<state, next_worker, ownerVars, threadVars, queueVars, jobVars>>

Init ==
  /\ state = "Idle" /\ next_worker = 0
  /\ call = "none" /\ step = 0 /\ phase = "request" /\ closing = FALSE /\ starts = 0
  /\ runner = [l \in Loops |-> "none"] /\ stopping = [l \in Loops |-> FALSE]
  /\ inbox = [l \in Loops |-> <<>>] /\ local = [l \in Loops |-> <<>>]
  /\ tasks = [l \in Loops |-> {}]
  /\ sent = <<>> /\ home = [j \in Jobs |-> Dispatcher]
  /\ finished = {} /\ dropped = {}

-----------------------------------------------------------------------------
(* Clients.  Any thread, as long as the members exist: before start() and  *)
(* after stop() too, and from a job that the destructor's stop() waits for.*)
Post(j) ==
  /\ call \notin {"destroy", "gone", "raced"} /\ j \notin Elements(sent)
  /\ sent' = Append(sent, j)
  /\ inbox' = [inbox EXCEPT ![Dispatcher] = Append(@, j)]
  /\ UNCHANGED <<state, next_worker, ownerVars, threadVars,
                 local, tasks, home, finished, dropped>>

-----------------------------------------------------------------------------
(* start().  In state Running it throws RuntimeNotIdle and changes nothing.*)
Start ==
  /\ call = "none" /\ ~closing /\ starts < MaxStarts
  /\ state \in {"Idle", "Stopped"}
  /\ call' = "start" /\ step' = 0 /\ starts' = starts + 1
  /\ UNCHANGED <<state, next_worker, phase, closing, threadVars, queueVars, jobVars>>

StartDispatcherFirst(l) ==     \* mutant of Startee
  l = IF step = 0 THEN Dispatcher ELSE step - 1

(* The workers in order, then the dispatcher.                              *)
Startee(l) == l = step

Started ==
  IF step < N
  THEN step' = step + 1 /\ UNCHANGED <<state, call>>
  ELSE step' = 0 /\ state' = "Running" /\ call' = "none"

StartLoop ==
  /\ call = "start"
  /\ \E l \in Loops :
       /\ Startee(l) /\ runner[l] = "none"
       /\ runner' = [runner EXCEPT ![l] = "run"]
       /\ stopping' = [stopping EXCEPT ![l] = FALSE]
  /\ Started
  /\ UNCHANGED <<next_worker, phase, closing, starts, queueVars, jobVars>>

(* The jthread of a worker still runs, because an earlier start() failed   *)
(* half-way.  The new thread is created, and runs, before the assignment   *)
(* stops and joins the old one.  Two threads in one Scheduler: undefined,  *)
(* and the model ends.                                                     *)
ReplaceLoop ==
  /\ call = "start" /\ call' = "raced"
  /\ \E l \in Loops : Startee(l) /\ runner[l] = "run"
  /\ UNCHANGED <<state, next_worker, step, phase, closing, starts, threadVars,
                 queueVars, jobVars>>

(* std::jthread's constructor throws std::system_error.                    *)
StartFails ==
  /\ "thread" \in Faults /\ call = "start"
  /\ call' = "none" /\ step' = 0
  /\ UNCHANGED <<state, next_worker, phase, closing, starts, threadVars, queueVars, jobVars>>

-----------------------------------------------------------------------------
(* stop(), which returns at once unless the state is Running.              *)
Stop ==
  /\ call = "none" /\ ~closing /\ state = "Running"
  /\ call' = "stop" /\ step' = 0 /\ phase' = "request"
  /\ UNCHANGED <<state, next_worker, closing, starts, threadVars, queueVars, jobVars>>

(* The destructor: stop(), if running, then the members' destructors.      *)
Destroy ==
  /\ call = "none" /\ ~closing
  /\ closing' = TRUE /\ step' = 0 /\ phase' = "request"
  /\ call' = IF state = "Running" THEN "stop" ELSE "destroy"
  /\ UNCHANGED <<state, next_worker, starts, threadVars, queueVars, jobVars>>

StopInOrder(l) ==              \* mutant of Stoppee: the dispatcher last
  call \in {"stop", "destroy"} /\ l = step

(* stop() turns to the dispatcher, then to the workers in order; members   *)
(* are destroyed in reverse: the workers, then the dispatcher's thread.    *)
Stoppee(l) ==
  \/ call = "stop" /\ l = IF step = 0 THEN Dispatcher ELSE step - 1
  \/ call = "destroy" /\ l = step

HasThread(l) == runner[l] # "none"

RequestStop ==
  /\ phase = "request" /\ phase' = "join"
  /\ \E l \in Loops : Stoppee(l) /\ stopping' = [stopping EXCEPT ![l] = HasThread(l)]
  /\ UNCHANGED <<state, next_worker, call, step, closing, starts, runner,
                 queueVars, jobVars>>

JoinedAtOnce(l) == TRUE        \* mutant of Joined: no join()
Joined(l) == runner[l] # "run"

Join ==
  /\ phase = "join" /\ phase' = "shutdown"
  /\ \E l \in Loops :
       /\ Stoppee(l) /\ Joined(l)
       /\ runner' = [runner EXCEPT ![l] = IF @ = "run" THEN @ ELSE "none"]
  /\ UNCHANGED <<state, next_worker, call, step, closing, starts, stopping,
                 queueVars, jobVars>>

StopEnds ==
  /\ step' = 0
  /\ IF call = "stop"
     THEN state' = "Stopped" /\ call' = IF closing THEN "destroy" ELSE "none"
     ELSE call' = "gone" /\ UNCHANGED state

StopNextAgain ==               \* mutants of StopNext: from the start again,
  IF step < N THEN step' = step + 1 /\ UNCHANGED <<state, call>>
  ELSE step' = 0 /\ UNCHANGED <<state, call>>
StopNextPastEnd ==             \* and one worker too many
  IF step <= N THEN step' = step + 1 /\ UNCHANGED <<state, call>> ELSE StopEnds
StopNext ==
  IF step < N THEN step' = step + 1 /\ UNCHANGED <<state, call>> ELSE StopEnds

ShutSkipsTasks(l) == local[l] = <<>>   \* mutant of Shut: no wait for tasks_
Shut(l) == local[l] = <<>> /\ tasks[l] = {}

(* Scheduler::shutdown() returns once tasks_ is empty.                     *)
ShutdownReturns ==
  /\ phase = "shutdown" /\ phase' = "request"
  /\ \E l \in Loops : Stoppee(l) /\ Shut(l)
  /\ StopNext
  /\ UNCHANGED <<next_worker, closing, starts, threadVars, queueVars, jobVars>>

-----------------------------------------------------------------------------
(* The schedulers.  One is driven by its runner, or by the owner while it  *)
(* is in shutdown(), which drains only as long as tasks_ is not empty.     *)
InRun(l)      == runner[l] = "run" /\ call # "raced"
InShutdown(l) == phase = "shutdown" /\ Stoppee(l)
Driven(l)     == InRun(l) \/ InShutdown(l)

Swapped(l) == [inbox EXCEPT ![l] = <<>>]

(* drain_inbox() swaps the inbox out ...                                   *)
TakeInbox(l) ==
  /\ InRun(l) \/ (InShutdown(l) /\ tasks[l] # {})
  /\ local[l] = <<>> /\ inbox[l] # <<>>
  /\ local' = [local EXCEPT ![l] = inbox[l]]
  /\ inbox' = Swapped(l)
  /\ UNCHANGED <<state, next_worker, ownerVars, threadVars, tasks, jobVars>>

(* ... and calls what it got.  The callable post() gave the dispatcher     *)
(* picks a worker and posts the job there.                                 *)
DispatchTo(w) ==
  /\ Driven(Dispatcher) /\ local[Dispatcher] # <<>>
  /\ LET j == Head(local[Dispatcher])
     IN inbox' = [inbox EXCEPT ![w] = Append(@, j)] /\ home' = [home EXCEPT ![j] = w]
  /\ local' = [local EXCEPT ![Dispatcher] = Tail(@)]
  /\ UNCHANGED <<state, ownerVars, threadVars, tasks, sent, finished, dropped>>

Load     == next_worker        \* mutant of FetchAdd
FetchAdd == (next_worker + 1) % CounterSize

Dispatch == DispatchTo(next_worker % N) /\ next_worker' = FetchAdd

Called(w, j) ==
  /\ Driven(w) /\ local[w] # <<>> /\ j = Head(local[w])
  /\ local' = [local EXCEPT ![w] = Tail(@)]
  /\ UNCHANGED <<state, next_worker, ownerVars, threadVars, sent, home, finished>>

(* The job's spawn() succeeds, throws SQFull, or throws something else.    *)
Accept(w, j) ==
  /\ Called(w, j)
  /\ tasks' = [tasks EXCEPT ![w] = @ \cup {j}] /\ UNCHANGED <<inbox, dropped>>

BackTwice(w, j)   == [l \in Loops |-> IF l \in {w, Dispatcher} THEN Append(inbox[l], j)
                                                               ELSE inbox[l]]
BackFirst(w, j)   == [inbox EXCEPT ![w] = <<j>> \o @]
BackNowhere(w, j) == inbox     \* mutants of Back
Back(w, j)        == [inbox EXCEPT ![w] = Append(@, j)]

Requeue(w, j) ==
  /\ "sqfull" \in Faults /\ Called(w, j)
  /\ inbox' = Back(w, j) /\ UNCHANGED <<tasks, dropped>>
Drop(w, j) ==
  /\ "alloc" \in Faults /\ Called(w, j)
  /\ dropped' = dropped \cup {j} /\ UNCHANGED <<inbox, tasks>>

(* A coroutine ends and reap() destroys its frame.                         *)
Finish(w, j) ==
  /\ Driven(w) /\ local[w] = <<>> /\ j \in tasks[w]
  /\ tasks' = [tasks EXCEPT ![w] = @ \ {j}] /\ finished' = finished \cup {j}
  /\ UNCHANGED <<state, next_worker, ownerVars, threadVars, inbox, local,
                 sent, home, dropped>>

(* run()'s loop test after a stop was requested, between two drain()s.     *)
RunReturns(l) ==
  /\ InRun(l) /\ stopping[l] /\ local[l] = <<>>
  /\ runner' = [runner EXCEPT ![l] = "exited"]
  /\ UNCHANGED <<state, next_worker, ownerVars, stopping, queueVars, jobVars>>

-----------------------------------------------------------------------------
Owner == Start \/ StartLoop \/ ReplaceLoop \/ StartFails \/ Stop \/ Destroy
         \/ RequestStop \/ Join \/ ShutdownReturns
Runner(l) == TakeInbox(l) \/ RunReturns(l)
Job(w, j) == Accept(w, j) \/ Requeue(w, j) \/ Drop(w, j) \/ Finish(w, j)

(* Destroyed, or past undefined behaviour: nothing more happens.           *)
Ended == call \in {"gone", "raced"} /\ UNCHANGED vars

Next ==
  \/ Owner \/ Dispatch \/ Ended
  \/ \E j \in Jobs : Post(j)
  \/ \E l \in Loops : Runner(l)
  \/ \E w \in Workers, j \in Jobs : Job(w, j)

Spec == Init /\ [][Next]_vars

(* Fairness.  Threads are scheduled, a drain() under way ends, coroutines  *)
(* end, and a job that is refused again and again is at last accepted: a   *)
(* drain() that requeues it also submits what filled the ring.  Nobody has *)
(* to call post(), start(), stop() or the destructor.                      *)
Fairness ==
  /\ WF_vars(StartLoop \/ ReplaceLoop)
  /\ WF_vars(RequestStop) /\ WF_vars(Join) /\ WF_vars(ShutdownReturns)
  /\ WF_vars(Dispatch)
  /\ \A l \in Loops : WF_vars(TakeInbox(l)) /\ WF_vars(RunReturns(l))
  /\ \A w \in Workers, j \in Jobs : SF_vars(Accept(w, j)) /\ SF_vars(Finish(w, j))

FairSpec == Spec /\ Fairness

-----------------------------------------------------------------------------
(* Types.                                                                  *)
TypeOK ==
  /\ state \in {"Idle", "Running", "Stopped"}
  /\ next_worker \in 0 .. CounterSize - 1
  /\ call \in {"none", "start", "stop", "destroy", "gone", "raced"}
  /\ step \in 0 .. N /\ phase \in {"request", "join", "shutdown"}
  /\ closing \in BOOLEAN /\ starts \in 0 .. MaxStarts
  /\ runner \in [Loops -> {"none", "run", "exited"}]
  /\ stopping \in [Loops -> BOOLEAN]
  /\ inbox \in [Loops -> Seq(Jobs)] /\ local \in [Loops -> Seq(Jobs)]
  /\ tasks \in [Loops -> SUBSET Jobs]
  /\ sent \in Seq(Jobs) /\ home \in [Jobs -> Loops]
  /\ finished \subseteq Jobs /\ dropped \subseteq Jobs

(* A job is in exactly one place: queued at the scheduler it was handed    *)
(* to, or owned there, or over.  So no stop(), restart or requeue loses    *)
(* a job that post() took, or lets two workers run it.                     *)
Queue(l) == local[l] \o inbox[l]
Holds(l) == Elements(Queue(l)) \cup tasks[l]

OneWorker ==
  /\ \A l \in Loops : Unique(Queue(l)) /\ Elements(Queue(l)) \cap tasks[l] = {}
  /\ \A j \in Elements(sent) :
       IF j \in finished \cup dropped
       THEN \A l \in Loops : j \notin Holds(l)
       ELSE {l \in Loops : j \in Holds(l)} = {home[j]}

(* Each scheduler of the runtime keeps to what module Scheduler shows of   *)
(* one: it implements EventLoop.  To the dispatcher a job is over once it  *)
(* was handed on.                                                          *)
Over(l) == {j \in Elements(sent) : IF l = Dispatcher THEN home[j] # l
                                   ELSE home[j] = l /\ j \in finished \cup dropped}

Loop(l) == INSTANCE EventLoop WITH queue <- Queue(l), owned <- tasks[l], over <- Over(l)

LoopStep(l) == Loop(l)!LNext \/ UNCHANGED <<Queue(l), tasks[l], Over(l)>>

EventLoops == (\A l \in Loops : Loop(l)!LInit) /\ [][\A l \in Loops : LoopStep(l)]_vars

(* The jobs are dealt out in the order in which they were posted, to the   *)
(* workers in turn, across stops and restarts.                             *)
Turn(k) == ((k - 1) % CounterSize) % N

RoundRobin ==
  \A k \in 1 .. Len(sent) :
    home[sent[k]] # Dispatcher =>
      /\ home[sent[k]] = Turn(k)
      /\ \A i \in 1 .. k : home[sent[i]] # Dispatcher

(* The dispatcher runs only while every worker does and none was asked to  *)
(* stop, so that a job is never posted to a scheduler on its way out:      *)
(* start() starts it last, stop() joins it first.                          *)
DispatcherInside ==
  runner[Dispatcher] # "none" =>
    \A w \in Workers : runner[w] = "run" /\ ~stopping[w]

(* When the destructor has returned no thread is left, no coroutine and no *)
(* half-served inbox, even if start() failed half-way.                     *)
Silent == \A l \in Loops : runner[l] = "none" /\ tasks[l] = {} /\ local[l] = <<>>

QuietWhenGone == call = "gone" => Silent

(* The same when stop() has returned: a second start() begins clean.       *)
QuietWhenStopped == call = "none" /\ state = "Stopped" => Silent

(* One thread at a time drives a scheduler: Scheduler::spawn(), drain()    *)
(* and tasks_ are not synchronised.                                        *)
OneDriver ==
  call # "raced" /\ \A l \in Loops : ~(InRun(l) /\ InShutdown(l))

(* Why: which threads exist at each point of start(), stop() and the       *)
(* destructor.  A scheduler without a thread is at rest unless shutdown()  *)
(* drives it.                                                              *)
Running(w) == runner[w] = "run" /\ ~stopping[w]

StartInv == call = "start" => \A w \in Workers : w < step => Running(w)

DispatcherInv ==
  /\ state # "Running" => runner[Dispatcher] = "none"
  /\ state = "Running" => call \in {"none", "stop"}
  /\ state = "Running" /\ call = "none" => \A w \in Workers : Running(w)
  /\ call = "stop" =>
       /\ state = "Running"
       /\ IF step = 0 /\ phase # "shutdown"
          THEN \A w \in Workers : Running(w)
          ELSE runner[Dispatcher] = "none"

Gone(l) ==
  \/ call = "stop" /\ ((l = Dispatcher /\ step > 0) \/ l < step - 1)
  \/ call = "destroy" /\ l < step
  \/ call = "gone"
  \/ InShutdown(l)

ThreadInv == \A l \in Loops : Gone(l) => runner[l] = "none"

RestInv ==
  \A l \in Loops :
    /\ runner[l] = "exited" => local[l] = <<>>
    /\ runner[l] = "none" /\ ~InShutdown(l) => local[l] = <<>> /\ tasks[l] = {}

(* Together they say of every point of start(), stop() and the destructor  *)
(* which threads exist and what they may have left behind.                 *)
LifecycleInv == StartInv /\ DispatcherInv /\ ThreadInv /\ RestInv

(* Every job that was posted comes to its end, before the first start() or *)
(* after a stop() too, if the runtime is in the end left running.          *)
JobsRun ==
  <>[](state = "Running" /\ call = "none") =>
    \A j \in Jobs : j \in Elements(sent) ~> j \in finished \cup dropped

(* start(), stop() and the destructor return (or start() replaced a thread *)
(* that still runs, and all is undefined).                                 *)
CallsReturn == call \in {"start", "stop", "destroy"} ~> call \in {"none", "gone", "raced"}
=============================================================================
