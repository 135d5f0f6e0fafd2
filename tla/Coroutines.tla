---------------------------- MODULE Coroutines ----------------------------
(***************************************************************************)
(* Task<T> of task.h, Awaitable of src/awaitable.cpp and the spawn, drain, *)
(* reap and shutdown of Scheduler, at the level of coroutine frames: who   *)
(* resumes whom, where a value or an exception goes, and who destroys what.*)
(* A program is a main function and the coroutines it spawns, as sequences *)
(* of statements; the thread runs it one statement at a time while the     *)
(* kernel completes requests in any order.                                 *)
(*                                                                         *)
(* Module Scheduler has the concurrency of post() and run(); here nothing  *)
(* is posted, and the loop is the one of shutdown(), which never blocks.   *)
(***************************************************************************)
EXTENDS Operations, TaskFrames

CONSTANTS
  Programs,     \* the programs to run, each made by Program below, under some ids
  MaxFrames     \* no program makes more coroutine frames than this

(* A ring has at least one entry, and main is a sequence of statements.     *)
Runnable(ps) == \A i \in DOMAIN ps : ps[i].size \in Nat \ {0} /\ Len(ps[i].main) \in Nat

ASSUME ProgramsAssumption == Runnable(Programs)

Q(n) == INSTANCE SubmissionQueue WITH Entries <- n

-----------------------------------------------------------------------------
(* Statements of a coroutine.  "to" names the variable that gets the        *)
(* result, "catch" the one that gets the exception of a try block.          *)
Await(v, o)       == [do |-> "await", to |-> v, on |-> "", op |-> o]
AwaitOn(v, fd, o) == [do |-> "await", to |-> v, on |-> fd, op |-> o]  \* o on the descriptor in fd
Call(v, fn)       == [do |-> "call", to |-> v, fn |-> fn, catch |-> ""]
TryCall(v, fn)    == [do |-> "call", to |-> "", fn |-> fn, catch |-> v]
Spawn(fn)         == [do |-> "spawn", fn |-> fn, catch |-> ""]
TrySpawn(v, fn)   == [do |-> "spawn", fn |-> fn, catch |-> v]
Push(v, x)        == [do |-> "push", to |-> v, val |-> x]
Throw(x)          == [do |-> "throw", val |-> x]
Return(v, plus)   == [do |-> "return", val |-> v, plus |-> plus]
IfNotNeg(v, n)    == [do |-> "if", val |-> v, skip |-> n]   \* guards the next n statements

(* Statements of main only.  A Task variable holds a frame, or 0 for null. *)
Make(t, fn)      == [do |-> "make", task |-> t, fn |-> fn]
Move(t, u)       == [do |-> "move", task |-> u, from |-> t]
Resume(t)        == [do |-> "resume", task |-> t]
Done(v, t)       == [do |-> "done", to |-> v, task |-> t]
GetResult(v, t)  == [do |-> "result", to |-> v, task |-> t, catch |-> ""]
TryResult(v, t)  == [do |-> "result", to |-> "", task |-> t, catch |-> v]
PeerWrite(fd, b) == [do |-> "write", fd |-> fd, val |-> b]
PeerRead(v, fd)  == [do |-> "read", fd |-> fd, to |-> v]
Require(want)    == [do |-> "require", val |-> want]    \* REQUIRE: the values each variable may have
Shutdown         == [do |-> "shutdown"]     \* also what ~Scheduler does

(* entries: of the ring; other: the listeners another thread connects to    *)
(* meanwhile.                                                               *)
Program(entries, machine, init, code, main, other) ==
  [size |-> entries, kernel |-> machine, env |-> init, code |-> code, main |-> main, outside |-> other]

-----------------------------------------------------------------------------
program == <<id, prog, env, frames, cur, calls, at, mpc>>
ring    == <<sq, eventfd_armed, inflight, timers, cq>>
ghosts  == <<refused, killed, overwritten>>
vars    == <<program, kernel, outside, tl_sq_full, tasks, ring, ghosts>>

Init ==
  /\ id \in DOMAIN Programs /\ prog = Programs[id]
  /\ kernel = prog.kernel /\ env = prog.env /\ outside = prog.outside
  /\ frames = <<>> /\ cur = 0 /\ calls = <<>> /\ at = "main" /\ mpc = 1
  /\ tl_sq_full = FALSE /\ tasks = {}
  /\ sq = <<>> /\ eventfd_armed = FALSE /\ inflight = {} /\ timers = {} /\ cq = <<>>
  /\ refused = {} /\ killed = {} /\ overwritten = {}

Main == prog.main[mpc]

(* The operation frame f awaits, its descriptor looked up. *)
OpOf(f) ==
  IF Stmt(f).on = "" THEN Stmt(f).op ELSE [Stmt(f).op EXCEPT !.fd = env[Stmt(f).on]]

Running(do) == at = "code" /\ cur # 0 /\ Stmt(cur).do = do
InMain(do)  == at = "main" /\ mpc <= Len(prog.main) /\ Main.do = do

-----------------------------------------------------------------------------
(* Awaitable::await_suspend with room in the ring: the SQEs are staged and  *)
(* resume() returns to its caller.                                          *)
Suspend ==
  /\ Running("await")
  /\ Q(prog.size)!HasCapacity(sq, Slots(OpOf(cur)))
  /\ sq' = Q(prog.size)!Stage(sq, cur, Slots(OpOf(cur)))
  /\ cur' = 0
  /\ UNCHANGED <<id, prog, env, frames, calls, at, mpc, kernel, outside, tl_sq_full, tasks,
                 eventfd_armed, inflight, timers, cq, ghosts>>

(* await_suspend without room: the flag is set and the coroutine goes on   *)
(* with result 0.                                                          *)
Refuse ==
  /\ Running("await")
  /\ ~Q(prog.size)!HasCapacity(sq, Slots(OpOf(cur)))
  /\ tl_sq_full' = TRUE
  /\ Yields(cur, 0, frames)
  /\ refused' = refused \cup {<<frames[cur].root, calls[Len(calls)].by = "spawn">>}
  /\ UNCHANGED <<id, prog, calls, at, mpc, kernel, outside, tasks, ring, killed, overwritten>>

(* Task::await_suspend: the inner Task is made, gets its continuation and  *)
(* runs at once.                                                           *)
CoAwait ==
  /\ Running("call")
  /\ frames[cur].child = 0
  /\ frames' = Append([frames EXCEPT ![cur].child = NewFrame],
                      [Frame(Stmt(cur).fn, cur, frames[cur].root) EXCEPT !.st = "started"])
  /\ cur' = NewFrame
  /\ UNCHANGED <<id, prog, env, calls, at, mpc, kernel, outside, tl_sq_full, tasks, ring, ghosts>>

(* Task::await_resume in the continuation: result() of the inner Task, and *)
(* the end of the full expression that destroys it.                        *)
AwaitResume ==
  /\ Running("call")
  /\ frames[cur].child # 0
  /\ LET inner == ResultOf(frames, frames[cur].child)
         fr    == [Destroy(frames, {frames[cur].child}) EXCEPT ![cur].child = 0]
     IN  IF inner.exc # "" THEN Throws(cur, inner.exc, fr) ELSE Yields(cur, inner.val, fr)
  /\ UNCHANGED <<id, prog, calls, at, mpc, kernel, outside, tl_sq_full, tasks, ring, ghosts>>

(* The operand of a co_return: a variable, a number, or a variable plus one. *)
Returned(s) ==
  CASE s.val = ""  -> s.plus
    [] s.plus = 0  -> env[s.val]
    [] OTHER       -> env[s.val] + s.plus

(* Plain statements, co_return, throw, and the end of the body. *)
Plain ==
  /\ at = "code" /\ cur # 0
  /\ \/ /\ Running("push")
        /\ Yields(cur, Append(env[Stmt(cur).to], Stmt(cur).val), frames)
     \/ /\ Running("if")
        /\ frames' = [frames EXCEPT ![cur].pc = @ + 1 + (IF env[Stmt(cur).val] < 0 THEN Stmt(cur).skip ELSE 0)]
        /\ UNCHANGED <<env, cur>>
     \/ Running("throw") /\ Finish(cur, Stmt(cur).val, <<>>, frames) /\ env' = env
     \/ Running("fall") /\ Finish(cur, "", <<>>, frames) /\ env' = env
     \/ /\ Running("return")
        /\ Finish(cur, "", <<Returned(Stmt(cur))>>, frames)
        /\ env' = env
  /\ UNCHANGED <<id, prog, calls, at, mpc, kernel, outside, tl_sq_full, tasks, ring, ghosts>>

-----------------------------------------------------------------------------
(* Scheduler::spawn, called by main (by = 0) or by the running coroutine.   *)
Spawning(by) == IF by = 0 THEN InMain("spawn") ELSE cur = by /\ Running("spawn")
SpawnStmt(by) == IF by = 0 THEN Main ELSE Stmt(by)

(* spawn() ends by throwing SQFull into its caller, or by returning. *)
SpawnThrows(by, fr) ==
  IF by # 0 THEN Throws(by, "SQFull", fr) /\ at' = "code" /\ mpc' = mpc
  ELSE /\ frames' = fr /\ cur' = 0
       /\ env' = Assign(env, Main.catch, "SQFull")
       /\ IF Main.catch # "" THEN at' = "main" /\ mpc' = mpc + 1
                             ELSE at' = "aborted" /\ mpc' = mpc

SpawnReturns(by) ==
  IF by # 0 THEN Yields(by, 0, frames) /\ at' = "code" /\ mpc' = mpc
  ELSE frames' = frames /\ env' = env /\ cur' = 0 /\ at' = "main" /\ mpc' = mpc + 1

(* The test before resume(): the Task is dropped before any of it ran. *)
SpawnFull(by) ==
  /\ Spawning(by)
  /\ Q(prog.size)!SqFull(sq)
  /\ SpawnThrows(by, frames)
  /\ UNCHANGED <<id, prog, calls, kernel, outside, tl_sq_full, tasks, ring, ghosts>>

(* handle.resume() of the new Task. *)
SpawnResume(by) ==
  /\ Spawning(by)
  /\ ~Q(prog.size)!SqFull(sq)
  /\ frames' = Append(frames, [Frame(SpawnStmt(by).fn, 0, NewFrame) EXCEPT !.st = "started"])
  /\ calls' = Append(calls, [by |-> "spawn", task |-> NewFrame, caller |-> by])
  /\ cur' = NewFrame
  /\ at' = "code"
  /\ UNCHANGED <<id, prog, env, mpc, kernel, outside, tl_sq_full, tasks, ring, ghosts>>

(* A resume() returned to by: nothing runs and by is the innermost call. *)
ReturnedTo(by) == at = "code" /\ cur = 0 /\ calls[Len(calls)].by = by

SpawnForgetsFlag ==     \* mutant of SpawnLateThrow
  /\ ReturnedTo("spawn")
  /\ tl_sq_full
  /\ SpawnReturns(calls[Len(calls)].caller)
  /\ tasks' = tasks \cup {calls[Len(calls)].task}
  /\ tl_sq_full' = FALSE
  /\ calls' = SubSeq(calls, 1, Len(calls) - 1)
  /\ UNCHANGED <<id, prog, kernel, outside, ring, ghosts>>

(* take_pending_sq_error() finds the flag: spawn throws, and the Task it    *)
(* was given is destroyed as the exception leaves.                          *)
SpawnLateThrow ==
  /\ ReturnedTo("spawn")
  /\ tl_sq_full
  /\ LET c == calls[Len(calls)]
     IN  /\ SpawnThrows(c.caller, Destroy(frames, {c.task}))
         /\ killed' = killed \cup {[task |-> c.task, by |-> {calls[i].task : i \in 1 .. Len(calls) - 1}]}
  /\ tl_sq_full' = FALSE
  /\ calls' = SubSeq(calls, 1, Len(calls) - 1)
  /\ UNCHANGED <<id, prog, kernel, outside, tasks, ring, refused, overwritten>>

(* tasks_.push_back(std::move(task)). *)
SpawnPush ==
  /\ ReturnedTo("spawn")
  /\ ~tl_sq_full
  /\ SpawnReturns(calls[Len(calls)].caller)
  /\ tasks' = tasks \cup {calls[Len(calls)].task}
  /\ calls' = SubSeq(calls, 1, Len(calls) - 1)
  /\ UNCHANGED <<id, prog, kernel, outside, tl_sq_full, ring, ghosts>>

-----------------------------------------------------------------------------
(* Statements of main: a Task driven by hand, read and write on a socket.  *)
MainDoes(do) ==
  /\ InMain(do)
  /\ at' = "main" /\ mpc' = mpc + 1
  /\ UNCHANGED <<id, prog, cur, calls, outside, tl_sq_full, tasks, ring, ghosts>>

MakeTask ==
  /\ MainDoes("make")
  /\ frames' = Append(frames, Frame(Main.fn, 0, NewFrame))
  /\ env' = [env EXCEPT ![Main.task] = NewFrame]
  /\ kernel' = kernel

(* Task(Task&&) and operator=(Task&&), which destroys what it held. *)
MoveTask ==
  /\ MainDoes("move")
  /\ frames' = Destroy(frames, {env[Main.task]})
  /\ env' = [env EXCEPT ![Main.task] = env[Main.from], ![Main.from] = 0]
  /\ kernel' = kernel

(* Task::done(). *)
IsDone(t) == t = 0 \/ frames[t].st = "final"

AskDone ==
  /\ MainDoes("done")
  /\ env' = [env EXCEPT ![Main.to] = IsDone(env[Main.task])]
  /\ UNCHANGED <<frames, kernel>>

AskResult ==
  /\ InMain("result")
  /\ LET r == ResultOf(frames, env[Main.task])
     IN  /\ env' = IF r.exc # "" THEN Assign(env, Main.catch, r.exc) ELSE Assign(env, Main.to, r.val)
         /\ IF r.exc # "" /\ Main.catch = "" THEN at' = "aborted" /\ mpc' = mpc
                                            ELSE at' = at /\ mpc' = mpc + 1
  /\ UNCHANGED <<id, prog, frames, cur, calls, kernel, outside, tl_sq_full, tasks, ring, ghosts>>

WriteToPeer ==
  /\ MainDoes("write")
  /\ kernel' = Deliver(kernel, Main.fd, Main.val)
  /\ UNCHANGED <<frames, env>>

ReadFromPeer ==
  /\ MainDoes("read")
  /\ env' = [env EXCEPT ![Main.to] = kernel.fd[Main.fd].in]
  /\ kernel' = [kernel EXCEPT !.fd[Main.fd].in = <<>>]
  /\ frames' = frames

RequireValues ==
  /\ InMain("require")
  /\ IF \A v \in DOMAIN Main.val : env[v] \in Main.val[v] THEN at' = at /\ mpc' = mpc + 1
                                                         ELSE at' = "failed" /\ mpc' = mpc
  /\ UNCHANGED <<id, prog, env, frames, cur, calls, kernel, outside, tl_sq_full, tasks, ring, ghosts>>

(* Task::resume() called by main, and its return. *)
ResumeTask ==
  /\ InMain("resume")
  /\ IF IsDone(env[Main.task]) THEN UNCHANGED <<frames, cur, calls, at>> /\ mpc' = mpc + 1
     ELSE /\ frames' = [frames EXCEPT ![env[Main.task]].st = "started"]
          /\ cur' = env[Main.task]
          /\ calls' = <<[by |-> "main", task |-> env[Main.task], caller |-> 0]>>
          /\ at' = "code" /\ mpc' = mpc
  /\ UNCHANGED <<id, prog, env, kernel, outside, tl_sq_full, tasks, ring, ghosts>>

ResumeReturns ==
  /\ ReturnedTo("main")
  /\ calls' = <<>> /\ at' = "main" /\ mpc' = mpc + 1
  /\ UNCHANGED <<id, prog, env, frames, cur, kernel, outside, tl_sq_full, tasks, ring, ghosts>>

-----------------------------------------------------------------------------
(* Scheduler::shutdown: drain and reap while there are tasks. *)
BeginShutdown ==
  /\ InMain("shutdown")
  /\ IF tasks = {} THEN at' = at /\ mpc' = mpc + 1 ELSE at' = "enter" /\ mpc' = mpc
  /\ UNCHANGED <<id, prog, env, frames, cur, calls, kernel, outside, tl_sq_full, tasks, ring, ghosts>>

DrainKeepsSqes ==       \* mutant of DrainEnter
  /\ at = "enter"
  /\ LET q    == IF eventfd_armed THEN sq ELSE Q(prog.size)!Arm(sq)
         sent == Elements(SubSeq(q, 1, Q(prog.size)!Submittable(q)))
         ops  == {f \in DOMAIN frames : Q(prog.size)!Op(f) \in sent}
     IN  /\ sq' = q
         /\ inflight' = inflight \cup ops
         /\ timers' = timers \cup {f \in DOMAIN frames : Q(prog.size)!LinkTimeout(f) \in sent}
  /\ eventfd_armed' = TRUE
  /\ at' = "wait"
  /\ UNCHANGED <<id, prog, env, frames, cur, calls, mpc, kernel, outside, tl_sq_full, tasks, cq, ghosts>>

(* External: a LINK_TIMEOUT goes with the operation before it, in the same  *)
(* submission, or with none.                                                *)
Linked(q, submitted, f) ==
  \E i \in 2 .. submitted : q[i - 1] = Q(prog.size)!Op(f) /\ q[i] = Q(prog.size)!LinkTimeout(f)

(* The first half of drain(): arm the eventfd read, which nothing here      *)
(* completes, and submit.  A linked timeout that lost its operation only    *)
(* produces a completion that drain() skips.                                *)
DrainEnter ==
  /\ at = "enter"
  /\ LET q    == IF eventfd_armed THEN sq ELSE Q(prog.size)!Arm(sq)
         sent == Elements(SubSeq(q, 1, Q(prog.size)!Submittable(q)))
         ops  == {f \in DOMAIN frames : Q(prog.size)!Op(f) \in sent}
     IN  /\ sq' = Q(prog.size)!Remaining(q)
         /\ inflight' = inflight \cup ops
         /\ timers' = timers \cup {f \in ops : Linked(q, Q(prog.size)!Submittable(q), f)}
         /\ overwritten' = overwritten
              \cup {f \in DOMAIN frames : Q(prog.size)!Op(f) \in Elements(sq) \ Elements(q)}
  /\ eventfd_armed' = TRUE
  /\ at' = "wait"
  /\ UNCHANGED <<id, prog, env, frames, cur, calls, mpc, kernel, outside, tl_sq_full, tasks, cq,
                 refused, killed>>

(* External: completions.  One that comes while the thread is elsewhere is  *)
(* seen no earlier than the next drain, so they all come in the wait; one   *)
(* with a linked timeout leaves a second, null completion.                  *)
Posted(f, res) ==
  /\ at = "wait" /\ f \in inflight
  /\ inflight' = inflight \ {f}
  /\ timers' = timers \ {f}
  /\ cq' = Append(cq, [awt |-> f, res |-> res]) \o (IF f \in timers THEN <<Null>> ELSE <<>>)
  /\ UNCHANGED <<id, prog, frames, cur, calls, at, mpc, outside, tl_sq_full, tasks, sq, eventfd_armed, ghosts>>

(* The kernel refuses a linked timeout before the epoch, and cancels. *)
BadTimespec(o) == o.ts # <<>> /\ (o.ts[1].tv_sec < 0 \/ o.ts[1].tv_nsec < 0)

Complete(f) ==
  /\ f \in inflight
  /\ LET o == OpOf(f)
     IN  /\ Ready(kernel, o) /\ ~BadTimespec(o)
         /\ Posted(f, Result(kernel, o))
         /\ kernel' = Effect(kernel, o)
         /\ env' = IF Fills(kernel, o) THEN Assign(env, Filled(kernel, o).var, Filled(kernel, o).val) ELSE env

(* The deadline passes before the operation is ready. *)
TimeOut(f) ==
  /\ f \in timers
  /\ ~Ready(kernel, OpOf(f)) \/ BadTimespec(OpOf(f))
  /\ Posted(f, ECANCELED)
  /\ UNCHANGED <<kernel, env>>

(* External: a connector thread connects to a listener. *)
Connector ==
  /\ outside # <<>>
  /\ kernel' = [kernel EXCEPT !.fd[Head(outside)].backlog = @ + 1]
  /\ outside' = Tail(outside)
  /\ UNCHANGED <<program, tl_sq_full, tasks, ring, ghosts>>

(* The second half of drain(): a batch of completions, each resuming the   *)
(* frame that awaits it.                                                   *)
WaitReturns ==
  /\ at = "wait"
  /\ at' = "cqes"
  /\ UNCHANGED <<id, prog, env, frames, cur, calls, mpc, kernel, outside, tl_sq_full, tasks, ring, ghosts>>

CqeSkipped ==
  /\ at = "cqes" /\ cq # <<>> /\ Head(cq) = Null
  /\ cq' = Tail(cq)
  /\ UNCHANGED <<program, kernel, outside, tl_sq_full, tasks, sq, eventfd_armed, inflight, timers, ghosts>>

CqeResume ==
  /\ at = "cqes" /\ cq # <<>> /\ Head(cq) # Null
  /\ LET f == Head(cq).awt
     IN  IF frames[f].st = "started"
         THEN /\ Yields(f, Head(cq).res, frames)
              /\ calls' = <<[by |-> "drain", task |-> frames[f].root, caller |-> 0]>>
              /\ at' = "code"
         ELSE at' = "crashed" /\ UNCHANGED <<frames, env, cur, calls>>
  /\ cq' = Tail(cq)
  /\ UNCHANGED <<id, prog, mpc, kernel, outside, tl_sq_full, tasks, sq, eventfd_armed, inflight, timers, ghosts>>

DrainKeepsFlag ==       \* mutant of DrainReturned
  /\ ReturnedTo("drain")
  /\ calls' = <<>> /\ at' = "cqes"
  /\ UNCHANGED <<id, prog, env, frames, cur, mpc, kernel, outside, tl_sq_full, tasks, ring, ghosts>>

(* drain() throws the pending error away. *)
DrainReturned ==
  /\ ReturnedTo("drain")
  /\ tl_sq_full' = FALSE
  /\ calls' = <<>> /\ at' = "cqes"
  /\ UNCHANGED <<id, prog, env, frames, cur, mpc, kernel, outside, tasks, ring, ghosts>>

ReapAll ==      \* mutant of Reap
  /\ at = "cqes" /\ cq = <<>>
  /\ frames' = Destroy(frames, tasks)
  /\ tasks' = {}
  /\ at' = "main" /\ mpc' = mpc + 1
  /\ UNCHANGED <<id, prog, env, cur, calls, kernel, outside, tl_sq_full, ring, ghosts>>

(* Scheduler::reap, and the loop condition of shutdown(). *)
Reap ==
  /\ at = "cqes" /\ cq = <<>>
  /\ LET done == {t \in tasks : IsDone(t)}
     IN  /\ frames' = Destroy(frames, done)
         /\ tasks' = tasks \ done
         /\ IF tasks' = {} THEN at' = "main" /\ mpc' = mpc + 1 ELSE at' = "enter" /\ mpc' = mpc
  /\ UNCHANGED <<id, prog, env, cur, calls, kernel, outside, tl_sq_full, ring, ghosts>>

(* main returned, or the program is dead. *)
Over  == at \in {"aborted", "crashed", "failed"} \/ (at = "main" /\ mpc > Len(prog.main))
Ended == Over /\ UNCHANGED vars

-----------------------------------------------------------------------------
Thread ==
  \/ Suspend \/ Refuse \/ CoAwait \/ AwaitResume \/ Plain
  \/ \E by \in 0 .. Len(frames) : SpawnFull(by) \/ SpawnResume(by)
  \/ SpawnLateThrow \/ SpawnPush
  \/ MakeTask \/ MoveTask \/ AskDone \/ AskResult \/ WriteToPeer \/ ReadFromPeer \/ RequireValues \/ ResumeTask \/ ResumeReturns
  \/ BeginShutdown \/ DrainEnter \/ WaitReturns \/ CqeSkipped \/ CqeResume \/ DrainReturned \/ Reap

Kernel(f) == Complete(f) \/ TimeOut(f)

Next == Thread \/ (\E f \in inflight : Kernel(f)) \/ Connector \/ Ended

Spec == Init /\ [][Next]_vars

(* The thread runs, the other thread connects, and a request the kernel     *)
(* holds completes once it is ready or its deadline passed: strong because  *)
(* completions are only taken into account during the wait.                 *)
FairSpec ==
  /\ Spec
  /\ WF_vars(Thread) /\ WF_vars(Connector)
  /\ \A f \in 1 .. MaxFrames : SF_vars(f \in inflight /\ Kernel(f))

-----------------------------------------------------------------------------
FrameIds == 0 .. Len(frames)

(* Every frame, call, task and completion refers to frames that exist.      *)
TypeOK ==
  /\ Len(frames) <= MaxFrames
  /\ \A f \in DOMAIN frames :
       /\ frames[f].cont \in FrameIds /\ frames[f].child \in FrameIds
       /\ frames[f].root \in DOMAIN frames
       /\ frames[f].st \in {"initial", "started", "final", "freed"}
  /\ cur \in FrameIds /\ tasks \subseteq DOMAIN frames
  /\ at \in {"main", "code", "enter", "wait", "cqes", "aborted", "crashed", "failed"}
  /\ tl_sq_full \in BOOLEAN /\ eventfd_armed \in BOOLEAN
  /\ inflight \subseteq DOMAIN frames /\ timers \subseteq inflight
  /\ \A i \in DOMAIN cq : cq[i].awt \in FrameIds

(* No coroutine handle of task.h dangles, whatever was thrown or destroyed  *)
(* between.  A Task that tasks_ or a live frame holds is not destroyed; and *)
(* as long as an inner Task exists, the coroutine that FinalAwaiter would   *)
(* transfer to is suspended in the co_await that owns it.                   *)
HandlesLive ==
  /\ \A t \in tasks : frames[t].st # "freed"
  /\ \A f \in DOMAIN frames :
       frames[f].st # "freed" =>
         /\ frames[f].child # 0 => frames[frames[f].child].st # "freed"
         /\ frames[f].cont # 0 =>
              LET c == frames[frames[f].cont]
              IN  c.st = "started" /\ c.child = f /\ Stmt(frames[f].cont).do = "call"

(* One coroutine at a time: of the frames that have started and not ended,  *)
(* every one but the running one waits, and for exactly one thing: a staged *)
(* or submitted operation, a completion, an inner Task, or the return of    *)
(* the spawn() it called.  Only an operation that the eventfd read was      *)
(* written over leaves a frame waiting for nothing.                         *)
WaitsFor(f) ==
  (IF Q(prog.size)!Op(f) \in Elements(sq) THEN {"staged"} ELSE {})
  \cup (IF f \in inflight THEN {"kernel"} ELSE {})
  \cup (IF \E i \in DOMAIN cq : cq[i].awt = f THEN {"completion"} ELSE {})
  \cup (IF frames[f].child # 0 THEN {"inner"} ELSE {})
  \cup (IF \E i \in DOMAIN calls : calls[i].by = "spawn" /\ calls[i].caller = f THEN {"spawn"} ELSE {})

OneReasonToWait ==
  \A f \in DOMAIN frames :
    frames[f].st = "started" /\ f # cur =>
      /\ \A x, y \in WaitsFor(f) : x = y
      /\ WaitsFor(f) = {} => f \in overwritten

(* A Task that main resumed itself was refused: Task::resume() does not     *)
(* take the flag.                                                           *)
HandMade(r) == \E i \in DOMAIN prog.main : prog.main[i].do = "make" /\ prog.main[i].fn = frames[r].fn
LeftByHand  == \E r \in DOMAIN frames : <<r, FALSE>> \in refused /\ HandMade(r)

(* The thread-local flag of awaitable.cpp does not survive the spawn() or   *)
(* the drain() in whose resume() it was set: whenever no coroutine code is  *)
(* on the stack it is clear, so that a later, unrelated spawn() cannot find *)
(* it.  Only the refusal of a Task that was resumed by hand leaves it set.  *)
FlagConsumed == at # "code" /\ tl_sq_full => LeftByHand

(* spawn() throws SQFull after the fact only for a task of which, or of one *)
(* of those whose resume() it is nested in, a co_await was refused, or      *)
(* after a Task resumed by hand left the flag.  And it keeps no task of     *)
(* which one was refused during its spawn(), unless a spawn() nested in it  *)
(* has taken the flag for its own task.                                     *)
OnlyNestedSpawnMisblames ==
  /\ \A x \in killed :
       \/ \E r \in {x.task} \cup x.by : \E spawning \in BOOLEAN : <<r, spawning>> \in refused
       \/ LeftByHand
  /\ \A t \in tasks : <<t, TRUE>> \in refused => MisblamedBy(t)

(* A completion is delivered to a destroyed frame only when an SQFull after *)
(* the fact destroyed its task with an operation still staged.              *)
OnlyLateThrowCrashes ==
  \A f \in DOMAIN frames :
    frames[f].st = "freed" /\ WaitsFor(f) \cap {"staged", "kernel", "completion"} # {} =>
      \E x \in killed : x.task = frames[f].root

(* An operation in the kernel has its deadline if and only if with_timeout  *)
(* gave it one, however full the ring was when it was staged: await_suspend *)
(* stages the operation and its LINK_TIMEOUT side by side or not at all,    *)
(* and neither the eventfd read that is written over the oldest SQE nor the *)
(* end of a submission comes between them.                                  *)
DeadlinesLinked == \A f \in inflight : f \in timers <=> OpOf(f).ts # <<>>

=============================================================================
