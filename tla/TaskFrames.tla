---------------------------- MODULE TaskFrames ----------------------------
(***************************************************************************)
(* The state of a thread that runs coroutines, and what task.h does to     *)
(* their frames: how a body goes on, ends, throws, and what ~Task frees.   *)
(* Module Coroutines has the steps.                                        *)
(***************************************************************************)
EXTENDS Integers, Queues

VARIABLES
  id, prog,     \* the program being run and its text, Programs[id]
  kernel,       \* descriptors and files
  env,          \* the variables of the program
  outside,      \* what the other thread still has to do
  frames,       \* coroutine frames, in order of creation
  cur,          \* the frame whose code the thread runs, 0 if none
  calls,        \* the resume() calls in progress, innermost last
  at,           \* where the thread is
  mpc,          \* main's next statement
  tl_sq_full,   \* the thread-local side channel
  tasks,        \* Scheduler::tasks_
  sq, eventfd_armed,
  inflight,     \* frames whose operation the kernel holds
  timers,       \* those with a linked timeout
  cq,           \* completions not yet consumed
  refused,      \* <<root, spawning>> of every co_await that found no room
  killed,       \* [task, by]: tasks an SQFull destroyed after they ran, inside the resume()s of by
  overwritten   \* frames whose staged SQE the eventfd read was written over

(* The completion of a linked timeout, which drain() skips. *)
Null == [awt |-> 0, res |-> 0]

(* A spawn() inside a resume() of r took the flag for its own task. *)
MisblamedBy(r) == \E x \in killed : r \in x.by

-----------------------------------------------------------------------------
(* A Task's frame: created suspended (initial_suspend), owned through the   *)
(* Task object, child being the Task a co_await in it holds, val the        *)
(* optional value.                                                          *)
Frame(fn, cont, root) ==
  [fn |-> fn, pc |-> 1, cont |-> cont, child |-> 0, root |-> root,
   exc |-> "", val |-> <<>>, st |-> "initial"]

NewFrame == Len(frames) + 1

Code(f) == prog.code[frames[f].fn]
Stmt(f) == IF frames[f].pc > Len(Code(f)) THEN [do |-> "fall"] ELSE Code(f)[frames[f].pc]

Assign(e, v, x) == IF v = "" THEN e ELSE [e EXCEPT ![v] = x]

OwnedShallow(fr, S) == S \ {0}      \* mutant of Owned

(* handle_.destroy() of ~Task: the frames and the Tasks that live in them,  *)
(* which is what every set with S and the child of each member contains.    *)
Owned(fr, S) ==
  {g \in DOMAIN fr : \A C \in SUBSET DOMAIN fr :
     S \ {0} \subseteq C /\ (\A f \in C : fr[f].child \in C \cup {0}) => g \in C}

Destroy(fr, S) ==
  LET gone == Owned(fr, S)
  IN  [f \in DOMAIN fr |-> IF f \in gone THEN [fr[f] EXCEPT !.st = "freed"] ELSE fr[f]]

ResultIgnoresException(fr, t) ==        \* mutant of ResultOf
  [exc |-> "", val |-> IF fr[t].val = <<>> THEN 0 ELSE fr[t].val[1]]

(* Task::result(): the stored exception, the value, or T{}. *)
ResultOf(fr, t) == [exc |-> fr[t].exc, val |-> IF fr[t].val = <<>> THEN 0 ELSE fr[t].val[1]]

(* The statement of frame f is over, with value x for its variable. *)
Yields(f, x, fr) ==
  /\ frames' = [fr EXCEPT ![f].pc = @ + 1]
  /\ env' = Assign(env, IF "to" \in DOMAIN Stmt(f) THEN Stmt(f).to ELSE "", x)
  /\ cur' = f

FinalToNoop(fr, f) == 0     \* mutant of FinalAwaiter

(* FinalAwaiter::await_suspend: symmetric transfer to the continuation, or *)
(* to the noop coroutine, which returns to whoever called resume().        *)
FinalAwaiter(fr, f) == fr[f].cont

(* The body of f is over: co_return, or unhandled_exception. *)
Finish(f, exc, val, fr) ==
  /\ frames' = [fr EXCEPT ![f].exc = exc, ![f].val = val, ![f].st = "final"]
  /\ cur' = FinalAwaiter(fr, f)

(* The statement of frame f throws x: to its try block or out of the body. *)
Throws(f, x, fr) ==
  IF Stmt(f).catch # ""
  THEN /\ frames' = [fr EXCEPT ![f].pc = @ + 1]
       /\ env' = [env EXCEPT ![Stmt(f).catch] = x]
       /\ cur' = f
  ELSE /\ Finish(f, x, <<>>, fr)
       /\ env' = env

=============================================================================
