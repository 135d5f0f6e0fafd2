----------------------------- MODULE EventLoop -----------------------------
(***************************************************************************)
(* What a Scheduler promises of the callables handed to it, whatever       *)
(* threads, wake-ups, rings and restarts are behind it: they are called in *)
(* the order in which they were queued, each leaves one coroutine behind   *)
(* or none, and none is lost, doubled or called again once it is over.     *)
(* Scheduler implements this for one io_uring; every scheduler of a        *)
(* Runtime is abstracted to it.                                            *)
(***************************************************************************)
EXTENDS Queues

CONSTANT Jobs

VARIABLES
  queue,    \* callables waiting to be called, in order
  owned,    \* those whose coroutine lives
  over      \* those whose coroutine ended, or that left none behind

LInit == queue = <<>> /\ owned = {} /\ over = {}

Fresh(j) == j \notin Elements(queue) \cup owned \cup over

(* A callable is posted. *)
Hand(j) == Fresh(j) /\ queue' = Append(queue, j) /\ UNCHANGED <<owned, over>>

(* The owner spawns a coroutine itself; spawn() may throw. *)
Spawn(j) ==
  /\ Fresh(j) /\ UNCHANGED queue
  /\ \/ owned' = owned \cup {j} /\ UNCHANGED over
     \/ over' = over \cup {j} /\ UNCHANGED owned

(* The first callable is called: its coroutine is owned now, or it is put   *)
(* back at the end, or nothing is left of it.                               *)
Call ==
  /\ queue # <<>>
  /\ \/ queue' = Tail(queue) /\ owned' = owned \cup {Head(queue)} /\ UNCHANGED over
     \/ queue' = Append(Tail(queue), Head(queue)) /\ UNCHANGED <<owned, over>>
     \/ queue' = Tail(queue) /\ over' = over \cup {Head(queue)} /\ UNCHANGED owned

(* Coroutines end and are destroyed. *)
End ==
  \E J \in (SUBSET owned) \ {{}} :
    owned' = owned \ J /\ over' = over \cup J /\ UNCHANGED queue

LNext == (\E j \in Jobs : Hand(j) \/ Spawn(j)) \/ Call \/ End

LSpec == LInit /\ [][LNext]_<<queue, owned, over>>
=============================================================================
