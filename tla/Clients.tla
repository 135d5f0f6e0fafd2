------------------------------ MODULE Clients ------------------------------
(***************************************************************************)
(* Programs around the Runtime: the multi-worker tests of                  *)
(* tests2/runtime_write.cpp ("write", with a deadline, and "order", which  *)
(* waits for ever) and the hand-off test of tests2/multi_threaded.cpp      *)
(* ("fanout"), which builds the same dispatcher and workers by hand.  The  *)
(* main thread starts them, has the jobs posted, waits on a counter that   *)
(* the jobs' coroutines increment, stops them and checks what was done.    *)
(*                                                                         *)
(* The jobs hold references to the counter, a local of the test that is    *)
(* declared after the Runtime and dies before it.                          *)
(***************************************************************************)
EXTENDS Runtime

(* A finite number of jobs, at least one for each worker: the tests post   *)
(* one or two per worker, or REQUIRE as many files.  size_t counts the     *)
(* workers, and the ring is the only thing that may be short.              *)
ASSUME ClientsAssumption ==
  /\ IsFiniteSet(Jobs) /\ N <= Cardinality(Jobs) /\ N <= CounterSize
  /\ Faults \subseteq {"sqfull"}

Tests == {"write", "order", "fanout"}

VARIABLES
  test,      \* which of them
  main,      \* where its main thread is
  counted    \* the jobs that counted themselves, in that order

allVars == <<vars, test, main, counted>>

CInit == Init /\ test \in Tests /\ main = "begin" /\ counted = <<>>

-----------------------------------------------------------------------------
(* A job's coroutine counts itself when its operations are done and then   *)
(* runs to its final suspend point, where reap() finds it.                 *)
Count(w, j) ==
  /\ Driven(w) /\ local[w] = <<>> /\ j \in tasks[w] /\ j \notin Elements(counted)
  /\ counted' = Append(counted, j)
  /\ UNCHANGED <<vars, test, main>>

Reaped(w, j) == Finish(w, j) /\ j \in Elements(counted) /\ UNCHANGED <<test, main, counted>>

(* Runtime runtime(n); runtime.start() -- or WorkerNodes, which start      *)
(* their runner when constructed, then the dispatcher's runner.            *)
Construct(t) ==
  /\ test = t /\ main = "begin" /\ Start
  /\ main' = "post" /\ UNCHANGED <<test, counted>>

(* The jobs are posted, by the test's thread or by client threads that it  *)
(* joins.                                                                  *)
PostJobs(t) ==
  /\ test = t /\ main = "post" /\ call = "none" /\ \E j \in Jobs : Post(j)
  /\ main' = IF Len(sent') = Cardinality(Jobs) THEN "wait" ELSE main
  /\ UNCHANGED <<test, counted>>

(* The wait loop sees every job counted, and stop() is called.             *)
Waited(t) ==
  /\ test = t /\ main = "wait" /\ Len(counted) >= Cardinality(Jobs) /\ Stop
  /\ main' = "stop" /\ UNCHANGED <<test, counted>>

(* It sees the deadline pass first.  FAIL unwinds the stack: the locals,   *)
(* then the Runtime.                                                       *)
WriteTimesOut ==
  /\ test = "write" /\ main = "wait" /\ Len(counted) < Cardinality(Jobs) /\ Destroy
  /\ main' = "failed" /\ UNCHANGED <<test, counted>>

(* In the hand-off test ~jthread requests a stop that run() was not given  *)
(* the token of, and joins for ever.                                       *)
FanoutTimesOut ==
  /\ test = "fanout" /\ main = "wait" /\ Len(counted) < Cardinality(Jobs)
  /\ main' = "hung" /\ UNCHANGED <<vars, test, counted>>

(* What is asserted once stop() returned.  A file holds its data when the  *)
(* coroutine that wrote it counted itself.                                 *)
WriteChecks  == Jobs \subseteq Elements(counted)
OrderChecks  == Len(counted) = Cardinality(Jobs) /\ Jobs \subseteq Elements(counted)
FanoutChecks == Len(counted) = Cardinality(Jobs)
                /\ \A w \in Workers : \E j \in Elements(counted) : home[j] = w

Checks(t, assertions) ==
  /\ test = t /\ main = "stop" /\ call = "none" /\ Destroy
  /\ main' = IF assertions THEN "passed" ELSE "wrong"
  /\ UNCHANGED <<test, counted>>

-----------------------------------------------------------------------------
Write  == Construct("write")  \/ PostJobs("write")  \/ Waited("write")
          \/ WriteTimesOut \/ Checks("write", WriteChecks)
Order  == Construct("order")  \/ PostJobs("order")  \/ Waited("order")
          \/ Checks("order", OrderChecks)
Fanout == Construct("fanout") \/ PostJobs("fanout") \/ Waited("fanout")
          \/ FanoutTimesOut \/ Checks("fanout", FanoutChecks)

(* Everything of the library but the calls the test makes.                 *)
Library ==
  /\ \/ StartLoop \/ RequestStop \/ Join \/ ShutdownReturns \/ Dispatch
     \/ \E l \in Loops : Runner(l)
     \/ \E w \in Workers, j \in Jobs : Accept(w, j) \/ Requeue(w, j)
  /\ UNCHANGED <<test, main, counted>>

TestOver == main \in {"passed", "wrong", "failed", "hung"} /\ UNCHANGED allVars

CNext ==
  \/ Write \/ Order \/ Fanout \/ Library \/ TestOver
  \/ \E w \in Workers, j \in Jobs : Count(w, j) \/ Reaped(w, j)

CSpec == CInit /\ [][CNext]_allVars

(* As in Runtime; and the main thread is scheduled, and the operations of  *)
(* a coroutine complete.  No deadline has to pass.                         *)
Idle == UNCHANGED <<test, main, counted>>

CFairSpec ==
  /\ CSpec
  /\ WF_allVars(\E t \in Tests : Construct(t) \/ PostJobs(t) \/ Waited(t))
  /\ WF_allVars(Checks("write", WriteChecks) \/ Checks("order", OrderChecks)
                \/ Checks("fanout", FanoutChecks))
  /\ WF_allVars((StartLoop \/ RequestStop \/ Join \/ ShutdownReturns) /\ Idle)
  /\ WF_allVars(Dispatch /\ Idle)
  /\ \A l \in Loops : WF_allVars(TakeInbox(l) /\ Idle) /\ WF_allVars(RunReturns(l) /\ Idle)
  /\ SF_allVars(Idle /\ \E w \in Workers, j \in Jobs : Accept(w, j))
  /\ SF_allVars(\E w \in Workers, j \in Jobs : Count(w, j))
  /\ SF_allVars(\E w \in Workers, j \in Jobs : Reaped(w, j))

-----------------------------------------------------------------------------
(* No assertion of the tests fails: every job was counted once, and every  *)
(* worker was handed one (fan-out's CHECK(stats.completed[i] > 0)).        *)
ChecksHold == main # "wrong"

(* When the assertions are evaluated, and the locals are about to die, no  *)
(* callable and no coroutine that refers to them is left, though the       *)
(* counter is complete before the frames are reaped.                       *)
LocalsOutliveJobs ==
  main \in {"stop", "passed"} /\ call # "stop" =>
    \A l \in Loops : Queue(l) = <<>> /\ tasks[l] = {}

(* The tests end, the destructor of the Runtime included, also when jobs   *)
(* are under way as the deadline passes; the hand-off test hangs then.     *)
TestsEnd == <>(main = "hung" \/ (main \in {"passed", "failed"} /\ call = "gone"))
=============================================================================
