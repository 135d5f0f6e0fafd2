--------------------------- MODULE ClientsProofs ---------------------------
(***************************************************************************)
(* The test programs of Clients pass, for every number of workers and      *)
(* jobs: what is proved of the Runtime carries over to a program that      *)
(* drives it, and is enough for what the program asserts.                  *)
(***************************************************************************)
EXTENDS Clients, RuntimeProofs, FiniteSetTheorems

(* A test does with the Runtime what any of its users may do. *)
LEMMA ClientStep == CNext => [Next]_vars
<1> SUFFICES ASSUME CNext PROVE [Next]_vars OBVIOUS
<1>1. ASSUME NEW t, Construct(t) PROVE Next BY <1>1 DEF Construct, Next, Owner
<1>2. ASSUME NEW t, PostJobs(t) PROVE Next BY <1>2 DEF PostJobs, Next
<1>3. ASSUME NEW t, Waited(t) PROVE Next BY <1>3 DEF Waited, Next, Owner
<1>4. ASSUME NEW t, NEW b, Checks(t, b) PROVE Next BY <1>4 DEF Checks, Next, Owner
<1>5. CASE WriteTimesOut BY <1>5 DEF WriteTimesOut, Next, Owner
<1>6. CASE FanoutTimesOut BY <1>6 DEF FanoutTimesOut
<1>7. CASE Library BY <1>7 DEF Library, Next, Owner, Job
<1>8. CASE TestOver BY <1>8 DEF TestOver, allVars
<1>9. ASSUME NEW w \in Workers, NEW j \in Jobs, Count(w, j) PROVE [Next]_vars
  BY <1>9 DEF Count
<1>10. ASSUME NEW w \in Workers, NEW j \in Jobs, Reaped(w, j) PROVE [Next]_vars
  BY <1>10 DEF Reaped, Next, Job
<1> QED BY Zenon, <1>1, <1>2, <1>3, <1>4, <1>5, <1>6, <1>7, <1>8, <1>9, <1>10 DEF CNext, Write, Order, Fanout

(* So every theorem about the Runtime is one about the tests.              *)
THEOREM ClientsUseRuntime == CSpec => Spec
<1>1. CInit => Init BY DEF CInit
<1>2. [CNext]_allVars => [Next]_vars
  <2>1. UNCHANGED allVars => UNCHANGED vars BY DEF allVars
  <2> QED BY <2>1, ClientStep
<1> QED BY <1>1, <1>2, PTL DEF CSpec, Spec

-----------------------------------------------------------------------------
(* A job counts itself once, as a coroutine, and is one until it is over.  *)
CountInv ==
  /\ counted \in Seq(Jobs) /\ Unique(counted)
  /\ \A j \in Elements(counted) : j \in tasks[home[j]] \/ j \in finished

(* Where the main thread is, the jobs are at least that far.               *)
MainInv ==
  /\ main \in {"begin", "post", "wait", "stop", "passed", "failed", "hung"}
  /\ main \in {"wait", "stop", "passed"} => Len(sent) = Cardinality(Jobs)
  /\ main \in {"stop", "passed"} => Elements(counted) = Jobs
  /\ main = "stop" => ~closing /\ (call = "stop" \/ (call = "none" /\ state = "Stopped"))
  /\ main = "passed" => call \in {"destroy", "gone"} /\ \A l \in Loops : tasks[l] = {}

(* The invariants of the Runtime that are used. *)
RuntimeInv == TypeOK /\ LifecycleInv /\ ClearInv /\ PlaceInv /\ DealInv

LEMMA RuntimeInvariant == Spec => []RuntimeInv
<1>1. "thread" \notin Faults BY ClientsAssumption
<1>2. Spec => []ClearInv BY <1>1, Cleared
<1>3. TypeOK /\ LifecycleInv /\ ClearInv /\ (PlaceInv /\ DealInv) => RuntimeInv BY DEF RuntimeInv
<1> QED BY <1>2, <1>3, RuntimeTypes, Lifecycle, Dispatched, PTL

(* A sequence of different elements of a finite set is no longer than the  *)
(* set has elements, and as long only if it has them all.                  *)
LEMMA AllDifferent ==
  ASSUME NEW S, IsFiniteSet(S), NEW s \in Seq(S), Unique(s)
  PROVE  Cardinality(S) \in Nat /\ Len(s) <= Cardinality(S) /\ (Len(s) = Cardinality(S) <=> Elements(s) = S)
<1> DEFINE I == 1 .. Len(s)
<1>1. Len(s) \in Nat /\ s \in [I -> S] OBVIOUS
<1>2. s \in Injection(I, S) BY <1>1 DEF Unique, Injection, IsInjective
<1>3. Cardinality(I) = Len(s) BY <1>1, FS_Interval
<1> HIDE DEF I
<1>4. /\ Cardinality(I) <= Cardinality(S)
      /\ Cardinality(I) = Cardinality(S) <=> s \in Surjection(I, S)
  BY <1>2, FS_Injection
<1>5. s \in Surjection(I, S) <=> Elements(s) = S
  BY <1>1 DEF Surjection, Elements, I
<1> QED BY Zenon, <1>3, <1>4, <1>5, FS_CardinalityType

(* Once every job has counted itself, no queue holds one.                  *)
LEMMA AllCounted ==
  ASSUME RuntimeInv, CountInv, Elements(counted) = Jobs
  PROVE  \A l \in Loops : Queue(l) = <<>>
<1> SUFFICES ASSUME NEW l \in Loops, Queue(l) # <<>> PROVE FALSE OBVIOUS
<1>1. Queue(l) \in Seq(Jobs) BY QueueTypes DEF RuntimeInv
<1>2. PICK j \in Jobs : j \in Elements(Queue(l)) BY <1>1 DEF Elements
<1>3. j \in Holds(l) /\ home[j] = l /\ j \notin finished /\ j \notin tasks[l]
  BY <1>2 DEF RuntimeInv, PlaceInv, Holds, Past
<1> QED BY <1>2, <1>3 DEF CountInv

LEMMA CountStep ==
  ASSUME RuntimeInv, CountInv, [CNext]_allVars
  PROVE  CountInv'
<1>0. /\ counted \in Seq(Jobs) /\ Unique(counted)
      /\ \A j \in Elements(counted) : j \in tasks[home[j]] \/ j \in finished
      /\ Elements(counted) \subseteq Jobs
  BY DEF CountInv, Elements
<1>1. ASSUME NEW w \in Workers, NEW j \in Jobs, Count(w, j) PROVE CountInv'
  <2>1. j \in tasks[w] /\ j \notin Elements(counted) /\ counted' = Append(counted, j) /\ UNCHANGED <<tasks, home, finished>>
    BY <1>1 DEF Count, vars, queueVars, jobVars
  <2>2. home[j] = w BY <2>1, LoopSets DEF RuntimeInv, PlaceInv, Holds
  <2>3. counted' \in Seq(Jobs) /\ Unique(counted') /\ Elements(counted') = Elements(counted) \cup {j}
    BY <1>0, <2>1, UniqueAppend, ElementsAppend
  <2> QED BY Zenon, <1>0, <2>1, <2>2, <2>3 DEF CountInv
<1>2. ASSUME counted' = counted PROVE CountInv'
  <2>1. [Next]_vars
    <3>1. UNCHANGED allVars => UNCHANGED vars BY DEF allVars
    <3> QED BY <3>1, ClientStep
  <2>2. Moves BY Zenon, <2>1, MoveStep DEF RuntimeInv
  <2> SUFFICES ASSUME NEW j \in Elements(counted) PROVE j \in tasks'[home'[j]] \/ j \in finished'
    BY <1>0, <1>2 DEF CountInv
  <2>3. j \in Jobs /\ (j \in tasks[home[j]] \/ j \in finished) BY <1>0
  <2>4. /\ tasks \in [Loops -> SUBSET Jobs] /\ home \in [Jobs -> Loops]
    BY DEF RuntimeInv, TypeOK
  <2>5. CASE Apart BY <2>3, <2>5 DEF Apart
  <2>6. ASSUME NEW i \in Jobs, Enters(i) PROVE j \in tasks'[home'[j]] \/ j \in finished'
    BY Zenon, <2>3, <2>6 DEF Enters
  <2>7. ASSUME NEW i \in Jobs, NEW w \in Workers, Deals(i, w) PROVE j \in tasks'[home'[j]] \/ j \in finished'
    <3>1. i \in Holds(Dispatcher)
      <4>1. Queue(Dispatcher) \in Seq(Jobs) BY Zenon, QueueTypes, LoopSets DEF RuntimeInv
      <4> QED BY Zenon, <2>7, <4>1, ElementsTail DEF Deals, Holds
    <3>2. i \notin finished /\ home[i] = Dispatcher BY Zenon, <3>1, LoopSets DEF RuntimeInv, PlaceInv, Past
    <3>3. i # j BY <2>3, <3>2 DEF RuntimeInv, PlaceInv
    <3> QED BY Zenon, <2>3, <2>4, <2>7, <3>3 DEF Deals
  <2>8. ASSUME NEW i \in Jobs, NEW w \in Workers, Goes(i, w) PROVE j \in tasks'[home'[j]] \/ j \in finished'
    <3>1. home' = home /\ finished' = finished BY <2>8 DEF Goes
    <3>2. \A l \in Loops : tasks[l] \subseteq tasks'[l] BY <2>4, <2>8, LoopSets DEF Goes
    <3> QED BY Zenon, <2>3, <2>4, <3>1, <3>2
  <2>9. ASSUME NEW i \in Jobs, NEW w \in Workers, Ends(i, w) PROVE j \in tasks'[home'[j]] \/ j \in finished'
    <3>1. home' = home /\ finished' = finished \cup {i} BY <2>9 DEF Ends
    <3>2. \A l \in Loops : tasks[l] \ {i} \subseteq tasks'[l] BY <2>4, <2>9, LoopSets DEF Ends
    <3> QED BY Zenon, <2>3, <2>4, <3>1, <3>2
  <2> QED BY Zenon, <2>2, <2>5, <2>6, <2>7, <2>8, <2>9 DEF Moves
<1>3. ASSUME [CNext]_allVars, ~\E w \in Workers, j \in Jobs : Count(w, j) PROVE counted' = counted
  BY <1>3 DEF CNext, Write, Order, Fanout, Construct, PostJobs, Waited, WriteTimesOut, FanoutTimesOut,
     Checks, Library, TestOver, Reaped, allVars
<1> QED BY <1>1, <1>2, <1>3

-----------------------------------------------------------------------------
(* What the tests assert, when stop() has returned. *)
LEMMA AssertionsHold ==
  ASSUME RuntimeInv, CountInv, MainInv, main = "stop"
  PROVE  WriteChecks /\ OrderChecks /\ FanoutChecks
<1>1. Elements(counted) = Jobs /\ Len(sent) = Cardinality(Jobs) BY DEF MainInv
<1>2. Len(counted) = Cardinality(Jobs) BY <1>1, AllDifferent, ClientsAssumption DEF CountInv
<1>3. ASSUME NEW w \in Workers PROVE \E j \in Jobs : home[j] = w
  <2>1. w \in Nat /\ w < N /\ N \in Nat \ {0} /\ CounterSize \in Nat \ {0} /\ N <= CounterSize
        /\ N <= Cardinality(Jobs) /\ Cardinality(Jobs) \in Nat
    BY RuntimeAssumption, ClientsAssumption, FS_CardinalityType DEF Workers
  <2>2. Queue(Dispatcher) = <<>> BY Zenon, <1>1, AllCounted, LoopSets
  <2>3. Dealt = Len(sent) /\ sent \in Seq(Jobs) BY <2>2 DEF Dealt, RuntimeInv, TypeOK
  <2>4. w + 1 \in 1 .. Len(sent) /\ w + 1 <= Dealt BY <1>1, <2>1, <2>3
  <2>5. home[sent[w + 1]] = Turn(w + 1) BY <2>4 DEF RuntimeInv, DealInv
  <2>6. Turn(w + 1) = w
    <3>1. (w + 1) - 1 = w BY <2>1
    <3>2. w % CounterSize = w /\ w % N = w BY <2>1, ModSmall
    <3> QED BY <3>1, <3>2 DEF Turn
  <2> QED BY <2>3, <2>4, <2>5, <2>6
<1> QED BY Zenon, <1>1, <1>2, <1>3 DEF WriteChecks, OrderChecks, FanoutChecks

LEMMA MainStep ==
  ASSUME RuntimeInv, CountInv, MainInv, [CNext]_allVars
  PROVE  MainInv'
<1> USE DEF ownerVars, threadVars, queueVars, jobVars
<1>1. ASSUME NEW t, Construct(t) PROVE MainInv'
  BY <1>1 DEF Construct, MainInv
<1>2. ASSUME NEW t, PostJobs(t) PROVE MainInv'
  BY <1>2 DEF PostJobs, MainInv
<1>3. ASSUME NEW t, Waited(t) PROVE MainInv'
  <2>1. main = "wait" /\ Len(counted) >= Cardinality(Jobs) /\ main' = "stop" /\ counted' = counted
    BY <1>3 DEF Waited
  <2>2. Elements(counted) = Jobs
    <3>1. Len(counted) \in Nat /\ Cardinality(Jobs) \in Nat /\ Len(counted) <= Cardinality(Jobs)
      BY AllDifferent, ClientsAssumption DEF CountInv
    <3>2. Len(counted) = Cardinality(Jobs) BY <2>1, <3>1
    <3> QED BY Zenon, <3>2, AllDifferent, ClientsAssumption DEF CountInv
  <2>3. call' = "stop" /\ closing' = closing /\ ~closing /\ sent' = sent BY <1>3 DEF Waited, Stop
  <2> QED BY <2>1, <2>2, <2>3 DEF MainInv
<1>4. ASSUME NEW t, NEW b, Checks(t, b), main = "stop" => b PROVE MainInv'
  <2>1. /\ main = "stop" /\ call = "none" /\ main' = "passed" /\ counted' = counted
        /\ Destroy /\ UNCHANGED <<sent, tasks>>
    BY <1>4 DEF Checks, Destroy
  <2>2. state = "Stopped" BY <2>1 DEF MainInv
  <2>3. call' = "destroy" BY <2>1, <2>2 DEF Destroy
  <2>4. \A l \in Loops : runner[l] = "none" /\ ~InShutdown(l)
    BY <2>1, <2>2 DEF RuntimeInv, ClearInv, InShutdown, Stoppee
  <2>5. \A l \in Loops : tasks[l] = {} BY <2>4 DEF RuntimeInv, LifecycleInv, RestInv
  <2> QED BY Zenon, <2>1, <2>3, <2>5 DEF MainInv
<1>5. CASE WriteTimesOut \/ FanoutTimesOut BY <1>5 DEF WriteTimesOut, FanoutTimesOut, MainInv
<1>6. CASE TestOver \/ UNCHANGED allVars
  BY <1>6 DEF TestOver, allVars, vars, MainInv
<1>7. ASSUME NEW w \in Workers, NEW j \in Jobs, Count(w, j) PROVE MainInv'
  <2>1. /\ j \notin Elements(counted) /\ UNCHANGED <<main, sent, closing, call, state, tasks>>
    BY Zenon, <1>7 DEF Count, vars
  <2> QED BY Zenon, <2>1 DEF MainInv
<1>8. ASSUME UNCHANGED <<main, counted, sent, closing>>,
             main = "stop" => call' = "stop" \/ (call' = "none" /\ state' = "Stopped"),
             main = "passed" => call' \in {"destroy", "gone"} /\ \A l \in Loops : tasks'[l] \subseteq tasks[l]
      PROVE  MainInv'
  BY <1>8 DEF MainInv
<1>9. ASSUME NEW w \in Workers, NEW j \in Jobs, Reaped(w, j) PROVE MainInv'
  <2>1. /\ UNCHANGED <<main, counted, sent, closing, call, state>>
        /\ tasks' = [tasks EXCEPT ![w] = @ \ {j}]
    BY <1>9 DEF Reaped, Finish
  <2>2. \A l \in Loops : tasks'[l] \subseteq tasks[l] BY <2>1 DEF RuntimeInv, TypeOK
  <2> QED BY Zenon, <1>8, <2>1, <2>2 DEF MainInv
<1>10. CASE Library
  <2>0. UNCHANGED <<main, counted>> BY <1>10 DEF Library
  <2>1. ASSUME UNCHANGED <<sent, ownerVars, state, tasks>> PROVE MainInv'
    BY Zenon, <1>8, <2>0, <2>1 DEF MainInv
  <2>2. CASE StartLoop
    <3>1. call = "start" /\ UNCHANGED <<sent, closing>> BY Zenon, <2>2 DEF StartLoop
    <3> QED BY Zenon, <1>8, <2>0, <3>1 DEF MainInv
  <2>3. CASE RequestStop \/ Join
    <3>1. UNCHANGED <<sent, closing, call, state, tasks>> BY Zenon, <2>3 DEF RequestStop, Join
    <3> QED BY Zenon, <1>8, <2>0, <3>1 DEF MainInv
  <2>4. CASE ShutdownReturns
    <3>1. /\ UNCHANGED <<sent, closing, tasks>> /\ call \in {"stop", "destroy"}
          /\ \/ UNCHANGED <<state, call>>
             \/ call = "stop" /\ state' = "Stopped" /\ call' = IF closing THEN "destroy" ELSE "none"
             \/ call = "destroy" /\ call' = "gone"
      BY <2>4 DEF ShutdownReturns, StopNext, StopEnds, Stoppee
    <3> QED BY Zenon, <1>8, <2>0, <3>1 DEF MainInv
  <2>5. CASE Dispatch BY Zenon, <2>1, <2>5 DEF Dispatch, DispatchTo
  <2>6. ASSUME NEW l \in Loops, Runner(l) PROVE MainInv'
    BY Zenon, <2>1, <2>6 DEF Runner, TakeInbox, RunReturns
  <2>7. ASSUME NEW w \in Workers, NEW j \in Jobs, Accept(w, j) \/ Requeue(w, j) PROVE MainInv'
    <3>1. Called(w, j) /\ UNCHANGED <<sent, closing, call, state>>
      BY <2>7 DEF Accept, Requeue, Called
    <3>2. main # "passed"
      <4> SUFFICES ASSUME main = "passed" PROVE FALSE OBVIOUS
      <4>1. Queue(w) = <<>> BY Zenon, AllCounted, LoopSets DEF MainInv
      <4>2. local[w] \in Seq(Jobs) /\ inbox[w] \in Seq(Jobs) /\ local[w] # <<>>
        BY <3>1, LoopSets DEF Called, RuntimeInv, TypeOK
      <4> QED BY <4>1, <4>2, QueueParts DEF Queue
    <3> QED BY Zenon, <1>8, <2>0, <3>1, <3>2 DEF MainInv
  <2> QED BY Zenon, <1>10, <2>2, <2>3, <2>4, <2>5, <2>6, <2>7 DEF Library
<1>11. main = "stop" => WriteChecks /\ OrderChecks /\ FanoutChecks BY AssertionsHold
<1> QED BY Zenon, <1>1, <1>2, <1>3, <1>4, <1>5, <1>6, <1>7, <1>9, <1>10, <1>11 DEF CNext, Write, Order, Fanout

LEMMA ClientInvariant == CSpec => [](RuntimeInv /\ CountInv /\ MainInv)
<1>1. CInit => CountInv /\ MainInv
  <2>1. CInit => counted = <<>> /\ main = "begin" BY DEF CInit
  <2> QED BY <2>1 DEF CountInv, MainInv, Unique, Elements
<1>2. RuntimeInv /\ CountInv /\ MainInv /\ [CNext]_allVars => CountInv' /\ MainInv'
  BY CountStep, MainStep
<1> QED BY <1>1, <1>2, ClientsUseRuntime, RuntimeInvariant, PTL DEF CSpec

(* No assertion of the tests fails, whatever the number of workers, of     *)
(* jobs and of requeues: every job counted itself exactly once and every   *)
(* worker was handed one.                                                  *)
THEOREM TestsAssertTruly == CSpec => []ChecksHold
<1>1. MainInv => ChecksHold BY DEF MainInv, ChecksHold
<1> QED BY <1>1, ClientInvariant, PTL

(* The locals of a test that the jobs refer to outlive the last reference. *)
THEOREM LocalsSafe == CSpec => []LocalsOutliveJobs
<1>1. RuntimeInv /\ CountInv /\ MainInv => LocalsOutliveJobs
  <2> SUFFICES ASSUME RuntimeInv, CountInv, MainInv, main \in {"stop", "passed"}, call # "stop",
                      NEW l \in Loops
               PROVE  Queue(l) = <<>> /\ tasks[l] = {}
    BY DEF LocalsOutliveJobs
  <2>1. Queue(l) = <<>> BY AllCounted DEF MainInv
  <2>2. CASE main = "stop"
    <3>1. call = "none" /\ state = "Stopped" BY <2>2 DEF MainInv
    <3>2. runner[l] = "none" /\ ~InShutdown(l)
      BY <3>1 DEF RuntimeInv, ClearInv, InShutdown, Stoppee
    <3> QED BY <2>1, <3>2 DEF RuntimeInv, LifecycleInv, RestInv
  <2>3. CASE main = "passed" BY <2>1, <2>3 DEF MainInv
  <2> QED BY <2>2, <2>3
<1> QED BY <1>1, ClientInvariant, PTL
=============================================================================
