--------------------------- MODULE RuntimeProofs ---------------------------
(***************************************************************************)
(* Theorems about Runtime, for every number of workers, every set of jobs  *)
(* and every number of restarts: the life cycle of its threads, and what   *)
(* happens to the jobs (each is at one scheduler, every scheduler is an    *)
(* EventLoop, and the workers are served in turn).                         *)
(***************************************************************************)
EXTENDS Runtime, Lemmas

(* The worker a counter value names exists.                                *)
LEMMA WorkerExists ==
  ASSUME NEW n \in Nat PROVE n % N \in Workers
BY RuntimeAssumption DEF Workers

(* A queue without its head is a queue, and the head is a job.             *)
LEMMA QueueTail ==
  ASSUME NEW s \in Seq(Jobs), s # <<>> PROVE Head(s) \in Jobs /\ Tail(s) \in Seq(Jobs)
OBVIOUS

LEMMA InitType == Init => TypeOK
<1> SUFFICES ASSUME Init PROVE TypeOK
  OBVIOUS
<1>1. next_worker \in 0 .. CounterSize - 1 /\ step \in 0 .. N /\ starts \in 0 .. MaxStarts
  BY RuntimeAssumption DEF Init
<1>2. Dispatcher \in Loops BY RuntimeAssumption DEF Loops, Dispatcher
<1>3. <<>> \in Seq(Jobs) OBVIOUS
<1>4. inbox \in [Loops -> Seq(Jobs)] /\ local \in [Loops -> Seq(Jobs)] /\ sent \in Seq(Jobs)
  BY <1>3 DEF Init
<1>5. home \in [Jobs -> Loops] BY <1>2 DEF Init
<1> QED BY Zenon, <1>1, <1>4, <1>5 DEF Init, TypeOK

LEMMA TypeStep == TypeOK /\ [Next]_vars => TypeOK'
<1> SUFFICES ASSUME TypeOK, [Next]_vars PROVE TypeOK'
  OBVIOUS
<1> USE RuntimeAssumption
<1>1. CASE Start
  BY <1>1 DEF Start, TypeOK, threadVars, queueVars, jobVars
<1>2. CASE StartLoop
  BY <1>2 DEF StartLoop, Started, TypeOK, queueVars, jobVars
<1>3. CASE ReplaceLoop
  BY <1>3 DEF ReplaceLoop, TypeOK, threadVars, queueVars, jobVars
<1>4. CASE StartFails
  BY <1>4 DEF StartFails, TypeOK, threadVars, queueVars, jobVars
<1>5. CASE Stop
  BY <1>5 DEF Stop, TypeOK, threadVars, queueVars, jobVars
<1>6. CASE Destroy
  BY <1>6 DEF Destroy, TypeOK, threadVars, queueVars, jobVars
<1>7. CASE RequestStop
  BY <1>7 DEF RequestStop, HasThread, TypeOK, queueVars, jobVars
<1>8. CASE Join
  BY <1>8 DEF Join, TypeOK, queueVars, jobVars
<1>9. CASE ShutdownReturns
  BY <1>9 DEF ShutdownReturns, StopNext, StopEnds, TypeOK, threadVars, queueVars, jobVars
<1>10. CASE Dispatch
  <2> DEFINE w == next_worker % N
             j == Head(local[Dispatcher])
  <2>1. w \in Workers /\ w \in Loops
    <3>1. next_worker \in Nat BY DEF TypeOK
    <3> QED BY <3>1, WorkerExists DEF Workers, Loops
  <2>2. local[Dispatcher] \in Seq(Jobs) /\ local[Dispatcher] # <<>>
    BY <1>10 DEF Dispatch, DispatchTo, TypeOK, Loops, Dispatcher
  <2>3. j \in Jobs /\ Tail(local[Dispatcher]) \in Seq(Jobs)
    BY <2>2, QueueTail
  <2>4. inbox' \in [Loops -> Seq(Jobs)] /\ home' \in [Jobs -> Loops]
    <3>1. inbox' = [inbox EXCEPT ![w] = Append(@, j)] /\ home' = [home EXCEPT ![j] = w]
      BY <1>10 DEF Dispatch, DispatchTo
    <3> QED BY <3>1, <2>1, <2>3 DEF TypeOK
  <2>5. local' \in [Loops -> Seq(Jobs)]
    BY Zenon, <1>10, <2>3 DEF Dispatch, DispatchTo, TypeOK
  <2>6. next_worker' \in 0 .. CounterSize - 1
    BY <1>10 DEF Dispatch, FetchAdd, TypeOK
  <2> QED BY Zenon, <1>10, <2>4, <2>5, <2>6
    DEF Dispatch, DispatchTo, TypeOK, ownerVars, threadVars
<1>11. CASE Ended BY <1>11 DEF Ended, vars, ownerVars, threadVars, queueVars, jobVars, TypeOK
<1>12. ASSUME NEW j \in Jobs, Post(j) PROVE TypeOK'
  <2>1. Dispatcher \in Loops BY DEF Loops, Dispatcher
  <2>2. inbox' \in [Loops -> Seq(Jobs)] BY <1>12, <2>1 DEF Post, TypeOK
  <2>3. sent' \in Seq(Jobs) BY <1>12 DEF Post, TypeOK
  <2> QED BY <1>12, <2>2, <2>3 DEF Post, TypeOK, ownerVars, threadVars
<1>13. ASSUME NEW l \in Loops, TakeInbox(l) PROVE TypeOK'
  BY Zenon, <1>13 DEF TakeInbox, Swapped, TypeOK, ownerVars, threadVars, jobVars
<1>14. ASSUME NEW l \in Loops, RunReturns(l) PROVE TypeOK'
  BY <1>14 DEF RunReturns, TypeOK, ownerVars, queueVars, jobVars
<1>15. ASSUME NEW w \in Workers, NEW j \in Jobs, Called(w, j)
       PROVE w \in Loops /\ local' \in [Loops -> Seq(Jobs)]
  <2>1. w \in Loops BY DEF Workers, Loops
  <2>2. Tail(local[w]) \in Seq(Jobs)
    BY <1>15, <2>1, QueueTail DEF Called, TypeOK
  <2> QED BY <1>15, <2>1, <2>2 DEF Called, TypeOK
<1>16. ASSUME NEW w \in Workers, NEW j \in Jobs, Accept(w, j) PROVE TypeOK'
  BY ZenonT(30), <1>15, <1>16 DEF Accept, Called, TypeOK, ownerVars, threadVars
<1>17. ASSUME NEW w \in Workers, NEW j \in Jobs, Requeue(w, j) PROVE TypeOK'
  <2>1. Called(w, j) BY <1>17 DEF Requeue
  <2>2. w \in Loops /\ local' \in [Loops -> Seq(Jobs)] BY <1>15, <2>1
  <2>3. inbox' \in [Loops -> Seq(Jobs)] BY <1>17, <2>2 DEF Requeue, Back, TypeOK
  <2>4. UNCHANGED <<state, next_worker, ownerVars, threadVars, tasks, jobVars>>
    BY <1>17, <2>1 DEF Requeue, Called, jobVars
  <2> QED BY <2>2, <2>3, <2>4 DEF TypeOK, ownerVars, threadVars, jobVars
<1>18. ASSUME NEW w \in Workers, NEW j \in Jobs, Drop(w, j) PROVE TypeOK'
  BY Zenon, <1>15, <1>18 DEF Drop, Called, TypeOK, ownerVars, threadVars
<1>19. ASSUME NEW w \in Workers, NEW j \in Jobs, Finish(w, j) PROVE TypeOK'
  BY Zenon, <1>19 DEF Finish, TypeOK, ownerVars, threadVars, Workers, Loops
<1>20. CASE UNCHANGED vars
  BY <1>20 DEF vars, ownerVars, threadVars, queueVars, jobVars, TypeOK
<1> QED
  BY <1>1, <1>2, <1>3, <1>4, <1>5, <1>6, <1>7, <1>8, <1>9, <1>10, <1>11, <1>12, <1>13,
     <1>14, <1>16, <1>17, <1>18, <1>19, <1>20 DEF Next, Owner, Runner, Job

(* Every variable keeps its type: next_worker_ its width among them.       *)
THEOREM RuntimeTypes == Spec => []TypeOK
BY InitType, TypeStep, PTL DEF Spec

-----------------------------------------------------------------------------
(* The dispatcher's part is inductive and implies DispatcherInside.        *)
LEMMA DispatcherInit == Init => StartInv /\ DispatcherInv
BY RuntimeAssumption DEF Init, StartInv, DispatcherInv, Loops, Dispatcher

LEMMA DispatcherStep ==
  TypeOK /\ StartInv /\ DispatcherInv /\ [Next]_vars => StartInv' /\ DispatcherInv'
<1> SUFFICES ASSUME TypeOK, StartInv, DispatcherInv, [Next]_vars
             PROVE  StartInv' /\ DispatcherInv'
  OBVIOUS
<1> USE RuntimeAssumption DEF Workers, Loops, Dispatcher, Running
<1>1. CASE Start
  BY <1>1 DEF Start, TypeOK, threadVars, StartInv, DispatcherInv
<1>2. CASE StartLoop
  BY SMTT(30), <1>2 DEF StartLoop, Started, Startee, TypeOK, StartInv, DispatcherInv
<1>3. CASE ReplaceLoop
  BY <1>3 DEF ReplaceLoop, TypeOK, threadVars, StartInv, DispatcherInv
<1>4. CASE StartFails
  BY <1>4 DEF StartFails, TypeOK, threadVars, StartInv, DispatcherInv
<1>5. CASE Stop
  BY <1>5 DEF Stop, TypeOK, threadVars, StartInv, DispatcherInv
<1>6. CASE Destroy
  BY <1>6 DEF Destroy, TypeOK, threadVars, StartInv, DispatcherInv
<1>7. CASE RequestStop
  BY <1>7 DEF RequestStop, Stoppee, HasThread, TypeOK, StartInv, DispatcherInv
<1>8. CASE Join
  BY <1>8 DEF Join, Stoppee, Joined, TypeOK, StartInv, DispatcherInv
<1>9. CASE ShutdownReturns
  BY SMTT(30), <1>9 DEF ShutdownReturns, StopNext, StopEnds, Stoppee, TypeOK, threadVars,
              StartInv, DispatcherInv
<1>10. ASSUME NEW l \in Loops, RunReturns(l) PROVE StartInv' /\ DispatcherInv'
  <2>1. /\ stopping[l] /\ runner[l] = "run" /\ runner' = [runner EXCEPT ![l] = "exited"]
        /\ UNCHANGED <<state, call, step, phase, stopping>>
    BY <1>10 DEF RunReturns, InRun, ownerVars
  <2>2. \A w \in Workers : Running(w) => Running(w)' BY <2>1 DEF TypeOK
  <2>3. runner[Dispatcher] = "none" => runner'[Dispatcher] = "none" BY <2>1 DEF TypeOK
  <2> QED BY <2>1, <2>2, <2>3 DEF StartInv, DispatcherInv
<1>11. CASE UNCHANGED <<state, ownerVars, threadVars>>
  BY <1>11 DEF ownerVars, threadVars, StartInv, DispatcherInv
<1>12. CASE Dispatch BY <1>11, <1>12 DEF Dispatch, DispatchTo
<1>13. CASE Ended \/ UNCHANGED vars BY <1>11, <1>13 DEF Ended, vars
<1>14. ASSUME NEW j \in Jobs, Post(j) PROVE StartInv' /\ DispatcherInv'
  BY <1>11, <1>14 DEF Post
<1>15. ASSUME NEW l \in Loops, TakeInbox(l) PROVE StartInv' /\ DispatcherInv'
  BY <1>11, <1>15 DEF TakeInbox
<1>16. ASSUME NEW w \in Workers, NEW j \in Jobs, Job(w, j)
       PROVE  StartInv' /\ DispatcherInv'
  BY <1>11, <1>16 DEF Job, Accept, Requeue, Drop, Finish, Called
<1> QED
  BY <1>1, <1>2, <1>3, <1>4, <1>5, <1>6, <1>7, <1>8, <1>9, <1>10, <1>12, <1>13, <1>14,
     <1>15, <1>16 DEF Next, Owner, Runner

(* No job is ever posted to a worker on its way out, however start() and   *)
(* stop() are interleaved with the threads and wherever start() fails.     *)
THEOREM NeverPostsToStopped == Spec => []DispatcherInside
<1>1. DispatcherInv => DispatcherInside
  BY RuntimeAssumption DEF DispatcherInv, DispatcherInside, Running
<1> QED BY <1>1, RuntimeTypes, DispatcherInit, DispatcherStep, PTL DEF Spec

-----------------------------------------------------------------------------
(* What stop() and the destructor have already stopped stays stopped.      *)
LEMMA ThreadStep == TypeOK /\ ThreadInv /\ [Next]_vars => ThreadInv'
<1> SUFFICES ASSUME TypeOK, ThreadInv, [Next]_vars PROVE ThreadInv'
  OBVIOUS
<1> USE RuntimeAssumption DEF Loops, Dispatcher, Gone, InShutdown, Stoppee
<1>1. CASE Start BY <1>1 DEF Start, ThreadInv
<1>2. CASE StartLoop BY <1>2 DEF StartLoop, Started, ThreadInv
<1>3. CASE ReplaceLoop BY <1>3 DEF ReplaceLoop, ThreadInv
<1>4. CASE StartFails BY <1>4 DEF StartFails, ThreadInv
<1>5. CASE Stop BY <1>5 DEF Stop, ThreadInv
<1>6. CASE Destroy BY <1>6 DEF Destroy, ThreadInv
<1>7. CASE RequestStop BY <1>7 DEF RequestStop, ThreadInv
<1>8. CASE Join
  <2>1. \A l \in Loops : Gone(l)' => Gone(l) \/ Stoppee(l) BY <1>8 DEF Join
  <2>2. \A l \in Loops : Stoppee(l) => runner'[l] = "none"
    <3>1. PICK k \in Loops :
            /\ Stoppee(k) /\ Joined(k)
            /\ runner' = [runner EXCEPT ![k] = IF @ = "run" THEN @ ELSE "none"]
      BY Zenon, <1>8 DEF Join
    <3>2. runner'[k] = "none" BY <3>1 DEF Joined, TypeOK
    <3>3. \A l \in Loops : Stoppee(l) => l = k BY <3>1
    <3> QED BY <3>2, <3>3
  <2>3. \A l \in Loops : runner[l] = "none" => runner'[l] = "none" BY <1>8 DEF Join, TypeOK
  <2> QED BY <2>1, <2>2, <2>3 DEF ThreadInv
<1>9. CASE ShutdownReturns
  <2>1. step \in 0 .. N /\ call \in {"stop", "destroy"} BY <1>9 DEF ShutdownReturns, TypeOK
  <2>2. phase = "shutdown" /\ phase' = "request" BY <1>9 DEF ShutdownReturns
  <2>3. ASSUME NEW l \in Loops, Gone(l)' PROVE Gone(l)
    <3>1. CASE step < N
      <4>1. step' = step + 1 /\ call' = call BY <1>9, <3>1 DEF ShutdownReturns, StopNext
      <4> QED BY <2>1, <2>2, <2>3, <4>1
    <3>2. CASE step = N
      <4>1. /\ step' = 0
            /\ call = "stop" => call' \in {"none", "destroy"}
            /\ call = "destroy" => call' = "gone"
        BY <1>9, <3>2 DEF ShutdownReturns, StopNext, StopEnds
      <4> QED BY <2>1, <2>2, <2>3, <3>2, <4>1
    <3> QED BY <2>1, <3>1, <3>2
  <2> QED BY <1>9, <2>3 DEF ShutdownReturns, threadVars, ThreadInv
<1>10. ASSUME NEW l \in Loops, RunReturns(l) PROVE ThreadInv'
  <2>1. runner[l] = "run" /\ runner' = [runner EXCEPT ![l] = "exited"] /\ UNCHANGED ownerVars
    BY <1>10 DEF RunReturns, InRun
  <2>2. \A k \in Loops : runner[k] = "none" => runner'[k] = "none" BY <2>1 DEF TypeOK
  <2> QED BY <2>1, <2>2 DEF ownerVars, ThreadInv
<1>11. CASE UNCHANGED <<ownerVars, threadVars>>
  BY <1>11 DEF ownerVars, threadVars, ThreadInv
<1>12. CASE Dispatch BY <1>11, <1>12 DEF Dispatch, DispatchTo
<1>13. CASE Ended \/ UNCHANGED vars BY <1>11, <1>13 DEF Ended, vars
<1>14. ASSUME NEW j \in Jobs, Post(j) PROVE ThreadInv'
  BY <1>11, <1>14 DEF Post
<1>15. ASSUME NEW l \in Loops, TakeInbox(l) PROVE ThreadInv'
  BY <1>11, <1>15 DEF TakeInbox
<1>16. ASSUME NEW w \in Workers, NEW j \in Jobs, Job(w, j) PROVE ThreadInv'
  BY <1>11, <1>16 DEF Job, Accept, Requeue, Drop, Finish, Called
<1> QED
  BY Zenon, <1>1, <1>2, <1>3, <1>4, <1>5, <1>6, <1>7, <1>8, <1>9, <1>10, <1>12, <1>13, <1>14,
     <1>15, <1>16 DEF Next, Owner, Runner

(* A scheduler is left at rest by whoever drove it.                        *)
LEMMA RestStep == TypeOK /\ ThreadInv /\ RestInv /\ [Next]_vars => RestInv'
<1> SUFFICES ASSUME TypeOK, ThreadInv, RestInv, [Next]_vars PROVE RestInv'
  OBVIOUS
<1> USE RuntimeAssumption
<1>1. ASSUME NEW l \in Loops, Driven(l), UNCHANGED <<ownerVars, threadVars>>,
             \A k \in Loops \ {l} : local'[k] = local[k] /\ tasks'[k] = tasks[k]
      PROVE  RestInv'
  <2>1. \A k \in Loops : InShutdown(k)' = InShutdown(k)
    BY <1>1 DEF InShutdown, Stoppee, ownerVars
  <2>2. runner[l] # "exited" /\ (runner[l] = "none" => InShutdown(l))
    BY <1>1 DEF Driven, InRun, ThreadInv, Gone
  <2> QED BY <1>1, <2>1, <2>2 DEF threadVars, RestInv
<1>2. ASSUME UNCHANGED <<queueVars, runner>>, \A k \in Loops : ~InShutdown(k)
      PROVE  RestInv'
  BY <1>2 DEF queueVars, RestInv
<1>3. call \notin {"stop", "destroy"} \/ phase # "shutdown" => \A k \in Loops : ~InShutdown(k)
  BY DEF InShutdown, Stoppee
<1>4. CASE Start BY <1>2, <1>3, <1>4 DEF Start, threadVars
<1>5. CASE StartLoop
  <2>1. \A k \in Loops : ~InShutdown(k) BY <1>3, <1>5 DEF StartLoop
  <2>2. PICK l \in Loops : runner' = [runner EXCEPT ![l] = "run"] BY Zenon, <1>5 DEF StartLoop
  <2> QED BY <1>5, <2>1, <2>2 DEF StartLoop, queueVars, RestInv, TypeOK
<1>6. CASE ReplaceLoop BY <1>2, <1>3, <1>6 DEF ReplaceLoop, threadVars
<1>7. CASE StartFails BY <1>2, <1>3, <1>7 DEF StartFails, threadVars
<1>8. CASE Stop BY <1>2, <1>3, <1>8 DEF Stop, threadVars
<1>9. CASE Destroy BY <1>2, <1>3, <1>9 DEF Destroy, threadVars
<1>10. CASE RequestStop BY <1>2, <1>3, <1>10 DEF RequestStop
<1>11. CASE Join
  <2>1. \A k \in Loops : ~InShutdown(k) BY <1>3, <1>11 DEF Join
  <2>2. PICK l \in Loops :
          /\ Stoppee(l)
          /\ runner' = [runner EXCEPT ![l] = IF @ = "run" THEN @ ELSE "none"]
    BY Zenon, <1>11 DEF Join
  <2>3. InShutdown(l)' BY <1>11, <2>2 DEF Join, InShutdown, Stoppee
  <2>4. runner'[l] # "exited" BY <2>2 DEF TypeOK
  <2>5. \A k \in Loops \ {l} : runner'[k] = runner[k] BY Zenon, <2>2 DEF TypeOK
  <2> QED BY <1>11, <2>1, <2>3, <2>4, <2>5 DEF Join, queueVars, RestInv
<1>12. CASE ShutdownReturns
  <2>1. PICK l \in Loops : Stoppee(l) /\ Shut(l) BY <1>12 DEF ShutdownReturns
  <2>2. \A k \in Loops : InShutdown(k) => k = l BY <2>1 DEF InShutdown, Stoppee
  <2> QED BY <1>12, <2>1, <2>2 DEF ShutdownReturns, Shut, queueVars, threadVars, RestInv
<1>13. ASSUME NEW l \in Loops, RunReturns(l) PROVE RestInv'
  <2>1. \A k \in Loops : InShutdown(k)' = InShutdown(k)
    BY <1>13 DEF RunReturns, InShutdown, Stoppee, ownerVars
  <2> QED BY SMTT(30), <1>13, <2>1 DEF RunReturns, queueVars, RestInv, TypeOK
<1>14. ASSUME NEW j \in Jobs, Post(j) PROVE RestInv'
  <2>1. \A k \in Loops : InShutdown(k)' = InShutdown(k)
    BY <1>14 DEF Post, InShutdown, Stoppee, ownerVars
  <2> QED BY <1>14, <2>1 DEF Post, threadVars, RestInv
<1>15. CASE Dispatch
  <2>1. Dispatcher \in Loops BY DEF Dispatcher, Loops
  <2> QED BY <1>1, <1>15, <2>1 DEF Dispatch, DispatchTo, TypeOK
<1>16. ASSUME NEW l \in Loops, TakeInbox(l) PROVE RestInv'
  BY <1>1, <1>16 DEF TakeInbox, Driven, TypeOK
<1>17. ASSUME NEW w \in Workers, NEW j \in Jobs, Job(w, j) PROVE RestInv'
  <2>1. w \in Loops BY DEF Workers, Loops
  <2>2. Driven(w) /\ UNCHANGED <<ownerVars, threadVars>>
    BY <1>17 DEF Job, Accept, Requeue, Drop, Finish, Called
  <2>3. \A k \in Loops \ {w} : local'[k] = local[k] /\ tasks'[k] = tasks[k]
    BY Zenon, <1>17 DEF Job, Accept, Requeue, Drop, Finish, Called, TypeOK
  <2> QED BY <1>1, <2>1, <2>2, <2>3
<1>18. CASE Ended \/ UNCHANGED vars
  BY <1>18 DEF Ended, vars, ownerVars, threadVars, queueVars, RestInv, InShutdown, Stoppee
<1> QED
  BY <1>4, <1>5, <1>6, <1>7, <1>8, <1>9, <1>10, <1>11, <1>12, <1>13, <1>14, <1>15, <1>16,
     <1>17, <1>18 DEF Next, Owner, Runner

LEMMA LifecycleInit == Init => LifecycleInv
<1>1. Init => ThreadInv BY DEF Init, ThreadInv, Gone, InShutdown, Stoppee
<1>2. Init => RestInv BY DEF Init, RestInv
<1> QED BY <1>1, <1>2, DispatcherInit DEF LifecycleInv

(* At every point of start(), stop() and the destructor it is known which  *)
(* threads exist, and a scheduler without one is at rest.                  *)
THEOREM Lifecycle == Spec => []LifecycleInv
<1>1. TypeOK /\ LifecycleInv /\ [Next]_vars => LifecycleInv'
  BY DispatcherStep, ThreadStep, RestStep DEF LifecycleInv
<1> QED BY <1>1, RuntimeTypes, LifecycleInit, PTL DEF Spec

(* The destructor leaves no thread, no coroutine and no half-served inbox, *)
(* wherever start() failed.                                                *)
THEOREM DestructorQuiet == Spec => []QuietWhenGone
<1>1. LifecycleInv => QuietWhenGone
  <2> SUFFICES ASSUME LifecycleInv, call = "gone" PROVE Silent
    BY DEF QuietWhenGone
  <2>1. \A l \in Loops : runner[l] = "none" BY DEF LifecycleInv, ThreadInv, Gone
  <2>2. \A l \in Loops : ~InShutdown(l) BY DEF InShutdown, Stoppee
  <2> QED BY <2>1, <2>2 DEF LifecycleInv, RestInv, Silent
<1> QED BY <1>1, Lifecycle, PTL

-----------------------------------------------------------------------------
(* When threads can always be created, start() finds no thread running.    *)
ClearInv ==
  /\ call # "raced"
  /\ call \in {"none", "destroy"} /\ state # "Running" =>
       \A l \in Loops : runner[l] = "none"
  /\ call = "start" => \A l \in Loops : l >= step => runner[l] = "none"

LEMMA ClearStep ==
  ASSUME "thread" \notin Faults
  PROVE  TypeOK /\ LifecycleInv /\ ClearInv /\ [Next]_vars => ClearInv'
<1> SUFFICES ASSUME TypeOK, LifecycleInv, ClearInv, [Next]_vars PROVE ClearInv'
  OBVIOUS
<1> USE RuntimeAssumption DEF Loops, Dispatcher
<1>1. CASE Start BY <1>1 DEF Start, threadVars, ClearInv
<1>2. CASE StartLoop
  <2>1. step \in 0 .. N /\ runner' = [runner EXCEPT ![step] = "run"]
    BY <1>2 DEF StartLoop, Startee, TypeOK
  <2>2. call = "start" /\ \A l \in Loops : l > step => runner'[l] = "none"
    BY SMTT(30), <1>2, <2>1 DEF StartLoop, TypeOK, ClearInv
  <2>3. \/ step' = step + 1 /\ call' = call
        \/ state' = "Running" /\ call' = "none"
    BY <1>2 DEF StartLoop, Started
  <2> QED BY <2>1, <2>2, <2>3 DEF ClearInv
<1>3. CASE ReplaceLoop BY <1>3 DEF ReplaceLoop, Startee, ClearInv
<1>4. CASE StartFails BY <1>4 DEF StartFails
<1>5. CASE Stop BY <1>5 DEF Stop, ClearInv
<1>6. CASE Destroy BY <1>6 DEF Destroy, threadVars, ClearInv
<1>7. CASE RequestStop BY <1>7 DEF RequestStop, Stoppee, ClearInv
<1>8. CASE Join
  <2>1. \A l \in Loops : runner[l] = "none" => runner'[l] = "none" BY <1>8 DEF Join, TypeOK
  <2> QED BY <1>8, <2>1 DEF Join, Stoppee, ClearInv
<1>9. CASE ShutdownReturns
  <2>1. step \in 0 .. N /\ call \in {"stop", "destroy"} /\ phase = "shutdown"
    BY <1>9 DEF ShutdownReturns, Stoppee, TypeOK
  <2>2. CASE step < N BY <1>9, <2>1, <2>2
    DEF ShutdownReturns, StopNext, threadVars, ClearInv
  <2>3. CASE step = N /\ call = "stop"
    <3>1. \A l \in Loops : runner[l] = "none"
      BY <2>1, <2>3 DEF LifecycleInv, ThreadInv, Gone, InShutdown, Stoppee
    <3> QED BY <1>9, <2>3, <3>1
      DEF ShutdownReturns, StopNext, StopEnds, threadVars, ClearInv
  <2>4. CASE step = N /\ call = "destroy" BY <1>9, <2>4
    DEF ShutdownReturns, StopNext, StopEnds, ClearInv
  <2> QED BY <2>1, <2>2, <2>3, <2>4
<1>10. ASSUME NEW l \in Loops, RunReturns(l) PROVE ClearInv'
  <2>1. \A k \in Loops : runner[k] = "none" => runner'[k] = "none"
    BY <1>10 DEF RunReturns, InRun, TypeOK
  <2> QED BY Zenon, <1>10, <2>1 DEF RunReturns, ownerVars, ClearInv
<1>11. CASE UNCHANGED <<state, ownerVars, threadVars>>
  BY <1>11 DEF ownerVars, threadVars, ClearInv
<1>12. CASE Dispatch BY <1>11, <1>12 DEF Dispatch, DispatchTo
<1>13. CASE Ended \/ UNCHANGED vars BY <1>11, <1>13 DEF Ended, vars
<1>14. ASSUME NEW j \in Jobs, Post(j) PROVE ClearInv'
  BY <1>11, <1>14 DEF Post
<1>15. ASSUME NEW l \in Loops, TakeInbox(l) PROVE ClearInv'
  BY <1>11, <1>15 DEF TakeInbox
<1>16. ASSUME NEW w \in Workers, NEW j \in Jobs, Job(w, j) PROVE ClearInv'
  BY <1>11, <1>16 DEF Job, Accept, Requeue, Drop, Finish, Called
<1> QED
  BY ZenonT(30), <1>1, <1>2, <1>3, <1>4, <1>5, <1>6, <1>7, <1>8, <1>9, <1>10, <1>12, <1>13, <1>14,
     <1>15, <1>16 DEF Next, Owner, Runner

LEMMA Cleared ==
  ASSUME "thread" \notin Faults
  PROVE  Spec => []ClearInv
<1>1. Init => ClearInv BY DEF Init, ClearInv
<1> QED BY <1>1, ClearStep, RuntimeTypes, Lifecycle, PTL DEF Spec

(* If threads can be created, never do two threads drive one scheduler,    *)
(* neither two runners nor a runner and the owner in shutdown().           *)
THEOREM DrivenByOne ==
  ASSUME "thread" \notin Faults
  PROVE  Spec => []OneDriver
<1>1. LifecycleInv /\ ClearInv => OneDriver
  BY Zenon DEF LifecycleInv, ThreadInv, Gone, InRun, ClearInv, OneDriver
<1> QED BY <1>1, Cleared, Lifecycle, PTL

(* And stop() leaves the runtime at rest, so that start() begins clean.    *)
THEOREM StopQuiet ==
  ASSUME "thread" \notin Faults
  PROVE  Spec => []QuietWhenStopped
<1>1. LifecycleInv /\ ClearInv => QuietWhenStopped
  BY DEF LifecycleInv, RestInv, InShutdown, Stoppee, ClearInv, QuietWhenStopped, Silent
<1> QED BY <1>1, Cleared, Lifecycle, PTL

-----------------------------------------------------------------------------
(* The jobs. *)
Posted == Elements(sent)
Past   == finished \cup dropped

(* Where the jobs are. *)
PlaceInv ==
  /\ \A l \in Loops : Unique(Queue(l)) /\ Elements(Queue(l)) \cap tasks[l] = {}
  /\ \A l \in Loops, j \in Jobs : j \in Holds(l) <=> j \in Posted \ Past /\ home[j] = l
  /\ Past \subseteq Posted /\ \A j \in Past : home[j] # Dispatcher
  /\ \A j \in Jobs \ Posted : home[j] = Dispatcher
  /\ tasks[Dispatcher] = {}

(* How many the dispatcher has dealt out: the rest of them is its queue.   *)
Dealt == Len(sent) - Len(Queue(Dispatcher))

DealInv ==
  /\ Unique(sent) /\ Dealt \in Nat
  /\ next_worker = Dealt % CounterSize
  /\ \A i \in 1 .. Len(Queue(Dispatcher)) : Queue(Dispatcher)[i] = sent[Dealt + i]
  /\ \A i \in 1 .. Len(sent) :
       home[sent[i]] = IF i <= Dealt THEN Turn(i) ELSE Dispatcher

-----------------------------------------------------------------------------
(* What a step can do to the jobs, or nothing.                             *)
Elsewhere(L) == \A m \in Loops \ L : Queue(m)' = Queue(m)

Apart == Elsewhere({}) /\ UNCHANGED <<tasks, sent, home, finished, dropped, next_worker>>

Enters(j) ==
  /\ j \in Jobs \ Posted /\ sent' = Append(sent, j)
  /\ Queue(Dispatcher)' = Append(Queue(Dispatcher), j) /\ Elsewhere({Dispatcher})
  /\ UNCHANGED <<tasks, home, finished, dropped, next_worker>>

Deals(j, w) ==
  /\ w = next_worker % N /\ next_worker' = FetchAdd
  /\ Queue(Dispatcher) # <<>> /\ j = Head(Queue(Dispatcher))
  /\ Queue(Dispatcher)' = Tail(Queue(Dispatcher)) /\ Queue(w)' = Append(Queue(w), j)
  /\ Elsewhere({w, Dispatcher})
  /\ home' = [home EXCEPT ![j] = w] /\ UNCHANGED <<tasks, sent, finished, dropped>>

Goes(j, w) ==
  /\ Queue(w) # <<>> /\ j = Head(Queue(w)) /\ Elsewhere({w})
  /\ UNCHANGED <<sent, home, finished, next_worker>>
  /\ \/ /\ Queue(w)' = Tail(Queue(w))
        /\ tasks' = [tasks EXCEPT ![w] = @ \cup {j}] /\ dropped' = dropped
     \/ Queue(w)' = Append(Tail(Queue(w)), j) /\ UNCHANGED <<tasks, dropped>>
     \/ Queue(w)' = Tail(Queue(w)) /\ tasks' = tasks /\ dropped' = dropped \cup {j}

Ends(j, w) ==
  /\ j \in tasks[w] /\ tasks' = [tasks EXCEPT ![w] = @ \ {j}]
  /\ finished' = finished \cup {j}
  /\ Elsewhere({}) /\ UNCHANGED <<sent, home, dropped, next_worker>>

Moves ==
  \/ Apart
  \/ \E j \in Jobs : Enters(j) \/ \E w \in Workers : Deals(j, w) \/ Goes(j, w) \/ Ends(j, w)

-----------------------------------------------------------------------------
LEMMA LoopSets ==
  /\ Dispatcher \in Loops /\ Dispatcher \notin Workers
  /\ \A w \in Workers : w \in Loops /\ w # Dispatcher
BY RuntimeAssumption DEF Dispatcher, Loops, Workers

LEMMA QueueTypes ==
  ASSUME TypeOK
  PROVE  \A l \in Loops : Queue(l) \in Seq(Jobs)
BY QueueParts DEF TypeOK, Queue

(* Every step of the Runtime is one of those. *)
LEMMA MoveStep ==
  ASSUME TypeOK, [Next]_vars
  PROVE  Moves
<1>0. /\ local \in [Loops -> Seq(Jobs)] /\ inbox \in [Loops -> Seq(Jobs)]
      /\ \A l \in Loops : local[l] \in Seq(Jobs) /\ inbox[l] \in Seq(Jobs)
  BY DEF TypeOK
<1>1. ASSUME UNCHANGED <<queueVars, jobVars, next_worker>> PROVE Moves
  BY <1>1 DEF Moves, Apart, Elsewhere, Queue, queueVars, jobVars
<1>2. CASE Owner \/ Ended \/ UNCHANGED vars
  BY <1>1, <1>2 DEF Owner, Start, StartLoop, ReplaceLoop, StartFails, Stop, Destroy,
       RequestStop, Join, ShutdownReturns, Ended, vars
<1>3. ASSUME NEW l \in Loops, RunReturns(l) PROVE Moves
  BY <1>1, <1>3 DEF RunReturns
<1>4. ASSUME NEW j \in Jobs, Post(j) PROVE Moves
  <2>1. Queue(Dispatcher)' = Append(Queue(Dispatcher), j)
    BY <1>0, <1>4, LoopSets, QueueParts DEF Post, Queue
  <2>2. Elsewhere({Dispatcher}) BY <1>0, <1>4 DEF Post, Queue, Elsewhere
  <2>3. Enters(j) BY <1>4, <2>1, <2>2 DEF Post, Enters, Posted
  <2> QED BY <2>3 DEF Moves
<1>5. ASSUME NEW l \in Loops, TakeInbox(l) PROVE Moves
  <2>1. Queue(l)' = Queue(l) BY <1>0, <1>5, QueueParts DEF TakeInbox, Swapped, Queue
  <2>2. Elsewhere({l}) BY ZenonT(30), <1>0, <1>5 DEF TakeInbox, Swapped, Queue, Elsewhere
  <2>3. Apart BY ZenonT(30), <1>5, <2>1, <2>2 DEF TakeInbox, Apart, Elsewhere, jobVars
  <2> QED BY <2>3 DEF Moves
<1>6. CASE Dispatch
  <2>1. PICK w \in Workers : w = next_worker % N /\ w \in Loops /\ w # Dispatcher
    <3>1. next_worker \in Nat BY RuntimeAssumption DEF TypeOK
    <3> QED BY <3>1, WorkerExists, LoopSets
  <2>2. PICK j \in Jobs : j = Head(local[Dispatcher])
    <3>1. local[Dispatcher] # <<>> BY <1>6 DEF Dispatch, DispatchTo
    <3> QED BY <1>0, <3>1, LoopSets
  <2>3. /\ local[Dispatcher] # <<>> /\ inbox' = [inbox EXCEPT ![w] = Append(@, j)]
        /\ home' = [home EXCEPT ![j] = w]
        /\ local' = [local EXCEPT ![Dispatcher] = Tail(@)]
        /\ UNCHANGED <<tasks, sent, finished, dropped>> /\ next_worker' = FetchAdd
    BY <1>6, <2>2, <2>1 DEF Dispatch, DispatchTo
  <2>4. /\ local'[Dispatcher] = Tail(local[Dispatcher]) /\ inbox'[Dispatcher] = inbox[Dispatcher]
        /\ local'[w] = local[w] /\ inbox'[w] = Append(inbox[w], j)
    BY <1>0, <2>1, <2>3, LoopSets
  <2>5. /\ Queue(Dispatcher) # <<>> /\ j = Head(Queue(Dispatcher))
        /\ Queue(Dispatcher)' = Tail(Queue(Dispatcher)) /\ Queue(w)' = Append(Queue(w), j)
    <3>1. /\ Queue(Dispatcher) # <<>> /\ Head(Queue(Dispatcher)) = Head(local[Dispatcher])
          /\ Tail(Queue(Dispatcher)) = Tail(local[Dispatcher]) \o inbox[Dispatcher]
      <4>1. local[Dispatcher] \in Seq(Jobs) /\ inbox[Dispatcher] \in Seq(Jobs)
        BY <1>0, LoopSets
      <4>2. local[Dispatcher] # <<>> BY <2>3
      <4> DEFINE s == local[Dispatcher]
                 t == inbox[Dispatcher]
      <4>3. s \in Seq(Jobs) /\ t \in Seq(Jobs) /\ s # <<>> BY <4>1, <4>2
      <4>4. Queue(Dispatcher) = s \o t BY DEF Queue
      <4> HIDE DEF s, t
      <4>5. s \o t # <<>> /\ Head(s \o t) = Head(s) /\ Tail(s \o t) = Tail(s) \o t
        BY <4>3, QueueParts
      <4> QED BY Zenon, <4>4, <4>5 DEF s, t
    <3>2. local[w] \o Append(inbox[w], j) = Append(local[w] \o inbox[w], j)
      <4>1. local[w] \in Seq(Jobs) /\ inbox[w] \in Seq(Jobs) /\ j \in Jobs
        BY <1>0, <2>1, <2>2
      <4> DEFINE s == local[w]
                 t == inbox[w]
      <4>2. s \in Seq(Jobs) /\ t \in Seq(Jobs) BY <4>1
      <4> HIDE DEF s, t
      <4>3. s \o Append(t, j) = Append(s \o t, j) BY <4>1, <4>2, QueueParts
      <4> QED BY <4>3 DEF s, t
    <3>3. Queue(Dispatcher)' = Tail(Queue(Dispatcher)) BY Zenon, <2>4, <3>1 DEF Queue
    <3>4. Queue(w)' = Append(Queue(w), j) BY Zenon, <2>4, <3>2 DEF Queue
    <3> QED BY <2>2, <3>1, <3>3, <3>4
  <2>6. Elsewhere({w, Dispatcher}) BY ZenonT(30), <1>0, <2>1, <2>3 DEF Queue, Elsewhere
  <2>7. Deals(j, w) BY <2>1, <2>3, <2>5, <2>6 DEF Deals
  <2> QED BY <2>7 DEF Moves
<1>7. ASSUME NEW w \in Workers, NEW j \in Jobs, Called(w, j),
             \/ /\ inbox' = inbox /\ dropped' = dropped
                /\ tasks' = [tasks EXCEPT ![w] = @ \cup {j}]
             \/ inbox' = Back(w, j) /\ UNCHANGED <<tasks, dropped>>
             \/ inbox' = inbox /\ tasks' = tasks /\ dropped' = dropped \cup {j}
      PROVE  Moves
  <2>1. /\ w \in Loops /\ local[w] # <<>> /\ j = Head(local[w])
        /\ local' = [local EXCEPT ![w] = Tail(@)] /\ Tail(local[w]) \in Seq(Jobs)
    BY <1>0, <1>7, LoopSets DEF Called
  <2>2. Queue(w) # <<>> /\ Head(Queue(w)) = j /\ Tail(Queue(w)) = Tail(local[w]) \o inbox[w]
    BY <1>0, <2>1, QueueParts DEF Queue
  <2>3. Elsewhere({w}) BY Zenon, <1>0, <1>7, <2>1 DEF Queue, Elsewhere, Back
  <2>4. inbox' = inbox => Queue(w)' = Tail(Queue(w)) BY <1>0, <2>1, <2>2 DEF Queue
  <2>5. inbox' = Back(w, j) => Queue(w)' = Append(Tail(Queue(w)), j)
    <3>1. Tail(local[w]) \o Append(inbox[w], j) = Append(Tail(local[w]) \o inbox[w], j)
      BY <1>0, <2>1, QueueParts
    <3> QED BY ZenonT(30), <1>0, <2>1, <2>2, <3>1 DEF Queue, Back
  <2>6. Goes(j, w) BY <1>7, <2>2, <2>3, <2>4, <2>5 DEF Goes, Called
  <2> QED BY <2>6 DEF Moves
<1>8. ASSUME NEW w \in Workers, NEW j \in Jobs, Job(w, j) PROVE Moves
  <2>1. CASE Finish(w, j)
    <3>1. Ends(j, w) BY ZenonT(30), <2>1 DEF Finish, Ends, Elsewhere, Queue
    <3> QED BY ZenonT(30), <3>1 DEF Moves
  <2>2. CASE Accept(w, j) BY Zenon, <1>7, <2>2 DEF Accept
  <2>3. CASE Requeue(w, j) BY <1>7, <2>3 DEF Requeue
  <2>4. CASE Drop(w, j) BY <1>7, <2>4 DEF Drop
  <2> QED BY <1>8, <2>1, <2>2, <2>3, <2>4 DEF Job
<1> QED BY <1>2, <1>3, <1>4, <1>5, <1>6, <1>8 DEF Next, Runner

-----------------------------------------------------------------------------
(* A job is in one place. *)
LEMMA PlaceStep ==
  ASSUME TypeOK, PlaceInv, Moves
  PROVE  PlaceInv'
<1> USE LoopSets
<1>0. /\ \A l \in Loops : Queue(l) \in Seq(Jobs) /\ Elements(Queue(l)) \subseteq Jobs
      /\ sent \in Seq(Jobs) /\ home \in [Jobs -> Loops] /\ tasks \in [Loops -> SUBSET Jobs]
  <2>1. \A l \in Loops : Queue(l) \in Seq(Jobs) BY QueueTypes
  <2>2. ASSUME NEW q \in Seq(Jobs) PROVE Elements(q) \subseteq Jobs BY DEF Elements
  <2> QED BY <2>1, <2>2 DEF TypeOK
<1>1. CASE Apart
  <2>1. /\ \A l \in Loops : Queue(l)' = Queue(l) /\ Holds(l)' = Holds(l)
        /\ Posted' = Posted /\ Past' = Past /\ tasks' = tasks /\ home' = home
    BY ZenonT(30), <1>1 DEF Apart, Elsewhere, Holds, Posted, Past
  <2> QED BY <2>1 DEF PlaceInv
<1>2. ASSUME NEW j \in Jobs, Enters(j) PROVE PlaceInv'
  <2>1. Posted' = Posted \cup {j} /\ Past' = Past /\ j \notin Posted
    BY <1>0, <1>2, ElementsAppend DEF Enters, Posted, Past
  <2>2. j \notin Elements(Queue(Dispatcher)) BY <1>2, <2>1 DEF PlaceInv, Holds
  <2>3. /\ Unique(Queue(Dispatcher)')
        /\ Elements(Queue(Dispatcher)') = Elements(Queue(Dispatcher)) \cup {j}
    BY <1>0, <1>2, <2>2, UniqueAppend, ElementsAppend DEF Enters, PlaceInv
  <2>4. \A l \in Loops : l # Dispatcher => Queue(l)' = Queue(l)
    BY <1>2 DEF Enters, Elsewhere
  <2>5. tasks' = tasks /\ home' = home BY <1>2 DEF Enters
  <2>6. /\ Holds(Dispatcher)' = Holds(Dispatcher) \cup {j}
        /\ \A l \in Loops : l # Dispatcher => Holds(l)' = Holds(l)
    BY ZenonT(30), <2>3, <2>4, <2>5 DEF Holds
  <2> QED BY <2>1, <2>2, <2>3, <2>4, <2>5, <2>6 DEF PlaceInv
<1>3. ASSUME NEW j \in Jobs, NEW w \in Workers, Deals(j, w) PROVE PlaceInv'
  <2>1. /\ Queue(Dispatcher) # <<>> /\ j = Head(Queue(Dispatcher))
        /\ Queue(Dispatcher)' = Tail(Queue(Dispatcher)) /\ Queue(w)' = Append(Queue(w), j)
        /\ \A l \in Loops : l \notin {w, Dispatcher} => Queue(l)' = Queue(l)
    BY <1>3 DEF Deals, Elsewhere
  <2>2. /\ Elements(Queue(Dispatcher)) = {j} \cup Elements(Queue(Dispatcher)')
        /\ Unique(Queue(Dispatcher)') /\ j \notin Elements(Queue(Dispatcher)')
    BY <1>0, <2>1, ElementsTail, UniqueTail DEF PlaceInv
  <2>3. j \in Posted \ Past /\ home[j] = Dispatcher /\ j \notin Holds(w)
    BY ZenonT(30), <2>2 DEF PlaceInv, Holds
  <2>4. Unique(Queue(w)') /\ Elements(Queue(w)') = Elements(Queue(w)) \cup {j}
    BY <1>0, <2>1, <2>3, UniqueAppend, ElementsAppend DEF PlaceInv, Holds
  <2>5. /\ Posted' = Posted /\ Past' = Past /\ tasks' = tasks
        /\ home'[j] = w /\ \A i \in Jobs : i # j => home'[i] = home[i]
    BY ZenonT(30), <1>0, <1>3 DEF Deals, Posted, Past
  <2>6. /\ Holds(w)' = Holds(w) \cup {j} /\ Holds(Dispatcher)' = Holds(Dispatcher) \ {j}
        /\ \A l \in Loops : l \notin {w, Dispatcher} => Holds(l)' = Holds(l)
    <3>1. Holds(w)' = Holds(w) \cup {j} BY <2>4, <2>5 DEF Holds
    <3>2. Holds(Dispatcher)' = Holds(Dispatcher) \ {j}
      <4>1. tasks[Dispatcher] = {} BY Zenon DEF PlaceInv
      <4> QED BY <2>2, <2>5, <4>1 DEF Holds
    <3>3. \A l \in Loops : l \notin {w, Dispatcher} => Holds(l)' = Holds(l) BY Zenon, <2>1, <2>5 DEF Holds
    <3> QED BY Zenon, <3>1, <3>2, <3>3
  <2>7. \A l \in Loops : Unique(Queue(l)') /\ Elements(Queue(l)') \cap tasks'[l] = {}
    <3> SUFFICES ASSUME NEW l \in Loops
                 PROVE  Unique(Queue(l)') /\ Elements(Queue(l)') \cap tasks'[l] = {}
      OBVIOUS
    <3>1. CASE l = w
      <4>1. Elements(Queue(w)) \cap tasks[w] = {} /\ j \notin tasks[w] BY Zenon, <2>3 DEF PlaceInv, Holds
      <4>2. Elements(Queue(w)') \cap tasks'[w] = {} BY <2>4, <2>5, <4>1
      <4> QED BY Zenon, <2>4, <3>1, <4>2
    <3>2. CASE l = Dispatcher BY ZenonT(30), <2>2, <2>5, <3>2 DEF PlaceInv
    <3>3. CASE l \notin {w, Dispatcher}
      <4>1. Queue(l)' = Queue(l) /\ tasks' = tasks BY Zenon, <2>1, <2>5, <3>3
      <4>2. Unique(Queue(l)) /\ Elements(Queue(l)) \cap tasks[l] = {} BY Zenon DEF PlaceInv
      <4> QED BY Zenon, <4>1, <4>2
    <3> QED BY Zenon, <3>1, <3>2, <3>3
  <2>8. \A l \in Loops, i \in Jobs : i \in Holds(l)' <=> i \in Posted \ Past /\ home'[i] = l
    <3> TAKE l \in Loops, i \in Jobs
    <3>1. i \in Holds(l) <=> i \in Posted \ Past /\ home[i] = l BY Zenon DEF PlaceInv
    <3>2. CASE i = j BY ZenonT(30), <2>3, <2>5, <2>6, <3>1, <3>2
    <3>3. CASE i # j
      <4>1. home'[i] = home[i] BY Zenon, <2>5, <3>3
      <4>2. i \in Holds(l)' <=> i \in Holds(l) BY ZenonT(30), <2>6, <3>3
      <4> QED BY Zenon, <3>1, <4>1, <4>2
    <3> QED BY Zenon, <3>2, <3>3
  <2>9. Past' \subseteq Posted' /\ (\A i \in Past' : home'[i] # Dispatcher)
    <3>1. Past \subseteq Jobs BY Zenon DEF Past, TypeOK
    <3> QED BY <2>3, <2>5, <3>1 DEF PlaceInv
  <2>10. (\A i \in Jobs \ Posted' : home'[i] = Dispatcher) /\ tasks'[Dispatcher] = {}
    BY <2>3, <2>5 DEF PlaceInv
  <2> QED BY ZenonT(30), <2>5, <2>7, <2>8, <2>9, <2>10 DEF PlaceInv
<1>4. ASSUME NEW j \in Jobs, NEW w \in Workers, Goes(j, w) PROVE PlaceInv'
  <2>1. /\ Queue(w) # <<>> /\ j = Head(Queue(w)) /\ Posted' = Posted /\ home' = home
        /\ \A l \in Loops : l # w => Queue(l)' = Queue(l)
    BY <1>4 DEF Goes, Elsewhere, Posted
  <2> DEFINE t == Tail(Queue(w))
  <2>2. /\ t \in Seq(Jobs) /\ Elements(Queue(w)) = {j} \cup Elements(t)
        /\ Unique(t) /\ j \notin Elements(t)
    BY <1>0, <2>1, ElementsTail, UniqueTail DEF PlaceInv
  <2>3. Queue(w)' \in {t, Append(t, j)} BY <1>4 DEF Goes
  <2>4. j \in Posted \ Past /\ home[j] = w /\ j \notin tasks[w]
    BY ZenonT(30), <2>2 DEF PlaceInv, Holds
  <2>5. CASE Queue(w)' = t /\ tasks' = [tasks EXCEPT ![w] = @ \cup {j}] /\ dropped' = dropped
    <3>1. Past' = Past BY <1>4, <2>5 DEF Goes, Past
    <3> HIDE DEF t
    <3>2. \A l \in Loops : tasks'[l] = IF l = w THEN tasks[l] \cup {j} ELSE tasks[l]
      BY Zenon, <1>0, <2>5
    <3>3. ASSUME NEW l \in Loops PROVE Holds(l)' = Holds(l)
      <4>1. CASE l = w
        <5>1. tasks'[w] = tasks[w] \cup {j} BY Zenon, <3>2
        <5>2. Elements(Queue(w)') \cup tasks'[w] = Elements(Queue(w)) \cup tasks[w]
          BY <2>2, <2>5, <5>1
        <5> QED BY <4>1, <5>2 DEF Holds
      <4>2. CASE l # w BY Zenon, <2>1, <3>2, <4>2 DEF Holds
      <4> QED BY <4>1, <4>2
    <3>4. \A l \in Loops : Unique(Queue(l)') /\ Elements(Queue(l)') \cap tasks'[l] = {}
      BY <2>1, <2>2, <2>5, <3>2 DEF PlaceInv
    <3>5. tasks'[Dispatcher] = {} BY ZenonT(30), <3>2 DEF PlaceInv
    <3>6. \A k \in Loops, i \in Jobs : i \in Holds(k)' <=> i \in Posted' \ Past' /\ home'[i] = k
      <4> TAKE k \in Loops, i \in Jobs
      <4>1. Holds(k)' = Holds(k) BY Zenon, <3>3
      <4>2. i \in Holds(k) <=> i \in Posted \ Past /\ home[i] = k BY Zenon DEF PlaceInv
      <4> QED BY Zenon, <2>1, <3>1, <4>1, <4>2
    <3>7. /\ Past' \subseteq Posted' /\ (\A i \in Past' : home'[i] # Dispatcher)
          /\ \A i \in Jobs \ Posted' : home'[i] = Dispatcher
      BY Zenon, <2>1, <3>1 DEF PlaceInv
    <3> QED BY Zenon, <3>4, <3>5, <3>6, <3>7 DEF PlaceInv
  <2>6. CASE Queue(w)' = Append(t, j) /\ UNCHANGED <<tasks, dropped>>
    <3>1. Past' = Past BY <1>4, <2>6 DEF Goes, Past
    <3> HIDE DEF t
    <3>2. Unique(Queue(w)') /\ Elements(Queue(w)') = Elements(Queue(w))
      BY <2>2, <2>6, UniqueAppend, ElementsAppend
    <3>3. \A l \in Loops : Holds(l)' = Holds(l) BY ZenonT(30), <2>1, <2>6, <3>2 DEF Holds
    <3>4. \A l \in Loops : Unique(Queue(l)') /\ Elements(Queue(l)') \cap tasks'[l] = {}
      <4> SUFFICES ASSUME NEW l \in Loops
                   PROVE  Unique(Queue(l)') /\ Elements(Queue(l)') \cap tasks'[l] = {}
        OBVIOUS
      <4>1. CASE l = w BY ZenonT(30), <2>6, <3>2, <4>1 DEF PlaceInv
      <4>2. CASE l # w
        <5>1. Queue(l)' = Queue(l) /\ tasks' = tasks BY Zenon, <2>1, <2>6, <4>2
        <5> QED BY <5>1 DEF PlaceInv
      <4> QED BY Zenon, <4>1, <4>2
    <3>5. \A k \in Loops, i \in Jobs : i \in Holds(k)' <=> i \in Posted' \ Past' /\ home'[i] = k
      <4> TAKE k \in Loops, i \in Jobs
      <4>1. Holds(k)' = Holds(k) BY Zenon, <3>3
      <4>2. i \in Holds(k) <=> i \in Posted \ Past /\ home[i] = k BY Zenon DEF PlaceInv
      <4> QED BY Zenon, <2>1, <3>1, <4>1, <4>2
    <3>6. /\ Past' \subseteq Posted' /\ (\A i \in Past' : home'[i] # Dispatcher)
          /\ \A i \in Jobs \ Posted' : home'[i] = Dispatcher
      BY Zenon, <2>1, <3>1 DEF PlaceInv
    <3>7. tasks'[Dispatcher] = {} BY Zenon, <2>6 DEF PlaceInv
    <3> QED BY Zenon, <3>4, <3>5, <3>6, <3>7 DEF PlaceInv
  <2>7. CASE Queue(w)' = t /\ tasks' = tasks /\ dropped' = dropped \cup {j}
    <3>1. Past' = Past \cup {j} BY <1>4, <2>7 DEF Goes, Past
    <3> HIDE DEF t
    <3>2. Holds(w)' = Holds(w) \ {j} /\ \A l \in Loops : l # w => Holds(l)' = Holds(l)
      BY ZenonT(30), <2>1, <2>2, <2>4, <2>7 DEF Holds
    <3>3. \A l \in Loops : Unique(Queue(l)') /\ Elements(Queue(l)') \cap tasks'[l] = {}
      BY <2>1, <2>2, <2>7 DEF PlaceInv
    <3>4. \A k \in Loops, i \in Jobs : i \in Holds(k)' <=> i \in Posted' \ Past' /\ home'[i] = k
      BY <2>1, <2>4, <3>1, <3>2 DEF PlaceInv
    <3>5. /\ Past' \subseteq Posted' /\ (\A i \in Past' : home'[i] # Dispatcher)
          /\ \A i \in Jobs \ Posted' : home'[i] = Dispatcher
      <4>1. w # Dispatcher BY Zenon
      <4> QED BY ZenonT(30), <2>1, <2>4, <3>1, <4>1 DEF PlaceInv
    <3>6. tasks'[Dispatcher] = {} BY Zenon, <2>7 DEF PlaceInv
    <3> QED BY Zenon, <3>3, <3>4, <3>5, <3>6 DEF PlaceInv
  <2> QED BY <1>4, <2>5, <2>6, <2>7 DEF Goes
<1>5. ASSUME NEW j \in Jobs, NEW w \in Workers, Ends(j, w) PROVE PlaceInv'
  <2>1. /\ j \in tasks[w] /\ tasks' = [tasks EXCEPT ![w] = @ \ {j}]
        /\ Past' = Past \cup {j} /\ Posted' = Posted /\ home' = home
        /\ \A l \in Loops : Queue(l)' = Queue(l)
    BY <1>5 DEF Ends, Elsewhere, Posted, Past
  <2>2. j \in Posted \ Past /\ home[j] = w BY <2>1 DEF PlaceInv, Holds
  <2>3. \A l \in Loops : tasks'[l] = IF l = w THEN tasks[l] \ {j} ELSE tasks[l]
    BY Zenon, <1>0, <2>1
  <2>4. Holds(w)' = Holds(w) \ {j} /\ \A l \in Loops : l # w => Holds(l)' = Holds(l)
    BY <2>1, <2>3 DEF Holds, PlaceInv
  <2>5. \A l \in Loops : Unique(Queue(l)') /\ Elements(Queue(l)') \cap tasks'[l] = {}
    BY <2>1, <2>3 DEF PlaceInv
  <2>6. \A k \in Loops, i \in Jobs : i \in Holds(k)' <=> i \in Posted' \ Past' /\ home'[i] = k
    <3> TAKE k \in Loops, i \in Jobs
    <3>1. Holds(k)' = IF k = w THEN Holds(k) \ {j} ELSE Holds(k) BY Zenon, <2>4
    <3>2. i \in Holds(k) <=> i \in Posted \ Past /\ home[i] = k BY Zenon DEF PlaceInv
    <3>3. home[j] = w /\ Past' = Past \cup {j} /\ Posted' = Posted /\ home' = home BY Zenon, <2>1, <2>2
    <3> QED BY Zenon, <3>1, <3>2, <3>3
  <2>7. /\ Past' \subseteq Posted' /\ (\A i \in Past' : home'[i] # Dispatcher)
        /\ \A i \in Jobs \ Posted' : home'[i] = Dispatcher
    <3>1. w # Dispatcher BY Zenon
    <3> QED BY <2>1, <2>2, <3>1 DEF PlaceInv
  <2>8. tasks'[Dispatcher] = {} BY Zenon, <2>3 DEF PlaceInv
  <2> QED BY Zenon, <2>5, <2>6, <2>7, <2>8 DEF PlaceInv
<1> QED BY <1>1, <1>2, <1>3, <1>4, <1>5 DEF Moves

-----------------------------------------------------------------------------
(* The workers are served in turn. *)
LEMMA CountsUp ==
  ASSUME NEW k \in Nat PROVE ((k % CounterSize) + 1) % CounterSize = (k + 1) % CounterSize
<1>1. k \in Int /\ 1 \in Int /\ CounterSize \in Nat \ {0} BY RuntimeAssumption
<1> QED BY Zenon, <1>1, ModAdd

LEMMA DealStep ==
  ASSUME TypeOK, PlaceInv, DealInv, Moves
  PROVE  DealInv'
<1> USE LoopSets
<1>0. /\ Queue(Dispatcher) \in Seq(Jobs) /\ sent \in Seq(Jobs) /\ home \in [Jobs -> Loops]
      /\ Len(sent) \in Nat /\ Len(Queue(Dispatcher)) \in Nat /\ Dealt \in Nat
  <2>1. Queue(Dispatcher) \in Seq(Jobs) /\ sent \in Seq(Jobs) /\ home \in [Jobs -> Loops] /\ Dealt \in Nat
    BY Zenon, QueueTypes DEF TypeOK, DealInv
  <2> QED BY <2>1
<1>1. ASSUME Queue(Dispatcher)' = Queue(Dispatcher), UNCHANGED <<sent, home, next_worker>>
      PROVE  DealInv'
  BY <1>1 DEF DealInv, Dealt
<1>2. CASE Apart BY <1>1, <1>2 DEF Apart, Elsewhere
<1>3. ASSUME NEW j \in Jobs, NEW w \in Workers, Goes(j, w) \/ Ends(j, w) PROVE DealInv'
  BY <1>1, <1>3 DEF Goes, Ends, Elsewhere
<1>4. ASSUME NEW j \in Jobs, Enters(j) PROVE DealInv'
  <2> DEFINE q == Queue(Dispatcher)
             c == Dealt
  <2>1. /\ sent' = Append(sent, j) /\ q' = Append(q, j) /\ home' = home
        /\ next_worker' = next_worker /\ j \notin Elements(sent) /\ home[j] = Dispatcher
    BY Zenon, <1>4 DEF Enters, Posted, PlaceInv
  <2>2. /\ Unique(sent) /\ next_worker = c % CounterSize /\ c = Len(sent) - Len(q)
        /\ \A i \in 1 .. Len(q) : q[i] = sent[c + i]
        /\ \A i \in 1 .. Len(sent) : home[sent[i]] = IF i <= c THEN Turn(i) ELSE Dispatcher
    BY DEF DealInv, Dealt
  <2>3. q \in Seq(Jobs) /\ Len(q) \in Nat /\ c \in Nat BY <1>0
  <2>4. c' = Len(sent') - Len(q') BY DEF Dealt
  <2> HIDE DEF q, c
  <2>5. /\ Len(sent') = Len(sent) + 1 /\ Len(q') = Len(q) + 1 /\ c' = c
        /\ sent'[Len(sent) + 1] = j /\ q'[Len(q) + 1] = j
        /\ \A i \in 1 .. Len(sent) : sent'[i] = sent[i]
        /\ \A i \in 1 .. Len(q) : q'[i] = q[i]
    <3>0. sent \in Seq(Jobs) /\ sent' = Append(sent, j) /\ q' = Append(q, j) BY Zenon, <1>0, <2>1
    <3>1. Len(sent') = Len(sent) + 1 /\ sent'[Len(sent) + 1] = j /\ \A i \in 1 .. Len(sent) : sent'[i] = sent[i]
      BY <3>0
    <3>2. Len(q') = Len(q) + 1 /\ q'[Len(q) + 1] = j /\ \A i \in 1 .. Len(q) : q'[i] = q[i] BY <2>3, <3>0
    <3>3. Len(sent) \in Nat /\ Len(q) \in Nat /\ c = Len(sent) - Len(q) BY <2>2, <2>3, <3>0
    <3>4. c' = c BY <2>4, <3>1, <3>2, <3>3
    <3> QED BY Zenon, <3>1, <3>2, <3>4
  <2>6. Unique(sent') BY <1>0, <2>1, <2>2, UniqueAppend
  <2>7. \A i \in 1 .. Len(q') : q'[i] = sent'[c + i]
    <3> SUFFICES ASSUME NEW i \in 1 .. Len(q) + 1 PROVE q'[i] = sent'[c + i] BY <2>5
    <3>1. CASE i = Len(q) + 1
      <4>1. c + i = Len(sent) + 1 BY <1>0, <2>2, <2>3, <3>1
      <4> QED BY <2>5, <3>1, <4>1
    <3>2. CASE i \in 1 .. Len(q)
      <4>1. c + i \in 1 .. Len(sent) BY <1>0, <2>2, <2>3, <3>2
      <4>2. q[i] = sent[c + i] BY Zenon, <2>2, <3>2
      <4> QED BY <2>5, <3>2, <4>1, <4>2
    <3> QED BY <2>3, <3>1, <3>2
  <2>8. \A i \in 1 .. Len(sent') : home[sent'[i]] = IF i <= c THEN Turn(i) ELSE Dispatcher
    BY <1>0, <2>1, <2>2, <2>3, <2>5
  <2>9. next_worker' = c % CounterSize BY Zenon, <2>1, <2>2
  <2> QED BY Zenon, <2>1, <2>3, <2>5, <2>6, <2>7, <2>8, <2>9 DEF DealInv, q, c, Turn
<1>5. ASSUME NEW j \in Jobs, NEW w \in Workers, Deals(j, w) PROVE DealInv'
  <2> DEFINE q == Queue(Dispatcher)
             c == Dealt
  <2>1. /\ sent' = sent /\ q # <<>> /\ j = Head(q) /\ q' = Tail(q)
        /\ home' = [home EXCEPT ![j] = w] /\ next_worker' = FetchAdd /\ w = next_worker % N
    BY <1>5 DEF Deals
  <2>2. /\ Unique(sent) /\ next_worker = c % CounterSize /\ c = Len(sent) - Len(q)
        /\ \A i \in 1 .. Len(q) : q[i] = sent[c + i]
        /\ \A i \in 1 .. Len(sent) : home[sent[i]] = IF i <= c THEN Turn(i) ELSE Dispatcher
    BY DEF DealInv, Dealt
  <2>3. q \in Seq(Jobs) /\ Len(q) \in Nat /\ c \in Nat BY <1>0
  <2>4. c' = Len(sent') - Len(q') BY DEF Dealt
  <2>5. next_worker' = (c + 1) % CounterSize BY <2>1, <2>2, <2>3, CountsUp DEF FetchAdd
  <2>6. w = Turn(c + 1)
    <3>1. (c + 1) - 1 = c BY <2>3
    <3> QED BY <2>1, <2>2, <3>1 DEF Turn
  <2> HIDE DEF q, c
  <2>7. /\ Len(q) > 0 /\ Len(q') = Len(q) - 1 /\ c' = c + 1 /\ c + 1 \in 1 .. Len(sent)
        /\ j = sent[c + 1] /\ \A i \in 1 .. Len(q') : q'[i] = q[i + 1]
    <3>1. Len(q) > 0 /\ Len(q') = Len(q) - 1 /\ j = q[1] BY <2>1, <2>3
    <3>2. \A i \in 1 .. Len(q') : q'[i] = q[i + 1] BY <2>1, <2>3, <3>1
    <3>3. c' = c + 1 /\ c + 1 \in 1 .. Len(sent) BY <1>0, <2>1, <2>2, <2>3, <2>4, <3>1
    <3>4. 1 \in 1 .. Len(q) BY <2>3, <3>1
    <3> QED BY Zenon, <2>2, <3>1, <3>2, <3>3, <3>4
  <2>8. \A i \in 1 .. Len(q') : q'[i] = sent[c + 1 + i]
    <3> SUFFICES ASSUME NEW i \in 1 .. Len(q') PROVE q'[i] = sent[c + 1 + i] OBVIOUS
    <3>1. i + 1 \in 1 .. Len(q) /\ c + (i + 1) = c + 1 + i BY <2>3, <2>7
    <3>2. q[i + 1] = sent[c + (i + 1)] BY <2>2, <3>1
    <3> QED BY Zenon, <2>7, <3>1, <3>2
  <2>9. ASSUME NEW i \in 1 .. Len(sent)
        PROVE  home'[sent[i]] = IF i <= c + 1 THEN Turn(i) ELSE Dispatcher
    <3>1. sent[i] \in Jobs /\ home'[j] = w BY <1>0, <2>1
    <3>2. CASE i = c + 1 BY <2>3, <2>6, <2>7, <3>1, <3>2
    <3>3. CASE i # c + 1
      <4>1. sent[i] # j BY Zenon, <2>2, <2>7, <3>3 DEF Unique
      <4>2. home'[sent[i]] = home[sent[i]] BY Zenon, <1>0, <2>1, <3>1, <4>1
      <4>3. home[sent[i]] = IF i <= c THEN Turn(i) ELSE Dispatcher BY <2>2
      <4>4. i <= c + 1 <=> i <= c BY <1>0, <2>3, <3>3
      <4> QED BY <4>2, <4>3, <4>4
    <3> QED BY <3>2, <3>3
  <2> QED BY <2>1, <2>2, <2>3, <2>5, <2>7, <2>8, <2>9 DEF DealInv, q, c, Turn
<1> QED BY ZenonT(30), <1>2, <1>3, <1>4, <1>5 DEF Moves

-----------------------------------------------------------------------------
(* Every scheduler takes a step of EventLoop, or none. *)
LEMMA LoopSteps ==
  ASSUME TypeOK, PlaceInv, Moves, NEW l \in Loops
  PROVE  LoopStep(l)
<1> USE LoopSets
<1>0. /\ sent \in Seq(Jobs) /\ home \in [Jobs -> Loops] /\ tasks \in [Loops -> SUBSET Jobs]
      /\ Past \subseteq Jobs /\ Posted \subseteq Jobs
  BY SMTT(30) DEF TypeOK, Past, Posted, Elements
<1>1. \A k \in Loops : Over(k) = {j \in Posted : IF k = Dispatcher THEN home[j] # k
                                               ELSE home[j] = k /\ j \in Past}
  BY DEF Over, Posted, Past
<1>2. \A k \in Loops : Over(k)' = {j \in Posted' : IF k = Dispatcher THEN home'[j] # k
                                                 ELSE home'[j] = k /\ j \in Past'}
  BY DEF Over, Posted, Past
<1>3. ASSUME Queue(l)' = Queue(l), tasks'[l] = tasks[l], Over(l)' = Over(l) PROVE LoopStep(l)
  BY Zenon, <1>3 DEF LoopStep
<1>4. CASE Apart
  <2>1. Over(l)' = Over(l) BY <1>4 DEF Apart, Over
  <2> QED BY <1>3, <1>4, <2>1 DEF Apart, Elsewhere
<1>5. ASSUME NEW j \in Jobs, Enters(j) PROVE LoopStep(l)
  <2>1. /\ Posted' = Posted \cup {j} /\ Past' = Past /\ j \notin Posted
        /\ home' = home /\ home[j] = Dispatcher /\ tasks' = tasks
    BY <1>0, <1>5, ElementsAppend DEF Enters, Posted, Past, PlaceInv
  <2>2. Over(l)' = Over(l) BY <1>1, <1>2, <2>1
  <2>3. CASE l = Dispatcher
    <3>1. j \notin Over(l) BY Zenon, <1>1, <2>1
    <3>2. Loop(l)!Fresh(j)
      BY ZenonT(30), <2>1, <3>1 DEF PlaceInv, Holds, Loop!Fresh, Loop!Elements, Elements
    <3>3. Loop(l)!Hand(j) BY ZenonT(30), <1>5, <2>1, <2>2, <2>3, <3>2 DEF Enters, Loop!Hand
    <3> QED BY <3>3 DEF LoopStep, Loop!LNext
  <2>4. CASE l # Dispatcher BY <1>3, <1>5, <2>1, <2>2, <2>4 DEF Enters, Elsewhere
  <2> QED BY Zenon, <2>3, <2>4
<1>6. ASSUME NEW j \in Jobs, NEW w \in Workers, Deals(j, w) PROVE LoopStep(l)
  <2>1. /\ Posted' = Posted /\ Past' = Past /\ tasks' = tasks
        /\ home'[j] = w /\ \A i \in Jobs : i # j => home'[i] = home[i]
    BY <1>0, <1>6 DEF Deals, Posted, Past
  <2>2. j \in Elements(Queue(Dispatcher))
    BY Zenon, QueueTypes, <1>6, ElementsTail DEF Deals
  <2>3. j \in Posted \ Past /\ home[j] = Dispatcher BY <2>2 DEF PlaceInv, Holds
  <2>4. CASE l = Dispatcher
    <3>1. Over(l)' = Over(l) \cup {j} BY <1>0, <1>1, <1>2, <2>1, <2>3, <2>4
    <3>2. Loop(l)!Call BY <1>6, <2>1, <2>4, <3>1 DEF Deals, Loop!Call
    <3> QED BY Zenon, <3>2 DEF LoopStep, Loop!LNext
  <2>5. CASE l # Dispatcher
    <3>1. Over(l)' = Over(l)
      <4>1. \A i \in Posted : home'[i] = l /\ i \in Past <=> home[i] = l /\ i \in Past
        BY <1>0, <2>1, <2>3
      <4>2. Over(l) = {i \in Posted : home[i] = l /\ i \in Past} BY Zenon, <1>1, <2>5
      <4>3. Over(l)' = {i \in Posted : home'[i] = l /\ i \in Past} BY Zenon, <1>2, <2>1, <2>5
      <4> QED BY Zenon, <4>1, <4>2, <4>3
    <3>2. CASE l # w BY Zenon, <1>3, <1>6, <2>1, <2>5, <3>1, <3>2 DEF Deals, Elsewhere
    <3>3. CASE l = w
      <4>1. j \notin Over(l) /\ j \notin Holds(l)
        <5>1. j \notin Over(l) BY Zenon, <1>1, <2>3, <2>5
        <5>2. j \notin Holds(l) BY Zenon, <2>3, <2>5 DEF PlaceInv
        <5> QED BY Zenon, <5>1, <5>2
      <4>2. Loop(l)!Fresh(j) BY <4>1 DEF Holds, Loop!Fresh, Loop!Elements, Elements
      <4>3. Loop(l)!Hand(j) BY ZenonT(30), <1>6, <2>1, <3>1, <3>3, <4>2 DEF Deals, Loop!Hand
      <4> QED BY ZenonT(30), <4>3 DEF LoopStep, Loop!LNext
    <3> QED BY ZenonT(30), <3>2, <3>3
  <2> QED BY <2>4, <2>5
<1>7. ASSUME NEW j \in Jobs, NEW w \in Workers, Goes(j, w) PROVE LoopStep(l)
  <2>1. Posted' = Posted /\ home' = home /\ finished' = finished BY <1>7 DEF Goes, Posted
  <2>2. j \in Elements(Queue(w))
    BY ZenonT(30), QueueTypes, <1>7, ElementsTail DEF Goes
  <2>3. j \in Posted \ Past /\ home[j] = w BY ZenonT(30), <2>2 DEF PlaceInv, Holds
  <2>4. Past' \in {Past, Past \cup {j}} /\ (dropped' = dropped => Past' = Past)
    BY <1>7, <2>1 DEF Goes, Past
  <2>5. CASE l # w
    <3>1. Over(l)' = Over(l)
      <4>1. \A i \in Posted : home[i] = l /\ i \in Past' <=> home[i] = l /\ i \in Past
        BY <2>3, <2>4, <2>5
      <4> QED BY Zenon, <1>1, <1>2, <2>1, <4>1
    <3>2. tasks'[l] = tasks[l] BY ZenonT(30), <1>0, <1>7, <2>5 DEF Goes
    <3> QED BY <1>3, <1>7, <2>5, <3>1, <3>2 DEF Goes, Elsewhere
  <2>6. CASE l = w
    <3>1. Past' = Past => Over(l)' = Over(l) BY <1>1, <1>2, <2>1
    <3>2. Past' = Past \cup {j} => Over(l)' = Over(l) \cup {j}
      BY <1>1, <1>2, <2>1, <2>3, <2>6
    <3>3. dropped' = dropped \cup {j} => Past' = Past \cup {j} BY <2>1 DEF Past
    <3>4. Queue(l) # <<>> /\ j = Head(Queue(l)) BY <1>7, <2>6 DEF Goes
    <3>5. \/ /\ Queue(l)' = Tail(Queue(l)) /\ tasks'[l] = tasks[l] \cup {j}
             /\ dropped' = dropped
          \/ Queue(l)' = Append(Tail(Queue(l)), j) /\ tasks' = tasks /\ dropped' = dropped
          \/ /\ Queue(l)' = Tail(Queue(l)) /\ tasks' = tasks
             /\ dropped' = dropped \cup {j}
      BY ZenonT(30), <1>0, <1>7, <2>6 DEF Goes
    <3>6. Loop(l)!Call BY Zenon, <2>4, <3>1, <3>2, <3>3, <3>4, <3>5 DEF Loop!Call
    <3> QED BY ZenonT(30), <3>6 DEF LoopStep, Loop!LNext
  <2> QED BY <2>5, <2>6
<1>8. ASSUME NEW j \in Jobs, NEW w \in Workers, Ends(j, w) PROVE LoopStep(l)
  <2>1. /\ j \in tasks[w] /\ Past' = Past \cup {j} /\ Posted' = Posted /\ home' = home
        /\ Queue(l)' = Queue(l)
    BY ZenonT(30), <1>8 DEF Ends, Elsewhere, Posted, Past
  <2>2. j \in Posted \ Past /\ home[j] = w BY <2>1 DEF PlaceInv, Holds
  <2>3. CASE l # w
    <3>1. Over(l)' = Over(l) BY SMTT(30), <1>1, <1>2, <2>1, <2>2, <2>3
    <3>2. tasks'[l] = tasks[l] BY <1>0, <1>8, <2>3 DEF Ends
    <3> QED BY ZenonT(30), <1>3, <2>1, <3>1, <3>2
  <2>4. CASE l = w
    <3>1. Over(l)' = Over(l) \cup {j} BY <1>1, <1>2, <2>1, <2>2, <2>4
    <3>2. tasks'[l] = tasks[l] \ {j} BY <1>0, <1>8, <2>4 DEF Ends
    <3>3. Loop(l)!End BY Zenon, <2>1, <2>4, <3>1, <3>2 DEF Loop!End
    <3> QED BY ZenonT(30), <3>3 DEF LoopStep, Loop!LNext
  <2> QED BY <2>3, <2>4
<1> QED BY Zenon, <1>4, <1>5, <1>6, <1>7, <1>8 DEF Moves

-----------------------------------------------------------------------------
LEMMA DispatchInit == Init => PlaceInv /\ DealInv /\ \A l \in Loops : Loop(l)!LInit
<1> SUFFICES ASSUME Init PROVE PlaceInv /\ DealInv /\ \A l \in Loops : Loop(l)!LInit
  OBVIOUS
<1> USE LoopSets
<1>1. \A l \in Loops : Queue(l) = <<>> /\ tasks[l] = {} BY DEF Init, Queue
<1>2. Posted = {} /\ Past = {} /\ \A j \in Jobs : home[j] = Dispatcher
  BY DEF Init, Posted, Past, Elements
<1>3. \A l \in Loops : Unique(Queue(l)) /\ Elements(Queue(l)) = {} /\ Holds(l) = {}
  BY <1>1 DEF Unique, Elements, Holds
<1>4. PlaceInv BY <1>1, <1>2, <1>3 DEF PlaceInv
<1>5. Dealt = 0 /\ Len(sent) = 0 /\ Len(Queue(Dispatcher)) = 0 /\ sent = <<>>
  BY <1>1 DEF Init, Dealt
<1>6. next_worker = 0 % CounterSize BY RuntimeAssumption, ModSmall DEF Init
<1>7. DealInv BY <1>5, <1>6 DEF DealInv, Unique
<1>8. \A l \in Loops : Over(l) = {} BY <1>2 DEF Over, Posted
<1> QED BY ZenonT(30), <1>1, <1>4, <1>7, <1>8 DEF Loop!LInit

LEMMA DispatchStep ==
  ASSUME TypeOK, PlaceInv, DealInv, [Next]_vars
  PROVE  PlaceInv' /\ DealInv' /\ \A l \in Loops : LoopStep(l)
BY MoveStep, PlaceStep, DealStep, LoopSteps

LEMMA Dispatched == Spec => [](PlaceInv /\ DealInv)
<1>1. TypeOK /\ (PlaceInv /\ DealInv) /\ [Next]_vars => (PlaceInv /\ DealInv)'
  BY DispatchStep
<1>2. Init => PlaceInv /\ DealInv BY DispatchInit
<1> QED BY <1>1, <1>2, RuntimeTypes, PTL DEF Spec

(* No stop(), restart, requeue or failed spawn() loses a posted job or     *)
(* lets two workers have it.                                               *)
THEOREM JobsOneWorker == Spec => []OneWorker
<1>1. TypeOK /\ PlaceInv => OneWorker
  <2> SUFFICES ASSUME TypeOK, PlaceInv PROVE OneWorker
    OBVIOUS
  <2>1. Elements(sent) \subseteq Jobs BY SMTT(30) DEF TypeOK, Elements
  <2>2. ASSUME NEW j \in Elements(sent)
        PROVE  IF j \in finished \cup dropped
               THEN \A l \in Loops : j \notin Holds(l)
               ELSE {l \in Loops : j \in Holds(l)} = {home[j]}
    <3>1. \A l \in Loops : j \in Holds(l) <=> j \in Posted \ Past /\ home[j] = l
      BY ZenonT(30), <2>1 DEF PlaceInv
    <3>2. j \in Posted /\ home[j] \in Loops BY <2>1 DEF Posted, TypeOK
    <3> QED BY ZenonT(30), <3>1, <3>2 DEF Past
  <2> QED BY ZenonT(30), <2>2 DEF OneWorker, PlaceInv
<1> QED BY <1>1, Dispatched, RuntimeTypes, PTL

LEMMA TurnExists ==
  ASSUME NEW i \in Nat, i > 0 PROVE Turn(i) \in Workers
<1>1. i - 1 \in Nat /\ CounterSize \in Nat \ {0} BY RuntimeAssumption
<1>2. (i - 1) % CounterSize \in Nat BY <1>1
<1> QED BY Zenon, <1>2, WorkerExists DEF Turn

(* The jobs are dealt out in the order in which they were posted, to the   *)
(* workers in turn, across stops and restarts, and whatever the size of    *)
(* the counter, which wraps around.                                        *)
THEOREM DealtInTurn == Spec => []RoundRobin
<1>1. DealInv => RoundRobin
  <2> SUFFICES ASSUME DealInv, NEW k \in 1 .. Len(sent), home[sent[k]] # Dispatcher
               PROVE  /\ home[sent[k]] = Turn(k)
                      /\ \A i \in 1 .. k : home[sent[i]] # Dispatcher
    BY DEF RoundRobin
  <2>1. Dealt \in Nat /\ k <= Dealt /\ home[sent[k]] = Turn(k) BY DEF DealInv
  <2>2. ASSUME NEW i \in 1 .. k PROVE home[sent[i]] # Dispatcher
    <3>1. i \in 1 .. Len(sent) /\ i <= Dealt /\ i \in Nat /\ i > 0 BY <2>1
    <3>2. home[sent[i]] = Turn(i) BY Zenon, <3>1 DEF DealInv
    <3>3. Turn(i) \in Workers BY Zenon, <3>1, TurnExists
    <3> QED BY <3>2, <3>3, LoopSets
  <2> QED BY <2>1, <2>2
<1> QED BY <1>1, Dispatched, PTL

(* The dispatcher and every worker implement EventLoop, as a Scheduler     *)
(* does, however start(), stop(), failed starts and posts interleave.      *)
THEOREM RuntimeOfEventLoops == Spec => EventLoops
<1>1. TypeOK /\ (PlaceInv /\ DealInv) /\ [Next]_vars => [\A l \in Loops : LoopStep(l)]_vars
  BY DispatchStep
<1>2. Init => \A l \in Loops : Loop(l)!LInit BY DispatchInit
<1> QED BY <1>1, <1>2, Dispatched, RuntimeTypes, PTL DEF Spec, EventLoops
=============================================================================
