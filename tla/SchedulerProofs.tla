-------------------------- MODULE SchedulerProofs --------------------------
(***************************************************************************)
(* Theorems about Scheduler, for every value of its constants: its types,  *)
(* the wake-up protocol, and that it implements EventLoop, losing and      *)
(* doubling no callable.                                                   *)
(***************************************************************************)
EXTENDS Scheduler, Lemmas, FiniteSetTheorems

-----------------------------------------------------------------------------
(* The queue operations of SubmissionQueue keep queues of SQEs. *)
LEMMA SqeMembers ==
  ASSUME NEW a \in Awaitable
  PROVE  /\ Op(a) \in Sqe(Awaitable) /\ LinkTimeout(a) \in Sqe(Awaitable)
         /\ Op(a) # EventfdRead /\ LinkTimeout(a) # EventfdRead
BY DEF Sqe, Op, LinkTimeout, EventfdRead

LEMMA CommitQueue ==
  ASSUME NEW q \in Seq(Sqe(Awaitable)), NEW e \in Sqe(Awaitable)
  PROVE  /\ Commit(q, e) \in Seq(Sqe(Awaitable))
         /\ Len(Commit(q, e)) = Len(q) + 1
         /\ Commit(q, e)[Len(q) + 1] = e
         /\ HasCapacity(q, 1) => \A i \in 1 .. Len(q) : Commit(q, e)[i] = q[i]
<1>1. \A i \in 1 .. Len(q) + 1 : Commit(q, e)[i] \in Sqe(Awaitable)
  BY EntriesAssumption DEF Commit
<1>2. Commit(q, e) \in Seq(Sqe(Awaitable)) /\ Len(Commit(q, e)) = Len(q) + 1
  BY <1>1 DEF Commit
<1>3. Commit(q, e)[Len(q) + 1] = e BY EntriesAssumption DEF Commit
<1>4. ASSUME HasCapacity(q, 1), NEW i \in 1 .. Len(q) PROVE Commit(q, e)[i] = q[i]
  <2>1. Len(q) + 1 - i \in 1 .. Entries - 1
    BY <1>4, EntriesAssumption DEF HasCapacity
  <2>2. (Len(q) + 1 - i) % Entries # 0 BY <2>1, EntriesAssumption
  <2> QED BY <2>2 DEF Commit
<1> QED BY <1>2, <1>3, <1>4

(* Staging where there is room appends: what was staged stays where it was. *)
LEMMA StageQueue ==
  ASSUME NEW q \in Seq(Sqe(Awaitable)), NEW a \in Awaitable, NEW n \in {1, 2},
         HasCapacity(q, n)
  PROVE  /\ Stage(q, a, n) \in Seq(Sqe(Awaitable))
         /\ Len(Stage(q, a, n)) = Len(q) + n
         /\ \A i \in 1 .. Len(q) : Stage(q, a, n)[i] = q[i]
<1> DEFINE p == Commit(q, Op(a))
<1>1. /\ p \in Seq(Sqe(Awaitable)) /\ Len(p) = Len(q) + 1
      /\ \A i \in 1 .. Len(q) : p[i] = q[i]
  <2>1. HasCapacity(q, 1) BY EntriesAssumption DEF HasCapacity
  <2> QED BY <2>1, SqeMembers, CommitQueue
<1> HIDE DEF p
<1>2. CASE n = 1 BY <1>1, <1>2 DEF Stage, p
<1>3. CASE n = 2
  <2> DEFINE r == Commit(p, LinkTimeout(a))
  <2>1. HasCapacity(p, 1) BY <1>1, <1>3, EntriesAssumption DEF HasCapacity
  <2>2. /\ r \in Seq(Sqe(Awaitable)) /\ Len(r) = Len(p) + 1
        /\ \A i \in 1 .. Len(p) : r[i] = p[i]
    BY Zenon, <1>1, <2>1, SqeMembers, CommitQueue
  <2>3. Stage(q, a, n) = r BY <1>3 DEF Stage, p
  <2> HIDE DEF r
  <2> QED BY <1>1, <1>3, <2>2, <2>3
<1> QED BY <1>2, <1>3

(* Arming writes an eventfd read within the first Entries positions, so    *)
(* that the next submission takes one, and appends one SQE.                *)
LEMMA ArmQueue ==
  ASSUME NEW q \in Seq(Sqe(Awaitable))
  PROVE  /\ Arm(q) \in Seq(Sqe(Awaitable))
         /\ Len(Arm(q)) = Len(q) + 1
         /\ \E i \in 1 .. Submittable(Arm(q)) : Arm(q)[i] = EventfdRead
<1>1. EventfdRead \in Sqe(Awaitable) BY DEF Sqe
<1>2. /\ Arm(q) \in Seq(Sqe(Awaitable)) /\ Len(Arm(q)) = Len(q) + 1
      /\ Arm(q)[Len(q) + 1] = EventfdRead
  BY <1>1, CommitQueue DEF Arm
<1>3. CASE Len(q) < Entries
  <2>1. Len(q) + 1 \in 1 .. Submittable(Arm(q))
    BY <1>2, <1>3, EntriesAssumption DEF Submittable
  <2> QED BY <1>2, <2>1
<1>4. CASE Len(q) >= Entries
  <2> DEFINE i == (Len(q) % Entries) + 1
  <2>1. i \in 1 .. Entries /\ (Len(q) + 1 - i) % Entries = 0
    BY EntriesAssumption
  <2>2. i \in 1 .. Submittable(Arm(q)) /\ i \in 1 .. Len(q) + 1
    BY <1>2, <1>4, <2>1, EntriesAssumption DEF Submittable
  <2> HIDE DEF i
  <2>3. Arm(q)[i] = EventfdRead BY <2>1, <2>2 DEF Arm, Commit
  <2> QED BY <1>2, <2>2, <2>3
<1> QED BY <1>3, <1>4, EntriesAssumption

(* Submitting takes a prefix. *)
LEMMA RemainingQueue ==
  ASSUME NEW q \in Seq(Sqe(Awaitable))
  PROVE  /\ Submittable(q) \in 0 .. Len(q)
         /\ Remaining(q) \in Seq(Sqe(Awaitable))
<1>1. Len(q) \in Nat /\ Submittable(q) \in 0 .. Len(q)
  BY EntriesAssumption DEF Submittable
<1>2. \A i \in Submittable(q) + 1 .. Len(q) : q[i] \in Sqe(Awaitable)
  BY <1>1
<1> QED BY <1>1, <1>2, SubSeqProperties DEF Remaining

-----------------------------------------------------------------------------
(* Type correctness. *)
LEMMA ToSubmitType == TypeOK => ToSubmit \in Seq(Sqe(Awaitable))
BY ArmQueue DEF TypeOK, ToSubmit

LEMMA StageAwaitType ==
  ASSUME TypeOK, NEW j \in Jobs, NEW g \in 1 .. MaxStarts, NEW k \in Nat \ {0},
         StageAwait(j, g, k), NEW m, SuspendsAt(j, m, k)
  PROVE  sq' \in Seq(Sqe(Awaitable))
<1>1. Awt(j, g) \in Awaitable BY DEF Awt, Awaitable
<1>2. CASE k <= AwaitCount(j)
  <2>1. Awaits[j][k] \in {1, 2} BY <1>2, ConstantsAssumption DEF AwaitCount
  <2>2. HasCapacity(sq, Awaits[j][k]) BY <1>2 DEF SuspendsAt
  <2> QED BY Zenon, <1>1, <1>2, <2>1, <2>2, StageQueue DEF StageAwait, TypeOK
<1>3. CASE ~(k <= AwaitCount(j)) BY <1>3 DEF StageAwait, TypeOK
<1> QED BY <1>2, <1>3

LEMMA SpawnResumeType ==
  ASSUME TypeOK, NEW j \in Jobs, NEW k, SpawnResume(j, k)
  PROVE  /\ k \in Nat \ {0} /\ sq' \in Seq(Sqe(Awaitable))
         /\ started[j] + 1 \in 1 .. MaxStarts
         /\ started' \in [Jobs -> 0 .. MaxStarts] /\ skipped' \subseteq Jobs
<1>1. started[j] + 1 \in 1 .. MaxStarts
  BY ConstantsAssumption DEF TypeOK, SpawnResume
<1>2. k \in Nat \ {0}
  <2>1. AwaitCount(j) \in Nat BY ConstantsAssumption DEF AwaitCount
  <2> QED BY <2>1 DEF SpawnResume, SuspendsAt
<1>3. sq' \in Seq(Sqe(Awaitable)) BY <1>1, <1>2, StageAwaitType DEF SpawnResume
<1> QED BY <1>1, <1>2, <1>3 DEF TypeOK, SpawnResume

LEMMA SpawnedType ==
  ASSUME TypeOK, NEW j \in Jobs, Spawned(j)
  PROVE  /\ sq' \in Seq(Sqe(Awaitable)) /\ started' \in [Jobs -> 0 .. MaxStarts]
         /\ at' \in [Jobs -> Nat] /\ tasks' \subseteq Jobs /\ skipped' \subseteq Jobs
         /\ orphaned' \subseteq Awaitable
BY Zenon, SpawnResumeType DEF Spawned, TypeOK

LEMMA SpawnThrowsLateType ==
  ASSUME TypeOK, NEW j \in Jobs, NEW k, SpawnThrowsLate(j, k)
  PROVE  /\ sq' \in Seq(Sqe(Awaitable)) /\ started' \in [Jobs -> 0 .. MaxStarts]
         /\ at' \in [Jobs -> Nat] /\ tasks' \subseteq Jobs /\ skipped' \subseteq Jobs
         /\ orphaned' \subseteq Awaitable
<1>1. Awt(j, started[j] + 1) \in Awaitable
  BY SpawnResumeType DEF SpawnThrowsLate, Awt, Awaitable
<1> QED BY Zenon, <1>1, SpawnResumeType DEF SpawnThrowsLate, TypeOK

LEMMA NotifyType == TypeOK /\ Notify => efd' \in 1 .. EfdMax
BY ConstantsAssumption DEF TypeOK, Notify, EfdFull

LEMMA CompleteType ==
  ASSUME TypeOK, NEW c \in Cqe, Complete(c)
  PROVE  cq' \in Seq(Cqe) /\ batch' \in 0 .. Len(cq')
<1>1. cq' \in Seq(Cqe) /\ Len(cq') = Len(cq) + 1
  BY AppendProperties DEF TypeOK, Complete
<1> QED BY <1>1 DEF TypeOK, Complete, driverVars, loopVars

LEMMA NextCqeType ==
  ASSUME TypeOK, NextCqe
  PROVE  /\ cq # <<>> /\ Head(cq) \in Cqe
         /\ cq' \in Seq(Cqe) /\ batch' \in 0 .. Len(cq')
<1>1. cq # <<>> BY DEF TypeOK, NextCqe
<1>2. Head(cq) \in Cqe /\ cq' \in Seq(Cqe) /\ Len(cq') = Len(cq) - 1
  BY <1>1, ElementsTail DEF TypeOK, NextCqe
<1> QED BY <1>1, <1>2 DEF TypeOK, NextCqe

LEMMA SeeCompletionsType ==
  TypeOK /\ SeeCompletions => batch' \in 0 .. Len(cq)
BY EntriesAssumption DEF TypeOK, SeeCompletions

LEMMA DrainEnterType ==
  ASSUME TypeOK, DrainEnter
  PROVE  /\ sq' \in Seq(Sqe(Awaitable)) /\ overwritten' \subseteq Awaitable
         /\ inflight' \subseteq Awaitable /\ timers' \subseteq Awaitable
         /\ reads' \in Nat /\ cq' \in Seq(Cqe) /\ Len(cq') \in Nat /\ Len(cq') >= Len(cq)
         /\ Elements(cq) \subseteq Elements(cq')
<1> DEFINE q == ToSubmit
           taken == 1 .. Submittable(q)
           linked(i) == i > 1 /\ q[i-1] = Op(q[i].awt)
           Of(kind) == {i \in taken : q[i].kind = kind}
           refused == {i \in Of("timeout") : ~linked(i)}
           nulls == [i \in 1 .. Cardinality(refused) |-> NullCqe]
<1>1. /\ sq' = Remaining(q)
      /\ inflight' = inflight \cup {q[i].awt : i \in Of("op")}
      /\ timers' = timers \cup {q[i].awt : i \in Of("timeout") \ refused}
      /\ reads' = reads + Cardinality(Of("eventfd"))
      /\ cq' = cq \o nulls
      /\ ArmIfNeeded
  BY DEF DrainEnter
<1>2. q \in Seq(Sqe(Awaitable)) /\ Submittable(q) \in 0 .. Len(q) /\ Len(q) \in Nat
  BY ToSubmitType, RemainingQueue
<1>3. \A i \in taken : q[i].kind \in {"op", "timeout"} => q[i].awt \in Awaitable
  <2> SUFFICES ASSUME NEW i \in taken, q[i].kind \in {"op", "timeout"}
               PROVE  q[i].awt \in Awaitable
    OBVIOUS
  <2> HIDE DEF q
  <2>1. q[i] \in Sqe(Awaitable) BY <1>2
  <2> QED BY <2>1 DEF Sqe, Op, LinkTimeout, EventfdRead
<1>4. IsFiniteSet(taken)
  <2> HIDE DEF q
  <2> QED BY <1>2, FS_Interval
<1>5. Cardinality(Of("eventfd")) \in Nat /\ Cardinality(refused) \in Nat
  <2>1. Of("eventfd") \subseteq taken /\ refused \subseteq taken OBVIOUS
  <2> HIDE DEF taken, Of, refused
  <2> QED BY Zenon, <1>4, <2>1, FS_Subset, FS_CardinalityType
<1>6. nulls \in Seq(Cqe)
  <2> HIDE DEF refused
  <2>1. NullCqe \in Cqe BY DEF Cqe
  <2> QED BY <1>5, <2>1
<1>7. /\ cq' \in Seq(Cqe) /\ Len(cq') = Len(cq) + Len(nulls)
      /\ Elements(cq) \subseteq Elements(cq')
  <2> HIDE DEF nulls
  <2> QED BY SMTT(30), <1>1, <1>6, ConcatProperties, ElementsConcat DEF TypeOK
<1>8. Len(cq') \in Nat /\ Len(cq') >= Len(cq)
  <2> HIDE DEF nulls
  <2> QED BY SMTT(30), <1>6, <1>7 DEF TypeOK
<1>9. sq' \in Seq(Sqe(Awaitable)) BY <1>1, <1>2, RemainingQueue
<1>10. inflight' \subseteq Awaitable /\ timers' \subseteq Awaitable
  <2>1. \A i \in Of("op") : i \in taken /\ q[i].kind = "op" OBVIOUS
  <2>2. \A i \in Of("timeout") \ refused : i \in taken /\ q[i].kind = "timeout" OBVIOUS
  <2> HIDE DEF taken, Of, refused, q
  <2> QED BY ZenonT(30), <1>1, <1>3, <2>1, <2>2 DEF TypeOK
<1>11. reads' \in Nat
  <2> HIDE DEF Of
  <2> QED BY SMTT(30), <1>1, <1>5 DEF TypeOK
<1>12. overwritten' \subseteq Awaitable BY Zenon, <1>1 DEF ArmIfNeeded, TypeOK
<1> QED BY ZenonT(30), <1>7, <1>8, <1>9, <1>10, <1>11, <1>12

LEMMA TypeOKStep ==
  ASSUME TypeOK, [Next]_vars
  PROVE  TypeOK'
<1> USE DEF memberVars, flags, signalVars, callVars, loopVars, driverVars, coVars,
            historyVars, jobVars, kernelVars, ringVars
<1>1. ASSUME NEW j \in Jobs, PostPush(j) PROVE TypeOK'
  BY ZenonT(30), <1>1, AppendProperties DEF PostPush, TypeOK
<1>2. ASSUME NEW j \in Jobs, PostWrite(j) PROVE TypeOK'
  <2>1. efd' \in 0 .. EfdMax BY <1>2, NotifyType DEF PostWrite
  <2>2. sent' \in [Jobs -> {"no", "pushed", "ok", "failed"}] BY <1>2 DEF PostWrite, TypeOK
  <2> QED BY SMTT(30), <1>2, <2>1, <2>2 DEF PostWrite, TypeOK
<1>3. ASSUME NEW j \in Jobs, DirectSpawn(j) PROVE TypeOK'
  <2>1. CASE Spawned(j) /\ UNCHANGED dropped
    BY Zenon, <1>3, <2>1, SpawnedType DEF DirectSpawn, TypeOK
  <2>2. ASSUME NEW k, SpawnThrowsLate(j, k), dropped' = dropped \cup {j} PROVE TypeOK'
    BY ZenonT(30), <1>3, <2>2, SpawnThrowsLateType DEF DirectSpawn, TypeOK
  <2>3. CASE dropped' = dropped \cup {j} /\ UNCHANGED <<coVars, orphaned, sq>>
    BY ZenonT(30), <1>3, <2>3 DEF DirectSpawn, TypeOK
  <2> QED BY Zenon, <1>3, <2>1, <2>2, <2>3 DEF DirectSpawn
<1>4. CASE Start BY SMTT(30), <1>4, ConstantsAssumption DEF Start, TypeOK
<1>5. CASE RequestStop BY ZenonT(30), <1>5 DEF RequestStop, TypeOK
<1>6. CASE StopCallback BY SMTT(30), <1>6, NotifyType DEF StopCallback, TypeOK
<1>7. CASE Shutdown BY <1>7 DEF Shutdown, TypeOK
<1>8. CASE Destroy BY Zenon, <1>8 DEF Destroy, TypeOK
<1>9. CASE Register
  <2>1. efd' \in 0 .. EfdMax BY SMTT(30), <1>9, NotifyType DEF Register, TypeOK
  <2> QED BY ZenonT(30), <1>9, <2>1 DEF Register, TypeOK
<1>10. CASE CheckRun BY Zenon, <1>10 DEF CheckRun, TypeOK
<1>11. CASE CheckShutdown BY Zenon, <1>11 DEF CheckShutdown, TypeOK
<1>12. CASE DrainEnter
  <2>1. batch' = batch BY Zenon, <1>12 DEF DrainEnter
  <2>2. Len(cq') \in Nat /\ Len(cq') >= Len(cq) BY Zenon, <1>12, DrainEnterType
  <2>3. batch' \in 0 .. Len(cq') BY SMTT(30), <2>1, <2>2 DEF TypeOK
  <2> QED BY ZenonT(30), <1>12, <2>3, DrainEnterType DEF DrainEnter, ArmIfNeeded, TypeOK
<1>13. CASE DrainEnterFails
  <2>1. batch' \in 0 .. Len(cq') BY <1>13, SeeCompletionsType DEF DrainEnterFails
  <2>2. sq' \in Seq(Sqe(Awaitable)) BY Zenon, <1>13, ToSubmitType DEF DrainEnterFails
  <2> QED BY ZenonT(30), <1>13, <2>1, <2>2 DEF DrainEnterFails, ArmIfNeeded, TypeOK
<1>14. CASE WaitReturns BY ZenonT(30), <1>14, SeeCompletionsType DEF WaitReturns, TypeOK
<1>15. CASE WaitInterrupted BY Zenon, <1>15, SeeCompletionsType DEF WaitInterrupted, TypeOK
<1>16. CASE Reap BY Zenon, <1>16 DEF Reap, TypeOK
<1>17. CASE CqeEventfd
  BY ZenonT(30), <1>17, NextCqeType, EmptySeq DEF CqeEventfd, NextCqe, TypeOK
<1>18. CASE CqeNull BY Zenon, <1>18, NextCqeType DEF CqeNull, NextCqe, TypeOK
<1>19. CASE CqeOp
  <2> DEFINE a == Head(cq).awt
             j == a.job
  <2>1. a \in Awaitable /\ j \in Jobs /\ started[j] \in 1 .. MaxStarts
    <3>1. Head(cq) \in Cqe /\ Head(cq).kind = "op" BY Zenon, <1>19, NextCqeType DEF CqeOp
    <3>2. a \in Awaitable BY <3>1 DEF Cqe, Op, EventfdRead, NullCqe
    <3>3. j \in Jobs /\ a.gen \in 1 .. MaxStarts BY SMTT(30), <3>2 DEF Awaitable
    <3>4. a = Awt(j, started[j]) BY ZenonT(30), <1>19 DEF CqeOp, Awaiting, Current
    <3>5. a.gen = started[j] BY SMTT(30), <3>4 DEF Awt
    <3> QED BY Zenon, <3>2, <3>3, <3>5
  <2>2. PICK k \in 1 .. AwaitCount(j) + 1 :
          /\ SuspendsAt(j, at[j] + 1, k)
          /\ StageAwait(j, started[j], k)
          /\ at' = [at EXCEPT ![j] = k]
          /\ skipped' = IF k > at[j] + 1 THEN skipped \cup {j} ELSE skipped
    BY Zenon, <1>19 DEF CqeOp
  <2> HIDE DEF a, j
  <2>3. k \in Nat \ {0}
    BY <2>1, <2>2, ConstantsAssumption DEF AwaitCount
  <2>4. sq' \in Seq(Sqe(Awaitable)) BY Zenon, <2>1, <2>2, <2>3, StageAwaitType
  <2>5. at' \in [Jobs -> Nat] /\ skipped' \subseteq Jobs BY ZenonT(30), <2>1, <2>2, <2>3 DEF TypeOK
  <2> QED BY Zenon, <1>19, <2>4, <2>5, NextCqeType DEF CqeOp, NextCqe, TypeOK
<1>20. CASE CqeDangling BY ZenonT(30), <1>20, NextCqeType DEF CqeDangling, NextCqe, TypeOK
<1>21. CASE InboxPoke BY SMTT(30), <1>21, NotifyType DEF InboxPoke, TypeOK
<1>22. CASE InboxDone BY Zenon, <1>22 DEF InboxDone, TypeOK
<1>23. ASSUME NEW j \in Jobs, NextTask(j) PROVE local' \in Seq(Jobs)
  BY Zenon, <1>23, ElementsTail DEF NextTask, TypeOK
<1>24. ASSUME NEW j \in Jobs, InboxSpawned(j) PROVE TypeOK'
  BY ZenonT(30), <1>23, <1>24, SpawnedType DEF InboxSpawned, TypeOK
<1>25. ASSUME NEW j \in Jobs, InboxRequeue(j) PROVE TypeOK'
  <2>1. local' \in Seq(Jobs) BY Zenon, <1>23, <1>25 DEF InboxRequeue
  <2>2. inbox' \in Seq(Jobs) BY ZenonT(30), <1>25, AppendProperties DEF InboxRequeue, TypeOK
  <2>3. CASE UNCHANGED <<coVars, orphaned, sq>>
    BY ZenonT(30), <1>25, <2>1, <2>2, <2>3 DEF InboxRequeue, TypeOK
  <2>4. ASSUME NEW k, SpawnThrowsLate(j, k) PROVE TypeOK'
    BY ZenonT(30), <1>25, <2>1, <2>2, <2>4, SpawnThrowsLateType DEF InboxRequeue, TypeOK
  <2> QED BY <1>25, <2>3, <2>4 DEF InboxRequeue
<1>26. ASSUME NEW j \in Jobs, InboxDropped(j) PROVE TypeOK'
  BY SMTT(30), <1>23, <1>26, SpawnThrowsLateType DEF InboxDropped, TypeOK
<1>27. EventfdRead \in Cqe /\ NullCqe \in Cqe /\ \A a \in Awaitable : Op(a) \in Cqe
  BY DEF Cqe
<1>28. CASE EfdReadCompletes
  <2>1. Complete(EventfdRead) BY <1>28 DEF EfdReadCompletes
  <2>2. cq' \in Seq(Cqe) /\ batch' \in 0 .. Len(cq') BY SMTT(30), <1>27, <2>1, CompleteType
  <2> QED BY SMTT(30), <1>28, <2>2, ConstantsAssumption DEF EfdReadCompletes, Complete, TypeOK
<1>29. CASE EfdReadFails
  <2>1. Complete(EventfdRead) BY ZenonT(30), <1>29 DEF EfdReadFails
  <2>2. cq' \in Seq(Cqe) /\ batch' \in 0 .. Len(cq') BY SMTT(30), <1>27, <2>1, CompleteType
  <2> QED BY SMTT(30), <1>29, <2>2 DEF EfdReadFails, Complete, TypeOK
<1>30. ASSUME NEW a \in Awaitable, OpCompletes(a) PROVE TypeOK'
  <2>1. Complete(Op(a)) BY <1>30 DEF OpCompletes
  <2>2. cq' \in Seq(Cqe) /\ batch' \in 0 .. Len(cq') BY Zenon, <1>27, <2>1, CompleteType
  <2> QED BY Zenon, <1>30, <2>2 DEF OpCompletes, Complete, TypeOK
<1>31. ASSUME NEW a \in Awaitable, TimerCompletes(a) PROVE TypeOK'
  <2>1. Complete(NullCqe) BY <1>31 DEF TimerCompletes
  <2>2. cq' \in Seq(Cqe) /\ batch' \in 0 .. Len(cq') BY ZenonT(30), <1>27, <2>1, CompleteType
  <2> QED BY Zenon, <1>31, <2>2 DEF TimerCompletes, Complete, TypeOK
<1>32. CASE UNCHANGED vars BY <1>32 DEF vars, TypeOK
<1> QED
  BY ZenonT(30), <1>1, <1>2, <1>3, <1>4, <1>5, <1>6, <1>7, <1>8, <1>9, <1>10, <1>11, <1>12, <1>13,
     <1>14, <1>15, <1>16, <1>17, <1>18, <1>19, <1>20, <1>21, <1>22, <1>24, <1>25, <1>26,
     <1>28, <1>29, <1>30, <1>31, <1>32
  DEF Next, Clients, Owner, Loop, Handler, Kernel, Ended

LEMMA InitType == Init => TypeOK
<1> SUFFICES ASSUME Init PROVE TypeOK OBVIOUS
<1>1. inbox \in Seq(Jobs) /\ local \in Seq(Jobs) /\ cq \in Seq(Cqe) /\ sq \in Seq(Sqe(Awaitable))
  BY EmptySeq DEF Init
<1>2. batch \in 0 .. Len(cq) /\ runs \in 0 .. MaxRuns /\ efd \in 0 .. EfdMax
  BY ConstantsAssumption DEF Init
<1>3. started \in [Jobs -> 0 .. MaxStarts] /\ at \in [Jobs -> Nat]
  BY ConstantsAssumption DEF Init
<1> QED BY Zenon, <1>1, <1>2, <1>3 DEF Init, TypeOK

(* Every reachable state of the scheduler is well typed, and drain() never *)
(* counts a completion that is not in the queue.                           *)
THEOREM TypeCorrect == Spec => []TypeOK
<1>1. TypeOK /\ [Next]_vars => TypeOK' BY TypeOKStep
<1> QED BY <1>1, InitType, PTL DEF Spec

-----------------------------------------------------------------------------
(* The wake-up protocol. *)

(* Staging does not disturb an eventfd read the next submission will take. *)
LEMMA StagingKeepsRead ==
  ASSUME TypeOK, NEW j \in Jobs, NEW g \in 1 .. MaxStarts, NEW k \in Nat \ {0},
         StageAwait(j, g, k), NEW m, SuspendsAt(j, m, k), ReadStaged(sq)
  PROVE  ReadStaged(sq')
<1>1. Awt(j, g) \in Awaitable BY DEF Awt, Awaitable
<1>2. CASE k <= AwaitCount(j)
  <2>1. Awaits[j][k] \in {1, 2} BY SMTT(30), <1>2, ConstantsAssumption DEF AwaitCount
  <2> DEFINE n == Awaits[j][k]
             a == Awt(j, g)
  <2> HIDE DEF n, a
  <2>2. /\ Len(sq') \in Nat /\ Len(sq') >= Len(sq)
        /\ \A i \in 1 .. Len(sq) : sq'[i] = sq[i]
    <3>1. sq' = Stage(sq, a, n) BY Zenon, <1>2 DEF StageAwait, n, a
    <3>2. n \in {1, 2} /\ a \in Awaitable /\ HasCapacity(sq, n)
      BY <1>1, <1>2, <2>1 DEF n, a, SuspendsAt
    <3>3. sq \in Seq(Sqe(Awaitable)) BY SMTT(30) DEF TypeOK
    <3>4. Len(sq') = Len(sq) + n /\ \A i \in 1 .. Len(sq) : sq'[i] = sq[i]
      BY Zenon, <3>1, <3>2, <3>3, StageQueue
    <3> QED BY SMTT(30), <3>2, <3>3, <3>4
  <2>3. PICK i \in 1 .. Submittable(sq) : sq[i] = EventfdRead BY SMTT(30) DEF ReadStaged
  <2>4. i \in 1 .. Len(sq) /\ i \in 1 .. Submittable(sq')
    BY SMTT(30), <2>2, EntriesAssumption DEF Submittable, TypeOK
  <2> QED BY <2>2, <2>3, <2>4 DEF ReadStaged
<1>3. CASE ~(k <= AwaitCount(j)) BY <1>3 DEF StageAwait
<1> QED BY <1>2, <1>3

(* Whichever way spawn() ends once it has resumed the frame. *)
LEMMA SpawnKeepsRead ==
  ASSUME TypeOK, NEW j \in Jobs, NEW k, SpawnResume(j, k), ReadStaged(sq)
  PROVE  ReadStaged(sq')
<1>1. k \in Nat \ {0} /\ started[j] + 1 \in 1 .. MaxStarts BY SpawnResumeType
<1> QED BY <1>1, StagingKeepsRead DEF SpawnResume

(* Before io_uring_enter drain() sees to it that a read is under way ... *)
LEMMA ToSubmitHasRead ==
  ASSUME TypeOK, ReadArmed
  PROVE  reads > 0 \/ EventfdRead \in Elements(cq) \/ ReadStaged(ToSubmit)
<1>1. CASE eventfd_armed BY <1>1 DEF ReadArmed, ToSubmit
<1>2. CASE ~eventfd_armed BY <1>2, ArmQueue DEF ToSubmit, ReadStaged, TypeOK
<1> QED BY <1>1, <1>2

(* ... and a successful io_uring_enter leaves it in flight or completed. *)
LEMMA SubmitStartsRead ==
  ASSUME TypeOK, ReadArmed, DrainEnter
  PROVE  reads' > 0 \/ EventfdRead \in Elements(cq')
<1> DEFINE q == ToSubmit
           efds == {i \in 1 .. Submittable(q) : q[i].kind = "eventfd"}
<1>1. reads' = reads + Cardinality(efds) BY DEF DrainEnter
<1>2. Elements(cq) \subseteq Elements(cq') BY DrainEnterType
<1>3. Submittable(q) \in Nat BY ToSubmitType, RemainingQueue
<1>4. Cardinality(efds) \in Nat /\ (efds # {} => Cardinality(efds) > 0)
  <2>1. efds \subseteq 1 .. Submittable(q) OBVIOUS
  <2>2. IsFiniteSet(1 .. Submittable(q))
    <3> HIDE DEF q
    <3> QED BY <1>3, FS_Interval
  <2> HIDE DEF efds
  <2>3. IsFiniteSet(efds) BY Zenon, <2>1, <2>2, FS_Subset
  <2>4. Cardinality(efds) \in Nat /\ (Cardinality(efds) = 0 <=> efds = {})
    BY <2>3, FS_CardinalityType, FS_EmptySet
  <2> QED BY <2>4
<1>5. CASE ReadStaged(q)
  <2>1. PICK i \in 1 .. Submittable(q) : q[i] = EventfdRead BY <1>5 DEF ReadStaged
  <2>2. efds # {} BY <2>1 DEF EventfdRead
  <2> HIDE DEF efds
  <2> QED BY <1>1, <1>4, <2>2 DEF TypeOK
<1>6. CASE reads > 0
  <2> HIDE DEF efds
  <2> QED BY SMTT(30), <1>1, <1>4, <1>6 DEF TypeOK
<1>7. CASE EventfdRead \in Elements(cq) BY ZenonT(30), <1>2, <1>7
<1> QED BY ZenonT(30), <1>5, <1>6, <1>7, ToSubmitHasRead

LEMMA CompleteElements ==
  ASSUME TypeOK, NEW c \in Cqe, Complete(c)
  PROVE  Elements(cq') = Elements(cq) \cup {c}
BY SMTT(30), ElementsAppend DEF TypeOK, Complete

LEMMA NextCqeElements ==
  ASSUME TypeOK, NextCqe
  PROVE  Elements(cq) = {Head(cq)} \cup Elements(cq')
BY Zenon, NextCqeType, ElementsTail DEF TypeOK, NextCqe

LEMMA WakeStep ==
  ASSUME TypeOK, WakeInv, [Next]_vars
  PROVE  WakeInv'
<1> USE DEF memberVars, flags, signalVars, callVars, loopVars, driverVars, coVars,
            historyVars, jobVars, kernelVars, ringVars, WakeInv
<1>1. ASSUME NEW j \in Jobs, PostPush(j) PROVE WakeInv'
  <2>1. sent'[j] = "pushed" BY Zenon, <1>1 DEF PostPush, TypeOK
  <2> QED BY Zenon, <1>1, <2>1 DEF PostPush, InboxNotified, StopNotified, ReadArmed, Notified
<1>2. ASSUME NEW j \in Jobs, PostWrite(j) PROVE WakeInv'
  <2>1. efd' > 0 BY SMTT(30), <1>2, NotifyType, ConstantsAssumption DEF PostWrite
  <2> QED BY <1>2, <2>1 DEF PostWrite, InboxNotified, StopNotified, ReadArmed, Notified
<1>3. ASSUME NEW j \in Jobs, DirectSpawn(j) PROVE WakeInv'
  <2>1. ReadStaged(sq) => ReadStaged(sq')
    BY Zenon, <1>3, SpawnKeepsRead DEF DirectSpawn, Spawned, SpawnThrowsLate
  <2>2. (\E i \in Jobs : sent[i] = "pushed") => \E i \in Jobs : sent'[i] = "pushed"
    BY Zenon, <1>3 DEF DirectSpawn, TypeOK
  <2> QED BY Zenon, <1>3, <2>1, <2>2
      DEF DirectSpawn, InboxNotified, StopNotified, ReadArmed, Notified
<1>4. CASE Start
  BY Zenon, <1>4 DEF Start, InboxNotified, StopNotified, ReadArmed, Notified
<1>5. CASE RequestStop
  BY Zenon, <1>5 DEF RequestStop, InboxNotified, StopNotified, ReadArmed, Notified
<1>6. CASE StopCallback
  <2>1. efd' > 0 BY SMTT(30), <1>6, NotifyType, ConstantsAssumption DEF StopCallback
  <2> QED BY Zenon, <1>6, <2>1 DEF StopCallback, InboxNotified, StopNotified, ReadArmed, Notified
<1>7. CASE Shutdown
  BY Zenon, <1>7 DEF Shutdown, InboxNotified, StopNotified, ReadArmed, Notified
<1>8. CASE Destroy
  BY Zenon, <1>8 DEF Destroy, InboxNotified, StopNotified, ReadArmed, Notified
<1>9. CASE Register
  <2>1. efd > 0 => efd' > 0
    BY SMTT(30), <1>9, NotifyType, ConstantsAssumption DEF Register
  <2> QED BY Zenon, <1>9, <2>1 DEF Register, InboxNotified, StopNotified, ReadArmed, Notified
<1>10. CASE CheckRun
  BY Zenon, <1>10 DEF CheckRun, InboxNotified, StopNotified, ReadArmed, Notified
<1>11. CASE CheckShutdown
  BY <1>11 DEF CheckShutdown, InboxNotified, StopNotified, ReadArmed, Notified
<1>12. CASE DrainEnter
  <2>1. /\ pc = "drain" /\ pc' = "wait"
        /\ UNCHANGED <<inbox, stop, sent, efd, mode>>
    BY Zenon, <1>12 DEF DrainEnter
  <2>2. reads' > 0 \/ EventfdRead \in Elements(cq') BY <1>12, SubmitStartsRead
  <2>3. Notified => Notified' BY Zenon, <1>12, <2>1, DrainEnterType DEF Notified
  <2>4. InboxNotified' BY <2>1, <2>3 DEF InboxNotified
  <2>5. StopNotified' BY Zenon, <2>1, <2>3 DEF StopNotified
  <2>6. ReadArmed' BY Zenon, <2>2 DEF ReadArmed
  <2> QED BY ZenonT(30), <2>4, <2>5, <2>6
<1>13. CASE DrainEnterFails
  <2>1. reads > 0 \/ EventfdRead \in Elements(cq) \/ ReadStaged(sq')
    BY Zenon, <1>13, ToSubmitHasRead DEF DrainEnterFails
  <2> QED BY Zenon, <1>13, <2>1
      DEF DrainEnterFails, InboxNotified, StopNotified, ReadArmed, Notified
<1>14. CASE WaitReturns
  BY Zenon, <1>14 DEF WaitReturns, InboxNotified, StopNotified, ReadArmed, Notified
<1>15. CASE WaitInterrupted
  BY Zenon, <1>15 DEF WaitInterrupted, InboxNotified, StopNotified, ReadArmed, Notified
<1>16. CASE Reap
  BY Zenon, <1>16 DEF Reap, InboxNotified, StopNotified, ReadArmed, Notified
<1>17. CASE CqeEventfd
  BY Zenon, <1>17 DEF CqeEventfd, NextCqe, InboxNotified, StopNotified, ReadArmed, Notified
<1>18. CASE CqeNull
  <2>1. NextCqe /\ Head(cq) # EventfdRead BY <1>18 DEF CqeNull, EventfdRead, NullCqe
  <2>2. EventfdRead \in Elements(cq) => EventfdRead \in Elements(cq')
    BY Zenon, <2>1, NextCqeElements
  <2> QED BY Zenon, <1>18, <2>2
      DEF CqeNull, NextCqe, InboxNotified, StopNotified, ReadArmed, Notified
<1>19. CASE CqeOp
  <2> DEFINE a == Head(cq).awt
             j == a.job
  <2>1. NextCqe /\ Head(cq).kind = "op" /\ Awaiting(a) BY ZenonT(30), <1>19 DEF CqeOp
  <2>2. Head(cq) \in Cqe /\ Head(cq) # EventfdRead
    <3>1. Head(cq) \in Cqe BY <2>1, NextCqeType
    <3>2. EventfdRead.kind = "eventfd" BY DEF EventfdRead
    <3> QED BY Zenon, <2>1, <3>1, <3>2
  <2>3. EventfdRead \in Elements(cq) => EventfdRead \in Elements(cq')
    BY ZenonT(30), <2>1, <2>2, NextCqeElements
  <2>4. a \in Awaitable BY <2>1, <2>2 DEF Cqe, Op, EventfdRead, NullCqe
  <2>5. j \in Jobs /\ a.gen \in 1 .. MaxStarts BY Zenon, <2>4 DEF Awaitable
  <2>6. started[j] \in 1 .. MaxStarts
    <3>1. a = Awt(j, started[j]) BY SMTT(30), <2>1 DEF Awaiting, Current
    <3> QED BY SMTT(30), <2>5, <3>1 DEF Awt
  <2>7. PICK k \in 1 .. AwaitCount(j) + 1 :
          SuspendsAt(j, at[j] + 1, k) /\ StageAwait(j, started[j], k)
    BY ZenonT(30), <1>19 DEF CqeOp
  <2> HIDE DEF a, j
  <2>8. k \in Nat \ {0} BY SMTT(30), <2>5, <2>7, ConstantsAssumption DEF AwaitCount
  <2>9. ReadStaged(sq) => ReadStaged(sq') BY Zenon, <2>5, <2>6, <2>7, <2>8, StagingKeepsRead
  <2>10. UNCHANGED <<memberVars, signalVars, pc, callVars, reads>>
    BY ZenonT(30), <1>19 DEF CqeOp, NextCqe
  <2> QED BY SMTT(30), <2>3, <2>9, <2>10 DEF InboxNotified, StopNotified, ReadArmed, Notified
<1>20. CASE CqeDangling
  <2>1. NextCqe /\ Head(cq) # EventfdRead BY SMTT(30), <1>20 DEF CqeDangling, EventfdRead
  <2>2. EventfdRead \in Elements(cq) => EventfdRead \in Elements(cq')
    BY SMTT(30), <2>1, NextCqeElements
  <2> QED BY ZenonT(30), <1>20, <2>2
      DEF CqeDangling, NextCqe, InboxNotified, StopNotified, ReadArmed, Notified
<1>21. CASE InboxPoke
  <2>1. efd' > 0 BY SMTT(30), <1>21, NotifyType, ConstantsAssumption DEF InboxPoke
  <2> QED BY Zenon, <1>21, <2>1 DEF InboxPoke, InboxNotified, StopNotified, ReadArmed, Notified
<1>22. CASE InboxDone
  BY ZenonT(30), <1>22 DEF InboxDone, InboxNotified, StopNotified, ReadArmed, Notified
<1>23. ASSUME NEW j \in Jobs, InboxSpawned(j) PROVE WakeInv'
  <2>1. ReadStaged(sq) => ReadStaged(sq') BY Zenon, <1>23, SpawnKeepsRead DEF InboxSpawned, Spawned
  <2> QED BY Zenon, <1>23, <2>1
      DEF InboxSpawned, NextTask, InboxNotified, StopNotified, ReadArmed, Notified
<1>24. ASSUME NEW j \in Jobs, InboxRequeue(j) PROVE WakeInv'
  <2>1. ReadStaged(sq) => ReadStaged(sq')
    BY Zenon, <1>24, SpawnKeepsRead DEF InboxRequeue, SpawnThrowsLate
  <2> QED BY Zenon, <1>24, <2>1
      DEF InboxRequeue, NextTask, InboxNotified, StopNotified, ReadArmed, Notified
<1>25. ASSUME NEW j \in Jobs, InboxDropped(j) PROVE WakeInv'
  <2>1. ReadStaged(sq) => ReadStaged(sq')
    BY <1>25, SpawnKeepsRead DEF InboxDropped, SpawnThrowsLate
  <2> QED BY ZenonT(30), <1>25, <2>1
      DEF InboxDropped, NextTask, InboxNotified, StopNotified, ReadArmed, Notified
<1>26. ASSUME NEW c \in Cqe, Complete(c)
       PROVE  Elements(cq) \subseteq Elements(cq') /\ c \in Elements(cq')
  BY Zenon, <1>26, CompleteElements
<1>27. EventfdRead \in Cqe /\ NullCqe \in Cqe /\ \A a \in Awaitable : Op(a) \in Cqe
  BY Zenon DEF Cqe
<1>28. CASE EfdReadCompletes
  BY ZenonT(30), <1>26, <1>27, <1>28
  DEF EfdReadCompletes, Complete, InboxNotified, StopNotified, ReadArmed, Notified
<1>29. CASE EfdReadFails
  BY Zenon, <1>26, <1>27, <1>29
  DEF EfdReadFails, Complete, InboxNotified, StopNotified, ReadArmed, Notified
<1>30. ASSUME NEW a \in Awaitable, OpCompletes(a) PROVE WakeInv'
  BY Zenon, <1>26, <1>27, <1>30
  DEF OpCompletes, Complete, InboxNotified, StopNotified, ReadArmed, Notified
<1>31. ASSUME NEW a \in Awaitable, TimerCompletes(a) PROVE WakeInv'
  BY Zenon, <1>26, <1>27, <1>31
  DEF TimerCompletes, Complete, InboxNotified, StopNotified, ReadArmed, Notified
<1>32. CASE UNCHANGED vars
  BY Zenon, <1>32 DEF vars, InboxNotified, StopNotified, ReadArmed, Notified
<1> QED
  BY ZenonT(30), <1>1, <1>2, <1>3, <1>4, <1>5, <1>6, <1>7, <1>8, <1>9, <1>10, <1>11, <1>12, <1>13,
     <1>14, <1>15, <1>16, <1>17, <1>18, <1>19, <1>20, <1>21, <1>22, <1>23, <1>24, <1>25,
     <1>28, <1>29, <1>30, <1>31, <1>32
  DEF Next, Clients, Owner, Loop, Handler, Kernel, Ended

(* The wake-up invariant holds in every reachable state. *)
THEOREM WakeInvariant == Spec => []WakeInv
<1>1. Init => WakeInv
  BY DEF Init, WakeInv, InboxNotified, StopNotified, ReadArmed
<1>2. TypeOK /\ WakeInv /\ [Next]_vars => WakeInv' BY WakeStep
<1> QED BY <1>1, <1>2, TypeCorrect, PTL DEF Spec

(* No lost wake-up, for any ring size, any number of jobs and posters and  *)
(* any pattern of failures: a runner asleep in io_uring_enter with a       *)
(* callable queued or a stop requested is about to be woken.               *)
THEOREM WakeupNeverLost == Spec => []NoLostWakeup
<1>1. TypeOK /\ WakeInv => NoLostWakeup
  <2> SUFFICES ASSUME TypeOK, WakeInv, Asleep, inbox # <<>> \/ (mode = "run" /\ stop # "no"),
                      \A j \in Jobs : sent[j] # "pushed", stop # "calling"
               PROVE  efd > 0 /\ reads > 0
    BY DEF NoLostWakeup
  <2>1. pc = "wait" /\ Elements(cq) = {} BY DEF Asleep, Elements
  <2>2. reads > 0 BY Zenon, <2>1 DEF WakeInv, ReadArmed
  <2>3. CASE inbox # <<>> BY Zenon, <2>1, <2>2, <2>3 DEF WakeInv, InboxNotified, Notified
  <2>4. CASE mode = "run" /\ stop # "no"
    <3>1. stop = "done" BY Zenon, <2>1, <2>4 DEF TypeOK, WakeInv, StopNotified
    <3> QED BY ZenonT(30), <2>1, <2>2, <2>4, <3>1 DEF WakeInv, StopNotified, Notified
  <2> QED BY Zenon, <2>2, <2>3, <2>4
<1> QED BY <1>1, TypeCorrect, WakeInvariant, PTL

-----------------------------------------------------------------------------
(* The callables. *)
Handed == {j \in Jobs : sent[j] # "no"}

(* Outside drain_inbox() its queue is empty: the swap loses nothing. *)
LocalInv == pc \notin {"inbox", "poke"} => local = <<>>

LoopInv == OneHome /\ LocalInv

-----------------------------------------------------------------------------
(* The four things a step can do to the callables, or nothing.             *)
Apart == UNCHANGED <<Queue, tasks, finished, dropped, Handed>>

Comes(j) ==
  /\ j \in Jobs /\ j \notin Handed /\ Handed' = Handed \cup {j} /\ finished' = finished
  /\ \/ Queue' = Append(Queue, j) /\ tasks' = tasks /\ dropped' = dropped
     \/ Queue' = Queue /\ tasks' = tasks \cup {j} /\ dropped' = dropped
     \/ Queue' = Queue /\ tasks' = tasks /\ dropped' = dropped \cup {j}

Goes(j) ==
  /\ Queue # <<>> /\ j = Head(Queue) /\ Handed' = Handed /\ finished' = finished
  /\ \/ Queue' = Tail(Queue) /\ tasks' = tasks \cup {j} /\ dropped' = dropped
     \/ Queue' = Append(Tail(Queue), j) /\ tasks' = tasks /\ dropped' = dropped
     \/ Queue' = Tail(Queue) /\ tasks' = tasks /\ dropped' = dropped \cup {j}

Ends(J) ==
  /\ J \subseteq tasks /\ tasks' = tasks \ J /\ finished' = finished \cup J
  /\ Queue' = Queue /\ dropped' = dropped /\ Handed' = Handed

Moves == Apart \/ (\E j \in Jobs : Comes(j) \/ Goes(j)) \/ \E J \in SUBSET tasks : Ends(J)

-----------------------------------------------------------------------------
(* What any of those does to OneHome, and that it is a step of EventLoop.  *)
LEMMA MovesKeepHome ==
  ASSUME TypeOK, OneHome, Moves
  PROVE  OneHome' /\ [AsEventLoop!LNext]_<<Queue, tasks, finished \cup dropped>>
<1>1. Queue \in Seq(Jobs) BY Zenon, QueueParts DEF TypeOK, Queue
<1>2. /\ Unique(Queue) /\ Handed = Elements(Queue) \cup tasks \cup finished \cup dropped
      /\ Elements(Queue) \cap (tasks \cup finished \cup dropped) = {}
      /\ tasks \cap finished = {} /\ dropped \cap (tasks \cup finished) = {}
      /\ tasks \subseteq Jobs
  <2>1. Elements(Queue) \subseteq Jobs BY <1>1 DEF Elements
  <2> QED BY Zenon, <2>1 DEF OneHome, Unique, Handed, TypeOK
<1>3. ASSUME Unique(Queue'), Handed' = Elements(Queue') \cup tasks' \cup finished' \cup dropped',
             Elements(Queue') \cap (tasks' \cup finished' \cup dropped') = {},
             tasks' \cap finished' = {}, dropped' \cap (tasks' \cup finished') = {}
      PROVE  OneHome'
  BY Zenon, <1>3 DEF OneHome, Unique, Handed, Elements
<1>4. CASE Apart
  BY Zenon, <1>2, <1>3, <1>4 DEF Apart
<1>5. ASSUME NEW j \in Jobs, Comes(j)
      PROVE  OneHome' /\ AsEventLoop!LNext
  <2>1. AsEventLoop!Fresh(j)
    BY Zenon, <1>2, <1>5 DEF Comes, AsEventLoop!Fresh, AsEventLoop!Elements, Elements
  <2>2. Unique(Append(Queue, j)) /\ Elements(Append(Queue, j)) = Elements(Queue) \cup {j}
    BY SMTT(30), <1>1, <1>2, <1>5, UniqueAppend, ElementsAppend DEF Comes
  <2>3. OneHome'
    BY ZenonT(30), <1>2, <1>3, <1>5, <2>2 DEF Comes
  <2>4. AsEventLoop!Hand(j) \/ AsEventLoop!Spawn(j)
    BY <1>5, <2>1 DEF Comes, AsEventLoop!Hand, AsEventLoop!Spawn
  <2> QED BY Zenon, <2>3, <2>4 DEF AsEventLoop!LNext
<1>6. ASSUME NEW j \in Jobs, Goes(j)
      PROVE  OneHome' /\ AsEventLoop!LNext
  <2>1. /\ Tail(Queue) \in Seq(Jobs) /\ Elements(Queue) = {j} \cup Elements(Tail(Queue))
        /\ Unique(Tail(Queue)) /\ j \notin Elements(Tail(Queue))
    BY ZenonT(30), <1>1, <1>2, <1>6, ElementsTail, UniqueTail DEF Goes
  <2>2. /\ Unique(Append(Tail(Queue), j))
        /\ Elements(Append(Tail(Queue), j)) = Elements(Queue)
    <3> DEFINE t == Tail(Queue)
    <3>1. t \in Seq(Jobs) /\ Unique(t) /\ j \notin Elements(t) BY <2>1
    <3> HIDE DEF t
    <3>2. Unique(Append(t, j)) /\ Elements(Append(t, j)) = Elements(t) \cup {j}
      BY <3>1, UniqueAppend, ElementsAppend
    <3> QED BY <2>1, <3>2 DEF t
  <2>3. OneHome'
    BY Zenon, <1>2, <1>3, <1>6, <2>1, <2>2 DEF Goes
  <2>4. AsEventLoop!Call
    BY Zenon, <1>6 DEF Goes, AsEventLoop!Call
  <2> QED BY Zenon, <2>3, <2>4 DEF AsEventLoop!LNext
<1>7. ASSUME NEW J \in SUBSET tasks, Ends(J)
      PROVE  OneHome' /\ [AsEventLoop!LNext]_<<Queue, tasks, finished \cup dropped>>
  <2>1. OneHome' BY Zenon, <1>2, <1>3, <1>7 DEF Ends
  <2>2. CASE J = {} BY Zenon, <1>7, <2>1, <2>2 DEF Ends
  <2>3. CASE J # {}
    <3>1. AsEventLoop!End BY Zenon, <1>7, <2>3 DEF Ends, AsEventLoop!End
    <3> QED BY Zenon, <2>1, <3>1 DEF AsEventLoop!LNext
  <2> QED BY Zenon, <2>2, <2>3
<1> QED BY Zenon, <1>4, <1>5, <1>6, <1>7 DEF Moves, Apart

(* Every step of the Scheduler is one of those. *)
LEMMA LoopStep ==
  ASSUME TypeOK, OneHome, LocalInv, [Next]_vars
  PROVE  Moves /\ LocalInv'
<1> USE DEF memberVars, flags, signalVars, callVars, loopVars, driverVars, coVars,
            historyVars, jobVars, kernelVars, ringVars
<1>0. local \in Seq(Jobs) /\ inbox \in Seq(Jobs) /\ sent \in [Jobs -> {"no", "pushed", "ok", "failed"}]
  BY DEF TypeOK
<1>1. ASSUME NEW j \in Jobs, PostPush(j) PROVE Moves /\ LocalInv'
  <2>1. Queue' = Append(Queue, j) BY <1>0, <1>1, QueueParts DEF PostPush, Queue
  <2>2. j \notin Handed /\ Handed' = Handed \cup {j} BY Zenon, <1>0, <1>1 DEF PostPush, Handed
  <2>3. Comes(j) BY Zenon, <1>1, <2>1, <2>2 DEF PostPush, Comes
  <2> QED BY Zenon, <1>1, <2>3 DEF Moves, PostPush, LocalInv
<1>2. ASSUME NEW j \in Jobs, DirectSpawn(j) PROVE Moves /\ LocalInv'
  <2>1. j \notin Handed /\ Handed' = Handed \cup {j} BY Zenon, <1>0, <1>2 DEF DirectSpawn, Handed
  <2>2. Queue' = Queue /\ finished' = finished BY Zenon, <1>2 DEF DirectSpawn, Queue
  <2>3. \/ tasks' = tasks \cup {j} /\ dropped' = dropped
        \/ tasks' = tasks /\ dropped' = dropped \cup {j}
    BY <1>2 DEF DirectSpawn, Spawned, SpawnThrowsLate
  <2>4. Comes(j) BY Zenon, <2>1, <2>2, <2>3 DEF Comes
  <2> QED BY Zenon, <1>2, <2>4 DEF Moves, DirectSpawn, LocalInv
<1>3. ASSUME NEW j \in Jobs, NextTask(j), Handed' = Handed, finished' = finished,
             pc' \in {"inbox", "poke"},
             \/ inbox' = inbox /\ tasks' = tasks \cup {j} /\ dropped' = dropped
             \/ inbox' = Append(inbox, j) /\ tasks' = tasks /\ dropped' = dropped
             \/ inbox' = inbox /\ tasks' = tasks /\ dropped' = dropped \cup {j}
      PROVE  Moves /\ LocalInv'
  <2>1. local # <<>> /\ j = Head(local) /\ local' = Tail(local) BY Zenon, <1>3 DEF NextTask
  <2>2. Queue # <<>> /\ Head(Queue) = j /\ Tail(Queue) = Tail(local) \o inbox
    BY <1>0, <2>1, QueueParts DEF Queue
  <2>3. Tail(local) \o Append(inbox, j) = Append(Tail(local) \o inbox, j)
    <3>1. Tail(local) \in Seq(Jobs) BY <1>0, <2>1
    <3> QED BY SMTT(30), <1>0, <3>1, QueueParts
  <2>4. Queue' = local' \o inbox' BY DEF Queue
  <2>5. Goes(j) BY Zenon, <1>3, <2>1, <2>2, <2>3, <2>4 DEF Goes
  <2> QED BY Zenon, <1>3, <2>5 DEF Moves, LocalInv
<1>4. ASSUME NEW j \in Jobs, InboxSpawned(j) PROVE Moves /\ LocalInv'
  BY Zenon, <1>3, <1>4 DEF InboxSpawned, NextTask, Spawned, Handed
<1>5. ASSUME NEW j \in Jobs, InboxRequeue(j) PROVE Moves /\ LocalInv'
  BY Zenon, <1>3, <1>5 DEF InboxRequeue, NextTask, SpawnThrowsLate, Handed
<1>6. ASSUME NEW j \in Jobs, InboxDropped(j) PROVE Moves /\ LocalInv'
  BY Zenon, <1>3, <1>6 DEF InboxDropped, NextTask, SpawnThrowsLate, Handed
<1>7. CASE Reap
  <2> DEFINE done == {j \in tasks : Done(j)}
  <2>1. Ends(done) BY Zenon, <1>7 DEF Reap, Ends, Queue, Handed
  <2> QED BY Zenon, <1>7, <2>1 DEF Moves, Reap, LocalInv
<1>8. CASE CqeEventfd
  <2>1. local = <<>> BY <1>8 DEF CqeEventfd, NextCqe, LocalInv
  <2>2. local' = inbox /\ inbox' = <<>> /\ pc' = "inbox" BY <1>8 DEF CqeEventfd
  <2>3. Queue' = Queue BY SMTT(30), <1>0, <2>1, <2>2, QueueParts DEF Queue
  <2>4. Apart BY ZenonT(30), <1>8, <2>3 DEF CqeEventfd, Apart, Handed
  <2> QED BY ZenonT(30), <2>2, <2>4 DEF Moves, LocalInv
<1>9. ASSUME Handed' = Handed, UNCHANGED <<local, inbox, tasks, finished, dropped>>,
             LocalInv'
      PROVE  Moves /\ LocalInv'
  BY <1>9 DEF Moves, Apart, Queue
<1> DEFINE Keeps == /\ UNCHANGED <<sent, local, inbox, tasks, finished, dropped>>
                    /\ pc \in {"inbox", "poke"} => pc' \in {"inbox", "poke"}
<1>18. ASSUME Keeps PROVE Moves /\ LocalInv'
  <2>1. Handed' = Handed BY Zenon, <1>18 DEF Handed
  <2>2. LocalInv' BY Zenon, <1>18 DEF LocalInv
  <2> QED BY Zenon, <1>9, <1>18, <2>1, <2>2
<1>10. ASSUME NEW j \in Jobs, PostWrite(j) PROVE Moves /\ LocalInv'
  <2>1. Handed' = Handed BY ZenonT(30), <1>0, <1>10 DEF PostWrite, Handed
  <2> QED BY Zenon, <1>9, <1>10, <2>1 DEF PostWrite, LocalInv
<1>11. CASE InboxDone BY <1>9, <1>11 DEF InboxDone, LocalInv, Handed
<1>12. CASE InboxPoke
  <2>1. Keeps BY <1>12 DEF InboxPoke
  <2> QED BY ZenonT(30), <1>18, <2>1
<1>13. CASE Owner
  <2> SUFFICES Keeps BY Zenon, <1>18
  <2>1. CASE Start BY Zenon, <2>1 DEF Start
  <2>2. CASE RequestStop BY Zenon, <2>2 DEF RequestStop
  <2>3. CASE StopCallback BY Zenon, <2>3 DEF StopCallback
  <2>4. CASE Shutdown BY Zenon, <2>4 DEF Shutdown
  <2>5. CASE Destroy BY <2>5 DEF Destroy
  <2> QED BY ZenonT(30), <1>13, <2>1, <2>2, <2>3, <2>4, <2>5 DEF Owner
<1>14. CASE Register \/ CheckRun \/ CheckShutdown \/ DrainEnter \/ DrainEnterFails
            \/ WaitReturns \/ WaitInterrupted
  <2> SUFFICES Keeps BY Zenon, <1>18
  <2>1. CASE Register BY Zenon, <2>1 DEF Register
  <2>2. CASE CheckRun BY Zenon, <2>2 DEF CheckRun
  <2>3. CASE CheckShutdown BY Zenon, <2>3 DEF CheckShutdown
  <2>4. CASE DrainEnter BY Zenon, <2>4 DEF DrainEnter
  <2>5. CASE DrainEnterFails BY Zenon, <2>5 DEF DrainEnterFails
  <2>6. CASE WaitReturns BY Zenon, <2>6 DEF WaitReturns
  <2>7. CASE WaitInterrupted BY <2>7 DEF WaitInterrupted
  <2> QED BY Zenon, <1>14, <2>1, <2>2, <2>3, <2>4, <2>5, <2>6, <2>7
<1>15. CASE CqeNull \/ CqeOp \/ CqeDangling
  <2> SUFFICES Keeps BY Zenon, <1>18
  <2>1. CASE CqeNull BY Zenon, <2>1 DEF CqeNull, NextCqe
  <2>2. CASE CqeOp
    <3>1. /\ pc' = pc
          /\ UNCHANGED <<memberVars, signalVars, local, tasks, historyVars>>
      BY Zenon, <2>2 DEF CqeOp, NextCqe
    <3> QED BY <3>1
  <2>3. CASE CqeDangling BY Zenon, <2>3 DEF CqeDangling, NextCqe
  <2> QED BY Zenon, <1>15, <2>1, <2>2, <2>3
<1>16. CASE Kernel
  <2>1. Keeps
    BY ZenonT(30), <1>16 DEF Kernel, EfdReadCompletes, EfdReadFails, OpCompletes, TimerCompletes, Complete
  <2> QED BY Zenon, <1>18, <2>1
<1>17. CASE Ended \/ UNCHANGED vars
  <2>1. Keeps BY Zenon, <1>17 DEF Ended, vars
  <2> QED BY Zenon, <1>18, <2>1
<1> QED
  BY Zenon, <1>1, <1>2, <1>4, <1>5, <1>6, <1>7, <1>8, <1>10, <1>11, <1>12, <1>13, <1>14, <1>15,
     <1>16, <1>17 DEF Next, Clients, Loop, Handler

LEMMA LoopInit == Init => LoopInv /\ AsEventLoop!LInit
<1> SUFFICES ASSUME Init PROVE LoopInv /\ AsEventLoop!LInit
  OBVIOUS
<1>1. Queue = <<>> BY DEF Init, Queue
<1>2. LocalInv BY Zenon DEF Init, LocalInv
<1>3. OneHome BY <1>1 DEF Init, OneHome, Elements, Unique
<1> QED BY Zenon, <1>1, <1>2, <1>3 DEF Init, LoopInv, AsEventLoop!LInit

(* Of the callables handed to a Scheduler, by post() or spawn(), none is   *)
(* lost and none is in two places, however posters, requeues, failed       *)
(* spawns, stops, restarts and shutdowns interleave.                       *)
THEOREM CallablesOneHome == Spec => []OneHome
<1>1. TypeOK /\ LoopInv /\ [Next]_vars => LoopInv'
  BY LoopStep, MovesKeepHome DEF LoopInv
<1>2. LoopInv => OneHome BY DEF LoopInv
<1> QED BY <1>1, <1>2, LoopInit, TypeCorrect, PTL DEF Spec

(* A Scheduler implements EventLoop: its callables are called in the order *)
(* in which they were queued, each leaves a coroutine, goes back to the    *)
(* end of the queue or is given up, and what is over stays over.           *)
THEOREM SchedulerIsEventLoop == Spec => IsEventLoop
<1>1. TypeOK /\ LoopInv /\ [Next]_vars => LoopInv'
  BY LoopStep, MovesKeepHome DEF LoopInv
<1>2. TypeOK /\ LoopInv /\ [Next]_vars =>
        [AsEventLoop!LNext]_<<Queue, tasks, finished \cup dropped>>
  BY LoopStep, MovesKeepHome DEF LoopInv
<1> QED BY <1>1, <1>2, LoopInit, TypeCorrect, PTL DEF Spec, IsEventLoop, AsEventLoop!LSpec
=============================================================================
