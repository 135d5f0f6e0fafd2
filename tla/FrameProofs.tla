---------------------------- MODULE FrameProofs ----------------------------
(***************************************************************************)
(* Coroutine frames and the operations they wait for, for every value of   *)
(* the constants: which operations can still complete, and to whom.        *)
(***************************************************************************)
EXTENDS SchedulerProofs

(* The awaitables whose operation is staged, and those with a completion.  *)
OpsIn(q)  == {a \in Awaitable : Op(a) \in Elements(q)}
Staged    == OpsIn(sq)
Completed == OpsIn(cq)

OnceEach(q) ==
  \A a \in Awaitable : \A m, n \in 1 .. Len(q) : q[m] = Op(a) /\ q[n] = Op(a) => m = n

(* An operation is in one place at a time: a completion resumes one frame  *)
(* once, and what it resumes finds nothing of its last operation left.     *)
OnePlace ==
  /\ Staged \cap inflight = {} /\ Staged \cap Completed = {}
  /\ inflight \cap Completed = {}

Owned == \A j \in Jobs : at[j] # 0 => j \in tasks

Bygone == \A a \in orphaned : a.gen <= started[a.job]

PlacesInv == Owned /\ Bygone /\ OnePlace /\ OnlyArmingLoses /\ OnlyLateThrowDangles

OnceInv == OnceEach(sq) /\ OnceEach(cq)

ClosedInv == pc = "closed" => tasks = {}

FrameInv == PlacesInv /\ OnceInv /\ ClosedInv

-----------------------------------------------------------------------------
(* What a step can do to frames and operations. *)
Still ==
  /\ UNCHANGED <<Staged, inflight, Completed, tasks, at, started, orphaned>>
  /\ overwritten \subseteq overwritten'

(* spawn() resumes a new frame, which it keeps or, throwing, destroys. *)
Starts(j) ==
  LET a == Awt(j, started[j] + 1)
  IN  /\ j \notin tasks /\ started' = [started EXCEPT ![j] = @ + 1]
      /\ Staged' \in {Staged, Staged \cup {a}}
      /\ \/ /\ at' = [at EXCEPT ![j] = 1] /\ tasks' = tasks \cup {j} /\ orphaned' = orphaned
            /\ IF 1 <= AwaitCount(j) THEN a \in Staged' ELSE Staged' = Staged
         \/ /\ UNCHANGED <<at, tasks>> /\ orphaned \subseteq orphaned'
            /\ orphaned' \subseteq orphaned \cup {a}
            /\ a \in Staged' => a \in Staged \/ a \in orphaned'
      /\ UNCHANGED <<inflight, Completed, overwritten>>

(* drain() overwrites a staged operation, or submits some. *)
Submits ==
  /\ Staged' \subseteq Staged /\ inflight \subseteq inflight'
  /\ inflight' \subseteq inflight \cup Staged /\ Staged' \cap inflight' = {}
  /\ Staged \subseteq Staged' \cup inflight' \cup overwritten'
  /\ overwritten \subseteq overwritten'
  /\ UNCHANGED <<Completed, tasks, at, started, orphaned>>

Completes(a) ==
  /\ a \in inflight /\ inflight' = inflight \ {a} /\ Completed' = Completed \cup {a}
  /\ UNCHANGED <<Staged, tasks, at, started, orphaned, overwritten>>

(* drain() handles a completion: the frame goes on, or there is none. *)
Resumes(a) ==
  /\ a \in Completed /\ Completed' = Completed \ {a}
  /\ \/ /\ Awaiting(a)
        /\ \E k \in 1 .. AwaitCount(a.job) + 1 :
             /\ at' = [at EXCEPT ![a.job] = k]
             /\ Staged' = IF k <= AwaitCount(a.job) THEN Staged \cup {a} ELSE Staged
     \/ ~Awaiting(a) /\ UNCHANGED <<at, Staged>>
  /\ UNCHANGED <<inflight, tasks, started, orphaned, overwritten>>

Reaps(J) ==
  /\ J \subseteq tasks /\ \A j \in J : Done(j)
  /\ tasks' = tasks \ J /\ at' = [j \in Jobs |-> IF j \in J THEN 0 ELSE at[j]]
  /\ UNCHANGED <<Staged, inflight, Completed, started, orphaned, overwritten>>

FrameMoves ==
  \/ Still \/ Submits \/ \E j \in Jobs : Starts(j)
  \/ \E a \in Awaitable : Completes(a) \/ Resumes(a)
  \/ \E J \in SUBSET tasks : Reaps(J)

-----------------------------------------------------------------------------
LEMMA AwaitableFields ==
  /\ \A a \in Awaitable : a.job \in Jobs /\ a.gen \in 1 .. MaxStarts /\ a = Awt(a.job, a.gen)
  /\ \A j \in Jobs, g \in 1 .. MaxStarts :
       Awt(j, g) \in Awaitable /\ Awt(j, g).job = j /\ Awt(j, g).gen = g
BY DEF Awaitable, Awt

LEMMA CountType == \A j \in Jobs : AwaitCount(j) \in Nat
BY ConstantsAssumption DEF AwaitCount

(* Where operations can be, in terms of the three sets. *)
LEMMA ReachesIs ==
  ASSUME TypeOK, NEW a
  PROVE  Reaches(a) <=> a \in Staged \cup inflight \cup Completed
<1>1. \A q \in Seq(Sqe(Awaitable)) \cup Seq(Cqe) : Op(a) \in Elements(q) => a \in Awaitable
  <2> SUFFICES ASSUME NEW q \in Seq(Sqe(Awaitable)) \cup Seq(Cqe), NEW i \in 1 .. Len(q), q[i] = Op(a)
               PROVE  a \in Awaitable
    BY DEF Elements
  <2>1. q[i] \in Sqe(Awaitable) \cup Cqe OBVIOUS
  <2> QED BY <2>1 DEF Sqe, Cqe, Op, LinkTimeout, EventfdRead, NullCqe
<1> QED BY <1>1 DEF TypeOK, Reaches, Staged, Completed, OpsIn

(* The two invariants over the three sets. *)
Kept ==
  \A j \in Jobs : at[j] \in 1 .. AwaitCount(j) =>
    Awt(j, started[j]) \in Staged \cup inflight \cup Completed \cup overwritten

Answered ==
  \A a \in Staged \cup inflight \cup Completed :
    (at[a.job] \in 1 .. AwaitCount(a.job) /\ a = Awt(a.job, started[a.job])) \/ a \in orphaned

LEMMA PlacesAre ==
  TypeOK => (OnlyArmingLoses <=> Kept) /\ (OnlyLateThrowDangles <=> Answered)
<1> SUFFICES ASSUME TypeOK PROVE (OnlyArmingLoses <=> Kept) /\ (OnlyLateThrowDangles <=> Answered)
  OBVIOUS
<1>1. OnlyArmingLoses <=> Kept
  BY ReachesIs DEF OnlyArmingLoses, Kept, Suspended, Current
<1>2. Staged \cup inflight \cup Completed \subseteq Awaitable
  BY DEF TypeOK, Staged, Completed, OpsIn
<1>3. OnlyLateThrowDangles <=> Answered
  BY <1>2, ReachesIs DEF OnlyLateThrowDangles, Answered, Awaiting, Suspended, Current
<1> QED BY <1>1, <1>3

(* Whatever the step, the operations stay in one place each, the frames    *)
(* that wait keep their operation unless it is overwritten, and no         *)
(* operation loses its frame but to a throwing spawn().                    *)
LEMMA MovesKeepPlaces ==
  ASSUME TypeOK, TypeOK', PlacesInv, FrameMoves
  PROVE  PlacesInv'
<1>0. /\ at \in [Jobs -> Nat] /\ started \in [Jobs -> 0 .. MaxStarts]
      /\ orphaned \subseteq Awaitable /\ inflight \subseteq Awaitable /\ tasks \subseteq Jobs
      /\ Staged \subseteq Awaitable /\ Completed \subseteq Awaitable
  BY Zenon DEF TypeOK, Staged, Completed, OpsIn
<1>1. Owned /\ Bygone /\ OnePlace /\ Kept /\ Answered
  BY PlacesAre DEF PlacesInv
<1> SUFFICES Owned' /\ Bygone' /\ OnePlace' /\ Kept' /\ Answered'
  <2>1. (TypeOK => (OnlyArmingLoses <=> Kept) /\ (OnlyLateThrowDangles <=> Answered))'
    BY PlacesAre, PTL
  <2> QED BY Zenon, <2>1 DEF PlacesInv
<1> HIDE DEF Staged, Completed
<1>2. CASE Still
  BY <1>1, <1>2 DEF Still, Owned, Bygone, OnePlace, Kept, Answered
<1>3. CASE Submits
  BY <1>1, <1>3 DEF Submits, Owned, Bygone, OnePlace, Kept, Answered
<1>4. ASSUME NEW a \in Awaitable, Completes(a) PROVE Owned' /\ Bygone' /\ OnePlace' /\ Kept' /\ Answered'
  BY Zenon, <1>1, <1>4 DEF Completes, Owned, Bygone, OnePlace, Kept, Answered
<1>5. ASSUME NEW J \in SUBSET tasks, Reaps(J) PROVE Owned' /\ Bygone' /\ OnePlace' /\ Kept' /\ Answered'
  <2>1. \A j \in Jobs : /\ at'[j] # 0 => at'[j] = at[j] /\ j \notin J
                        /\ at[j] \in 1 .. AwaitCount(j) <=> at'[j] \in 1 .. AwaitCount(j)
    BY <1>0, <1>5, CountType DEF Reaps, Done
  <2> QED BY ZenonT(30), <1>0, <1>1, <1>5, <2>1, AwaitableFields DEF Reaps, Owned, Bygone, OnePlace, Kept, Answered
<1>6. ASSUME NEW a \in Awaitable, Resumes(a) PROVE Owned' /\ Bygone' /\ OnePlace' /\ Kept' /\ Answered'
  <2>0. a.job \in Jobs BY AwaitableFields
  <2>1. CASE ~Awaiting(a) /\ UNCHANGED <<at, Staged>>
    <3>1. Owned' /\ Bygone' /\ OnePlace' /\ Answered'
      BY Zenon, <1>1, <1>6, <2>1 DEF Resumes, Owned, Bygone, OnePlace, Answered
    <3>2. ASSUME NEW j \in Jobs, at[j] \in 1 .. AwaitCount(j) PROVE Awt(j, started[j]) # a
      <4> SUFFICES ASSUME Awt(j, started[j]) = a PROVE FALSE OBVIOUS
      <4>1. a.job = j BY DEF Awt
      <4> QED BY Zenon, <2>1, <3>2, <4>1 DEF Awaiting, Suspended, Current
    <3>3. Kept' BY ZenonT(30), <1>1, <1>6, <2>1, <3>2 DEF Resumes, Kept
    <3> QED BY Zenon, <3>1, <3>3
  <2>2. ASSUME Awaiting(a), NEW k \in 1 .. AwaitCount(a.job) + 1, at' = [at EXCEPT ![a.job] = k],
               Staged' = IF k <= AwaitCount(a.job) THEN Staged \cup {a} ELSE Staged
        PROVE  Owned' /\ Bygone' /\ OnePlace' /\ Kept' /\ Answered'
    <3>1. a = Awt(a.job, started[a.job]) /\ at[a.job] # 0 /\ started' = started
      BY <1>6, <2>2 DEF Awaiting, Suspended, Current, Resumes
    <3>2. /\ \A j \in Jobs : j # a.job => at'[j] = at[j] /\ Awt(j, started[j]) # a
          /\ at'[a.job] = k
      BY <1>0, <2>0, <2>2 DEF Awt
    <3>3. Owned' /\ Bygone' BY Zenon, <1>1, <1>6, <2>0, <3>1, <3>2 DEF Resumes, Owned, Bygone
    <3>4. OnePlace' BY Zenon, <1>1, <1>6, <2>2 DEF Resumes, OnePlace
    <3>5. Kept'
      <4> SUFFICES ASSUME NEW j \in Jobs, at'[j] \in 1 .. AwaitCount(j)
                   PROVE  Awt(j, started[j]) \in Staged' \cup inflight' \cup Completed' \cup overwritten'
        BY <3>1 DEF Kept
      <4>1. CASE j = a.job BY <2>2, <3>1, <3>2, <4>1
      <4>2. CASE j # a.job BY Zenon, <1>1, <1>6, <2>2, <3>2, <4>2 DEF Kept, Resumes
      <4> QED BY Zenon, <4>1, <4>2
    <3>6. Answered'
      <4> SUFFICES ASSUME NEW b \in Staged' \cup inflight' \cup Completed', b \notin orphaned
                   PROVE  at'[b.job] \in 1 .. AwaitCount(b.job) /\ b = Awt(b.job, started[b.job])
        BY Zenon, <1>6, <3>1 DEF Answered, Resumes
      <4>1. CASE b = a BY <1>1, <1>6, <2>2, <3>1, <3>2, <4>1, CountType DEF Resumes, OnePlace
      <4>2. CASE b # a
        <5>1. b \in Staged \cup inflight \cup Completed BY Zenon, <1>6, <2>2, <4>2 DEF Resumes
        <5>2. b.job \in Jobs BY Zenon, <1>0, <5>1, AwaitableFields
        <5> QED BY Zenon, <1>1, <3>1, <3>2, <4>2, <5>1, <5>2 DEF Answered
      <4> QED BY Zenon, <4>1, <4>2
    <3> QED BY ZenonT(30), <3>3, <3>4, <3>5, <3>6
  <2> QED BY Zenon, <1>6, <2>1, <2>2 DEF Resumes
<1>7. ASSUME NEW j \in Jobs, Starts(j) PROVE Owned' /\ Bygone' /\ OnePlace' /\ Kept' /\ Answered'
  <2> DEFINE a == Awt(j, started[j] + 1)
  <2>1. a.job = j /\ a.gen = started[j] + 1 /\ started[j] \in Nat
    BY <1>0 DEF Awt
  <2> HIDE DEF a
  <2>2. a \notin orphaned /\ a # Awt(j, started[j])
    BY <1>1, <2>1 DEF Bygone, Awt
  <2>3. a \notin Staged \cup inflight \cup Completed
    BY Zenon, <1>1, <2>1, <2>2 DEF Answered
  <2>4. /\ \A i \in Jobs : i # j => started'[i] = started[i] /\ at'[i] = at[i]
        /\ started'[j] = started[j] + 1 /\ at[j] = 0 /\ started'[j] > started[j]
        /\ j \notin tasks
    BY <1>0, <1>1, <1>7, <2>1 DEF Starts, Owned
  <2>5. /\ Staged' = Staged \/ Staged' = Staged \cup {a}
        /\ UNCHANGED <<inflight, Completed, overwritten>> /\ orphaned \subseteq orphaned'
        /\ orphaned' \subseteq orphaned \cup {a}
    BY <1>7 DEF Starts, a
  <2>6. OnePlace' BY Zenon, <1>1, <2>3, <2>5 DEF OnePlace
  <2>7. Bygone'
    <3> SUFFICES ASSUME NEW b \in orphaned' PROVE b.gen <= started'[b.job]
      BY DEF Bygone
    <3>1. CASE b = a BY <2>1, <2>4, <3>1
    <3>2. CASE b # a
      <4>1. b \in orphaned /\ b.job \in Jobs /\ b.gen \in Nat BY <1>0, <2>5, <3>2, AwaitableFields
      <4> QED BY <1>0, <1>1, <2>4, <4>1 DEF Bygone
    <3> QED BY <3>1, <3>2
  <2>8. Owned' BY Zenon, <1>1, <1>7, <2>4 DEF Owned, Starts
  <2>9. \/ at'[j] = 1 /\ (IF 1 <= AwaitCount(j) THEN a \in Staged' ELSE Staged' = Staged)
        \/ at'[j] = 0 /\ (a \in Staged' => a \in orphaned')
    BY ZenonT(30), <1>0, <1>7, <2>3, <2>4 DEF Starts, a
  <2>10. Kept'
    <3> SUFFICES ASSUME NEW i \in Jobs, at'[i] \in 1 .. AwaitCount(i)
                 PROVE  Awt(i, started'[i]) \in Staged' \cup inflight' \cup Completed' \cup overwritten'
      BY DEF Kept
    <3>1. CASE i = j BY <2>4, <2>9, <3>1, CountType DEF a
    <3>2. CASE i # j BY Zenon, <1>1, <2>4, <2>5, <3>2 DEF Kept
    <3> QED BY Zenon, <3>1, <3>2
  <2>11. Answered'
    <3> SUFFICES ASSUME NEW b \in Staged' \cup inflight' \cup Completed', b \notin orphaned'
                 PROVE  at'[b.job] \in 1 .. AwaitCount(b.job) /\ b = Awt(b.job, started'[b.job])
      BY DEF Answered
    <3>1. CASE b = a
      <4>1. at'[j] = 1 /\ 1 <= AwaitCount(j) BY Zenon, <2>3, <2>5, <2>9, <3>1
      <4> QED BY <2>1, <2>4, <3>1, <4>1, CountType DEF a
    <3>2. CASE b # a
      <4>1. b \in Staged \cup inflight \cup Completed /\ b \notin orphaned BY Zenon, <2>5, <3>2
      <4>2. b.job \in Jobs BY Zenon, <1>0, <4>1, AwaitableFields
      <4>3. at[b.job] \in 1 .. AwaitCount(b.job) /\ b = Awt(b.job, started[b.job])
        BY Zenon, <1>1, <4>1 DEF Answered
      <4>4. b.job # j BY <2>4, <4>3, CountType
      <4> QED BY Zenon, <2>4, <4>2, <4>3, <4>4
    <3> QED BY Zenon, <3>1, <3>2
  <2> QED BY Zenon, <2>6, <2>7, <2>8, <2>10, <2>11
<1> QED BY Zenon, <1>2, <1>3, <1>4, <1>5, <1>6, <1>7 DEF FrameMoves
-----------------------------------------------------------------------------
(* What the queue operations do to the operations in a queue. *)
LEMMA OtherAppended ==
  ASSUME NEW S, NEW q \in Seq(S), NEW e \in S, \A a \in Awaitable : e # Op(a)
  PROVE  OpsIn(Append(q, e)) = OpsIn(q) /\ (OnceEach(q) => OnceEach(Append(q, e)))
<1>1. Elements(Append(q, e)) = Elements(q) \cup {e} BY ElementsAppend
<1>2. OpsIn(Append(q, e)) = OpsIn(q) BY <1>1 DEF OpsIn
<1>3. OnceEach(q) => OnceEach(Append(q, e)) BY DEF OnceEach
<1> QED BY <1>2, <1>3

LEMMA OpAppended ==
  ASSUME NEW S, NEW q \in Seq(S), NEW a \in Awaitable, Op(a) \in S, a \notin OpsIn(q)
  PROVE  OpsIn(Append(q, Op(a))) = OpsIn(q) \cup {a} /\ (OnceEach(q) => OnceEach(Append(q, Op(a))))
<1> DEFINE e == Op(a)
<1>0. \A b \in Awaitable : Op(b) = e => b = a BY DEF Op
<1>1. e \in S /\ e \notin Elements(q) BY DEF OpsIn
<1>2. OpsIn(q) = {b \in Awaitable : Op(b) \in Elements(q)} BY DEF OpsIn
<1>3. OpsIn(Append(q, e)) = {b \in Awaitable : Op(b) \in Elements(Append(q, e))} BY DEF OpsIn
<1> HIDE DEF e
<1>4. Elements(Append(q, e)) = Elements(q) \cup {e} BY <1>1, ElementsAppend
<1>5. OpsIn(Append(q, e)) = OpsIn(q) \cup {a}
  BY Zenon, <1>0, <1>2, <1>3, <1>4 DEF e
<1>6. ASSUME OnceEach(q) PROVE OnceEach(Append(q, e))
  BY <1>1, <1>6 DEF OnceEach, Elements
<1> QED BY Zenon, <1>5, <1>6 DEF e

LEMMA RoomAppends ==
  ASSUME NEW q \in Seq(Sqe(Awaitable)), NEW e \in Sqe(Awaitable), HasCapacity(q, 1)
  PROVE  Commit(q, e) = Append(q, e)
<1>1. /\ Commit(q, e) \in Seq(Sqe(Awaitable)) /\ Len(Commit(q, e)) = Len(q) + 1
      /\ Commit(q, e)[Len(q) + 1] = e /\ \A i \in 1 .. Len(q) : Commit(q, e)[i] = q[i]
  BY CommitQueue
<1> QED BY <1>1, SeqEqual

LEMMA StagedOps ==
  ASSUME NEW q \in Seq(Sqe(Awaitable)), NEW a \in Awaitable, NEW n \in {1, 2},
         HasCapacity(q, n), a \notin OpsIn(q)
  PROVE  OpsIn(Stage(q, a, n)) = OpsIn(q) \cup {a} /\ (OnceEach(q) => OnceEach(Stage(q, a, n)))
<1> DEFINE p == Append(q, Op(a))
<1>1. HasCapacity(q, 1) /\ p = Commit(q, Op(a))
  <2>1. HasCapacity(q, 1) BY EntriesAssumption DEF HasCapacity
  <2> QED BY Zenon, <2>1, SqeMembers, RoomAppends
<1>2. /\ p \in Seq(Sqe(Awaitable)) /\ Len(p) = Len(q) + 1
      /\ OpsIn(p) = OpsIn(q) \cup {a} /\ (OnceEach(q) => OnceEach(p))
  BY SqeMembers, OpAppended, AppendProperties
<1> HIDE DEF p
<1>3. CASE n = 1 BY <1>1, <1>2, <1>3 DEF Stage
<1>4. CASE n = 2
  <2>1. HasCapacity(p, 1) BY <1>2, <1>4, EntriesAssumption DEF HasCapacity
  <2> DEFINE t == LinkTimeout(a)
  <2>2. t \in Sqe(Awaitable) /\ \A b \in Awaitable : t # Op(b) BY Zenon, SqeMembers DEF LinkTimeout, Op
  <2>3. Stage(q, a, n) = Commit(p, t) BY Zenon, <1>1, <1>4 DEF Stage
  <2> HIDE DEF t
  <2>4. Commit(p, t) = Append(p, t) BY Zenon, <1>2, <2>1, <2>2, RoomAppends
  <2>5. OpsIn(Append(p, t)) = OpsIn(p) /\ (OnceEach(p) => OnceEach(Append(p, t)))
    BY Zenon, <1>2, <2>2, OtherAppended
  <2> QED BY Zenon, <1>2, <2>3, <2>4, <2>5
<1> QED BY Zenon, <1>3, <1>4

(* Arming may overwrite operations and adds none. *)
LEMMA ArmedOps ==
  ASSUME NEW q \in Seq(Sqe(Awaitable))
  PROVE  OpsIn(Arm(q)) \subseteq OpsIn(q) /\ (OnceEach(q) => OnceEach(Arm(q)))
<1>1. Len(Arm(q)) = Len(q) + 1 /\ Len(q) \in Nat BY ArmQueue
<1>2. ASSUME NEW a \in Awaitable, NEW i \in 1 .. Len(Arm(q)), Arm(q)[i] = Op(a)
      PROVE  i \in 1 .. Len(q) /\ q[i] = Op(a)
  <2>1. Op(a) # EventfdRead BY SqeMembers
  <2>2. Arm(q)[i] = IF (Len(q) + 1 - i) % Entries = 0 THEN EventfdRead ELSE q[i]
    BY <1>1 DEF Arm, Commit
  <2>3. i # Len(q) + 1 BY <1>1, <1>2, <2>1, <2>2, EntriesAssumption
  <2> QED BY <1>1, <1>2, <2>1, <2>2, <2>3
<1>3. OpsIn(Arm(q)) \subseteq OpsIn(q) BY <1>2 DEF OpsIn, Elements
<1>4. OnceEach(q) => OnceEach(Arm(q)) BY <1>2 DEF OnceEach
<1> QED BY <1>3, <1>4

(* Submitting parts the operations of a queue into those taken and those   *)
(* left.                                                                   *)
Taken(q) == {a \in Awaitable : \E i \in 1 .. Submittable(q) : q[i] = Op(a)}

LEMMA SubmittedOps ==
  ASSUME NEW q \in Seq(Sqe(Awaitable)), OnceEach(q)
  PROVE  /\ OpsIn(q) = Taken(q) \cup OpsIn(Remaining(q))
         /\ Taken(q) \cap OpsIn(Remaining(q)) = {}
         /\ OnceEach(Remaining(q))
<1> DEFINE n == Submittable(q)
           r == Remaining(q)
<1>1. Len(q) \in Nat /\ n \in 0 .. Len(q) BY RemainingQueue
<1>2. Len(r) = Len(q) - n /\ \A i \in 1 .. Len(q) - n : r[i] = q[n + i]
  BY <1>1, SubSeqProperties DEF Remaining
<1> HIDE DEF n, r
<1>3. OpsIn(q) = {a \in Awaitable : \E i \in 1 .. Len(q) : q[i] = Op(a)}
  BY DEF OpsIn, Elements
<1>4. OpsIn(r) = {a \in Awaitable : \E i \in n + 1 .. Len(q) : q[i] = Op(a)}
  <2>1. ASSUME NEW a \in Awaitable, NEW i \in n + 1 .. Len(q), q[i] = Op(a) PROVE a \in OpsIn(r)
    <3>1. i - n \in 1 .. Len(q) - n /\ r[i - n] = q[i] BY <1>1, <1>2
    <3> QED BY Zenon, <1>2, <2>1, <3>1 DEF OpsIn, Elements
  <2>2. ASSUME NEW a \in OpsIn(r) PROVE \E i \in n + 1 .. Len(q) : q[i] = Op(a)
    <3>1. PICK i \in 1 .. Len(q) - n : r[i] = Op(a) BY <1>2 DEF OpsIn, Elements
    <3>2. n + i \in n + 1 .. Len(q) /\ q[n + i] = Op(a) BY <1>1, <1>2, <3>1
    <3> QED BY <3>2
  <2>3. OpsIn(r) \subseteq Awaitable BY DEF OpsIn
  <2> QED BY Zenon, <2>1, <2>2, <2>3
<1>5. Taken(q) = {a \in Awaitable : \E i \in 1 .. n : q[i] = Op(a)} BY DEF Taken, n
<1>6. OpsIn(q) = Taken(q) \cup OpsIn(r) BY <1>1, <1>3, <1>4, <1>5
<1>7. Taken(q) \cap OpsIn(r) = {}
  <2> SUFFICES ASSUME NEW a \in Awaitable, NEW i \in 1 .. n, NEW m \in n + 1 .. Len(q), q[i] = Op(a), q[m] = Op(a)
               PROVE  FALSE
    BY <1>4, <1>5
  <2>1. i \in 1 .. Len(q) /\ m \in 1 .. Len(q) /\ i # m BY <1>1
  <2> QED BY <2>1 DEF OnceEach
<1>8. OnceEach(r)
  <2> SUFFICES ASSUME NEW a \in Awaitable, NEW i \in 1 .. Len(r), NEW m \in 1 .. Len(r), r[i] = Op(a), r[m] = Op(a)
               PROVE  i = m
    BY DEF OnceEach
  <2>1. n + i \in 1 .. Len(q) /\ n + m \in 1 .. Len(q) /\ q[n + i] = Op(a) /\ q[n + m] = Op(a)
    BY <1>1, <1>2
  <2>2. n + i = n + m BY <2>1 DEF OnceEach
  <2> QED BY <1>1, <1>2, <2>2
<1> QED BY Zenon, <1>6, <1>7, <1>8 DEF r

LEMMA TailOps ==
  ASSUME NEW S, NEW q \in Seq(S), q # <<>>, OnceEach(q)
  PROVE  /\ OnceEach(Tail(q))
         /\ OpsIn(Tail(q)) = {a \in OpsIn(q) : Head(q) # Op(a)}
<1>1. /\ Len(q) \in Nat /\ Len(q) > 0 /\ Head(q) = q[1] /\ Len(Tail(q)) = Len(q) - 1
      /\ \A i \in 1 .. Len(Tail(q)) : i + 1 \in 1 .. Len(q) /\ Tail(q)[i] = q[i + 1]
  OBVIOUS
<1>2. Elements(q) = {Head(q)} \cup Elements(Tail(q)) BY ElementsTail
<1>3. ASSUME NEW a \in Awaitable, Head(q) = Op(a) PROVE Op(a) \notin Elements(Tail(q))
  <2> SUFFICES ASSUME NEW i \in 1 .. Len(Tail(q)), Tail(q)[i] = Op(a) PROVE FALSE
    BY DEF Elements
  <2>1. 1 \in 1 .. Len(q) /\ i + 1 \in 1 .. Len(q) /\ q[1] = Op(a) /\ q[i + 1] = Op(a) /\ 1 # i + 1
    BY <1>1, <1>3
  <2> QED BY <2>1 DEF OnceEach
<1>4. OpsIn(Tail(q)) = {a \in OpsIn(q) : Head(q) # Op(a)} BY Zenon, <1>2, <1>3 DEF OpsIn
<1>5. OnceEach(Tail(q))
  <2> SUFFICES ASSUME NEW a \in Awaitable, NEW i \in 1 .. Len(Tail(q)), NEW m \in 1 .. Len(Tail(q)),
                      Tail(q)[i] = Op(a), Tail(q)[m] = Op(a)
               PROVE  i = m
    BY DEF OnceEach
  <2>1. i + 1 = m + 1 BY <1>1 DEF OnceEach
  <2> QED BY <1>1, <2>1
<1> QED BY <1>4, <1>5
-----------------------------------------------------------------------------
(* The awaitable of a frame about to be created is nowhere yet. *)
LEMMA FreshAwaitable ==
  ASSUME TypeOK, PlacesInv, NEW j \in Jobs
  PROVE  Awt(j, started[j] + 1) \notin Staged \cup inflight \cup Completed
<1> DEFINE a == Awt(j, started[j] + 1)
<1>1. a.job = j /\ a.gen = started[j] + 1 /\ started[j] \in Nat BY DEF TypeOK, Awt
<1>2. a # Awt(j, started[j]) BY <1>1 DEF Awt
<1> HIDE DEF a
<1>3. a \notin orphaned BY <1>1 DEF PlacesInv, Bygone
<1>4. Answered BY Zenon, PlacesAre DEF PlacesInv
<1>5. a \notin Staged \cup inflight \cup Completed BY Zenon, <1>1, <1>2, <1>3, <1>4 DEF Answered
<1> QED BY Zenon, <1>5 DEF a

(* What await_suspend stages. *)
LEMMA AwaitStages ==
  ASSUME TypeOK, OnceEach(sq), NEW j \in Jobs, NEW g \in 1 .. MaxStarts, NEW k \in Nat \ {0},
         NEW m, StageAwait(j, g, k), SuspendsAt(j, m, k), Awt(j, g) \notin Staged
  PROVE  /\ OnceEach(sq')
         /\ Staged' = IF k <= AwaitCount(j) THEN Staged \cup {Awt(j, g)} ELSE Staged
<1>0. Staged' = OpsIn(sq') BY DEF Staged, OpsIn, Elements
<1>1. CASE k <= AwaitCount(j)
  <2> DEFINE n == Awaits[j][k]
             a == Awt(j, g)
  <2>1. n \in {1, 2} /\ HasCapacity(sq, n) /\ sq' = Stage(sq, a, n)
    BY <1>1, ConstantsAssumption DEF AwaitCount, SuspendsAt, StageAwait
  <2>2. a \in Awaitable /\ a \notin OpsIn(sq) /\ sq \in Seq(Sqe(Awaitable))
    BY Zenon, AwaitableFields DEF Staged, TypeOK
  <2> HIDE DEF n, a
  <2>3. OpsIn(sq') = OpsIn(sq) \cup {a} /\ OnceEach(sq') BY Zenon, <2>1, <2>2, StagedOps
  <2> QED BY Zenon, <1>0, <1>1, <2>3 DEF a, Staged
<1>2. CASE ~(k <= AwaitCount(j)) BY Zenon, <1>0, <1>2 DEF StageAwait, Staged
<1> QED BY Zenon, <1>1, <1>2

LEMMA SpawnMoves ==
  ASSUME TypeOK, PlacesInv, OnceInv, NEW j \in Jobs, j \notin tasks, UNCHANGED <<inflight, cq, overwritten>>,
         Spawned(j) \/ \E k \in 1 .. AwaitCount(j) + 1 : SpawnThrowsLate(j, k)
  PROVE  FrameMoves /\ OnceInv'
<1>1. PICK k \in 1 .. AwaitCount(j) + 1 : SpawnResume(j, k) /\ (SpawnThrowsLate(j, k) \/ (k = 1 /\ Spawned(j)))
  <2>1. 1 \in 1 .. AwaitCount(j) + 1 BY CountType
  <2> QED BY <2>1 DEF Spawned, SpawnThrowsLate
<1> DEFINE a == Awt(j, started[j] + 1)
<1>2. a \notin Staged BY FreshAwaitable
<1>3. k \in Nat \ {0} /\ started[j] + 1 \in 1 .. MaxStarts BY Zenon, <1>1, SpawnResumeType
<1>4. OnceEach(sq') /\ Staged' = IF k <= AwaitCount(j) THEN Staged \cup {a} ELSE Staged
  BY ZenonT(30), <1>1, <1>2, <1>3, AwaitStages DEF SpawnResume, OnceInv
<1>5. Completed' = Completed /\ OnceEach(cq') BY DEF Completed, OnceInv
<1>6. OnceInv' BY Zenon, <1>4, <1>5 DEF OnceInv, OnceEach
<1>7. started' = [started EXCEPT ![j] = @ + 1] BY Zenon, <1>1 DEF SpawnResume
<1> HIDE DEF a, Staged, Completed
<1>8. \/ /\ k = 1 /\ at' = [at EXCEPT ![j] = 1] /\ tasks' = tasks \cup {j} /\ orphaned' = orphaned
      \/ /\ UNCHANGED <<at, tasks>>
         /\ orphaned' = IF k <= AwaitCount(j) THEN orphaned \cup {a} ELSE orphaned
  BY Zenon, <1>1 DEF Spawned, SpawnThrowsLate, a
<1>9. Starts(j) BY ZenonT(30), <1>2, <1>4, <1>5, <1>7, <1>8 DEF Starts, a
<1> QED BY Zenon, <1>6, <1>9 DEF FrameMoves

(* Before io_uring_enter: what is submitted is what was staged but for     *)
(* what was overwritten.                                                   *)
LEMMA ToSubmitOps ==
  ASSUME TypeOK, OnceEach(sq), ArmIfNeeded
  PROVE  /\ OnceEach(ToSubmit) /\ OpsIn(ToSubmit) \subseteq Staged
         /\ Staged \subseteq OpsIn(ToSubmit) \cup overwritten' /\ overwritten \subseteq overwritten'
<1>1. OnceEach(ToSubmit) /\ OpsIn(ToSubmit) \subseteq Staged
  BY ArmedOps DEF ToSubmit, Staged, TypeOK
<1>2. overwritten \subseteq overwritten' /\ Staged \subseteq OpsIn(ToSubmit) \cup overwritten'
  BY DEF ArmIfNeeded, Staged, OpsIn
<1> QED BY Zenon, <1>1, <1>2

LEMMA DrainMoves ==
  ASSUME TypeOK, PlacesInv, OnceInv, DrainEnter \/ DrainEnterFails
  PROVE  Submits /\ OnceInv'
<1> USE DEF signalVars, callVars, loopVars, coVars, kernelVars
<1> DEFINE q == ToSubmit
<1>0. Staged' = OpsIn(sq') /\ Completed' = OpsIn(cq') BY Zenon DEF Staged, Completed, OpsIn, Elements
<1>1. ArmIfNeeded BY DEF DrainEnter, DrainEnterFails
<1>2. /\ OnceEach(q) /\ OpsIn(q) \subseteq Staged /\ q \in Seq(Sqe(Awaitable))
      /\ Staged \subseteq OpsIn(q) \cup overwritten' /\ overwritten \subseteq overwritten'
  BY SMTT(30), <1>1, ToSubmitOps, ToSubmitType DEF OnceInv
<1>3. UNCHANGED <<tasks, at, started, orphaned>> BY DEF DrainEnter, DrainEnterFails
<1>4. OnePlace /\ OnceEach(cq) BY DEF PlacesInv, OnceInv
<1>5. CASE DrainEnterFails
  <2>1. sq' = q /\ UNCHANGED <<inflight, cq>> BY Zenon, <1>5 DEF DrainEnterFails
  <2> HIDE DEF q
  <2>2. OnceInv' BY Zenon, <1>2, <1>4, <2>1 DEF OnceInv, OnceEach
  <2>3. Staged' = OpsIn(q) /\ Completed' = Completed BY <1>0, <2>1 DEF Completed
  <2> QED BY Zenon, <1>2, <1>3, <1>4, <2>1, <2>2, <2>3 DEF Submits, OnePlace
<1>6. CASE DrainEnter
  <2> DEFINE taken == {i \in 1 .. Submittable(q) : q[i].kind = "op"}
  <2>1. sq' = Remaining(q) /\ inflight' = inflight \cup {q[i].awt : i \in taken}
    BY <1>6 DEF DrainEnter
  <2>2. \E n \in Nat : cq' = cq \o [i \in 1 .. n |-> NullCqe]
    <3> DEFINE refused == {i \in {i \in 1 .. Submittable(q) : q[i].kind = "timeout"} :
                             ~(i > 1 /\ q[i-1] = Op(q[i].awt))}
    <3>1. cq' = cq \o [i \in 1 .. Cardinality(refused) |-> NullCqe] BY Zenon, <1>6 DEF DrainEnter
    <3>2. Submittable(q) \in Nat /\ refused \subseteq 1 .. Submittable(q) BY <1>2, RemainingQueue
    <3> HIDE DEF refused, q
    <3>3. IsFiniteSet(1 .. Submittable(q)) BY <3>2, FS_Interval
    <3>4. Cardinality(refused) \in Nat BY ZenonT(30), <3>2, <3>3, FS_Subset, FS_CardinalityType
    <3> QED BY Zenon, <3>1, <3>4
  <2> HIDE DEF q
  <2>3. {q[i].awt : i \in taken} = Taken(q)
    <3>1. ASSUME NEW i \in taken PROVE q[i].awt \in Awaitable /\ q[i] = Op(q[i].awt)
      <4>1. q[i] \in Sqe(Awaitable) /\ q[i].kind = "op" BY <1>2, RemainingQueue
      <4> QED BY <4>1 DEF Sqe, Op, LinkTimeout, EventfdRead
    <3>2. ASSUME NEW a \in Awaitable, NEW i \in 1 .. Submittable(q), q[i] = Op(a)
          PROVE  i \in taken /\ q[i].awt = a
      BY <3>2 DEF Op
    <3> HIDE DEF taken
    <3>3. ASSUME NEW i \in taken PROVE i \in 1 .. Submittable(q)
      BY DEF taken
    <3> QED BY <3>1, <3>2, <3>3 DEF Taken
  <2>4. /\ OpsIn(q) = Taken(q) \cup OpsIn(Remaining(q)) /\ Taken(q) \cap OpsIn(Remaining(q)) = {}
        /\ OnceEach(Remaining(q))
    BY Zenon, <1>2, SubmittedOps
  <2>5. OpsIn(cq') = OpsIn(cq) /\ OnceEach(cq')
    <3>1. PICK n \in Nat : cq' = cq \o [i \in 1 .. n |-> NullCqe] BY Zenon, <2>2
    <3>2. cq \in Seq(Cqe) BY DEF TypeOK
    <3>3. [i \in 1 .. n |-> NullCqe] \in Seq(Cqe) BY DEF Cqe
    <3>4. \A a \in Awaitable : Op(a) # NullCqe BY DEF Op, NullCqe
    <3>5. /\ Len(cq') = Len(cq) + n
          /\ \A i \in 1 .. Len(cq') : cq'[i] = IF i <= Len(cq) THEN cq[i] ELSE NullCqe
      BY <3>1, <3>2, <3>3
    <3>6. \A a \in Awaitable, i \in 1 .. Len(cq') : cq'[i] = Op(a) => i \in 1 .. Len(cq) /\ cq[i] = Op(a)
      BY <3>2, <3>4, <3>5
    <3>7. \A i \in 1 .. Len(cq) : i \in 1 .. Len(cq') /\ cq'[i] = cq[i] BY <3>2, <3>5
    <3> QED BY Zenon, <1>4, <3>6, <3>7 DEF OpsIn, Elements, OnceEach
  <2>6. OnceInv' BY Zenon, <2>1, <2>4, <2>5 DEF OnceInv, OnceEach
  <2>7. /\ Staged' = OpsIn(Remaining(q)) /\ inflight' = inflight \cup Taken(q)
        /\ Completed' = Completed
    BY Zenon, <1>0, <2>1, <2>3, <2>5 DEF Completed
  <2>8. Staged \cap inflight = {} BY Zenon, <1>4 DEF OnePlace
  <2>9. Submits
    <3> HIDE DEF Staged, Completed
    <3> QED BY Zenon, <1>2, <1>3, <2>4, <2>7, <2>8 DEF Submits
  <2> QED BY <2>6, <2>9
<1> QED BY Zenon, <1>5, <1>6
-----------------------------------------------------------------------------
(* Every step of the Scheduler is one of the moves. *)
LEMMA FrameStep ==
  ASSUME TypeOK, LoopInv, FrameInv, [Next]_vars
  PROVE  FrameMoves /\ OnceInv' /\ ClosedInv'
<1> USE DEF memberVars, flags, signalVars, callVars, loopVars, driverVars, coVars,
            historyVars, jobVars, kernelVars, ringVars
<1> DEFINE Goal == FrameMoves /\ OnceInv' /\ ClosedInv'
<1> SUFFICES Goal OBVIOUS
<1>0. PlacesInv /\ OnceInv /\ ClosedInv /\ OnceEach(sq) /\ OnceEach(cq) /\ cq \in Seq(Cqe)
  BY DEF FrameInv, OnceInv, TypeOK
<1>h. /\ \A j \in Jobs : sent[j] = "no" => j \notin tasks
      /\ \A j \in Jobs : j \in Elements(Queue) => j \notin tasks
  BY DEF LoopInv, OneHome
<1> DEFINE Keeps == UNCHANGED <<sq, inflight, tasks, at, started, orphaned, overwritten>>
<1>k. ASSUME Keeps, OpsIn(cq') = Completed, OnceEach(cq'), ClosedInv' PROVE Goal
  <2>1. Still BY <1>k DEF Still, Staged, Completed
  <2>2. OnceInv' BY Zenon, <1>0, <1>k DEF OnceInv
  <2> QED BY Zenon, <1>k, <2>1, <2>2 DEF FrameMoves
<1>s. ASSUME Keeps, cq' = cq, ClosedInv' PROVE Goal
  <2>1. OpsIn(cq') = Completed /\ OnceEach(cq') BY Zenon, <1>0, <1>s DEF Completed
  <2> QED BY Zenon, <1>k, <1>s, <2>1
<1> HIDE DEF Goal
<1>1. ASSUME NEW j \in Jobs, PostPush(j) \/ PostWrite(j) PROVE Goal
  BY Zenon, <1>0, <1>1, <1>s DEF PostPush, PostWrite, ClosedInv
<1>2. CASE Owner
  BY ZenonT(30), <1>0, <1>2, <1>s DEF Owner, Start, RequestStop, StopCallback, Shutdown, Destroy, ClosedInv
<1>3. CASE Register \/ CheckRun \/ CheckShutdown \/ WaitReturns \/ WaitInterrupted
  BY Zenon, <1>0, <1>3, <1>s DEF Register, CheckRun, CheckShutdown, WaitReturns, WaitInterrupted, ClosedInv
<1>4. CASE InboxPoke \/ InboxDone
  BY Zenon, <1>0, <1>4, <1>s DEF InboxPoke, InboxDone, ClosedInv
<1>5. CASE Ended \/ UNCHANGED vars
  BY Zenon, <1>0, <1>5, <1>s DEF Ended, vars, ClosedInv
<1>6. ASSUME NEW c \in {EventfdRead, NullCqe}, Complete(c), UNCHANGED inflight PROVE Goal
  <2>1. cq' = Append(cq, c) /\ Keeps /\ ClosedInv' BY Zenon, <1>0, <1>6 DEF Complete, ClosedInv
  <2>2. c \in Cqe /\ \A a \in Awaitable : c # Op(a) BY DEF Cqe, EventfdRead, NullCqe, Op
  <2>3. OpsIn(cq') = Completed /\ OnceEach(cq') BY Zenon, <1>0, <2>1, <2>2, OtherAppended DEF Completed
  <2> QED BY Zenon, <1>k, <2>1, <2>3
<1>7. CASE EfdReadCompletes \/ EfdReadFails
  BY Zenon, <1>6, <1>7 DEF EfdReadCompletes, EfdReadFails
<1>8. ASSUME NEW a \in Awaitable, TimerCompletes(a) PROVE Goal
  BY Zenon, <1>6, <1>8 DEF TimerCompletes
<1>9. ASSUME NEW a \in Awaitable, OpCompletes(a) PROVE Goal
  <2>1. /\ cq' = Append(cq, Op(a)) /\ a \in inflight /\ inflight' = inflight \ {a} /\ ClosedInv'
        /\ UNCHANGED <<sq, tasks, at, started, orphaned, overwritten>>
    BY Zenon, <1>0, <1>9 DEF OpCompletes, Complete, ClosedInv
  <2>2. a \notin OpsIn(cq) BY Zenon, <1>0, <2>1 DEF PlacesInv, OnePlace, Completed
  <2>3. Op(a) \in Cqe BY DEF Cqe
  <2>4. OpsIn(cq') = OpsIn(cq) \cup {a} /\ OnceEach(cq') BY <1>0, <2>1, <2>2, <2>3, OpAppended
  <2>5. Completes(a) BY Zenon, <2>1, <2>4 DEF Completes, Staged, Completed
  <2>6. OnceInv' BY Zenon, <1>0, <2>1, <2>4 DEF OnceInv
  <2> QED BY Zenon, <2>1, <2>5, <2>6 DEF FrameMoves, Goal
<1>10. ASSUME NextCqe
       PROVE  /\ OnceEach(cq') /\ OpsIn(cq') = {a \in Completed : Head(cq) # Op(a)}
              /\ Head(cq) \in Elements(cq) /\ Head(cq) \in Cqe /\ pc = "cqe"
  <2>1. cq # <<>> /\ Head(cq) \in Cqe /\ cq' = Tail(cq) /\ pc = "cqe" BY Zenon, <1>10, NextCqeType DEF NextCqe
  <2>2. Head(cq) \in Elements(cq) BY Zenon, <1>0, <2>1, ElementsTail
  <2> QED BY Zenon, <1>0, <2>1, <2>2, TailOps DEF Completed
<1>11. CASE CqeEventfd \/ CqeNull
  <2>1. NextCqe /\ Head(cq) \in {EventfdRead, NullCqe} BY Zenon, <1>11 DEF CqeEventfd, CqeNull
  <2>2. Keeps /\ pc' # "closed" BY ZenonT(30), <1>10, <1>11, <2>1 DEF CqeEventfd, CqeNull, NextCqe
  <2>3. \A a \in Awaitable : Head(cq) # Op(a) BY <2>1 DEF EventfdRead, NullCqe, Op
  <2>4. OpsIn(cq') = Completed BY Zenon, <1>10, <2>1, <2>3 DEF Completed, OpsIn
  <2> QED BY Zenon, <1>k, <1>10, <2>1, <2>2, <2>4 DEF ClosedInv
<1> DEFINE a == Head(cq).awt
<1>12. ASSUME NextCqe, Head(cq).kind = "op"
       PROVE  /\ a \in Completed /\ OpsIn(cq') = Completed \ {a} /\ Head(cq) = Op(a)
  <2>1. Head(cq) \in Cqe BY Zenon, <1>10, <1>12
  <2>2. a \in Awaitable /\ Head(cq) = Op(a) BY <1>12, <2>1 DEF Cqe, Op, EventfdRead, NullCqe
  <2>3. a \in Completed BY Zenon, <1>10, <1>12, <2>2 DEF Completed, OpsIn
  <2>4. \A b \in Awaitable : Op(a) = Op(b) <=> a = b BY DEF Op
  <2>5. Completed \subseteq Awaitable BY Zenon DEF Completed, OpsIn
  <2> HIDE DEF a
  <2> QED BY Zenon, <1>10, <1>12, <2>2, <2>3, <2>4, <2>5
<1>13. CASE CqeDangling
  <2>1. /\ NextCqe /\ Head(cq).kind = "op" /\ ~Awaiting(a)
        /\ UNCHANGED <<sq, inflight, tasks, at, started, orphaned, overwritten>> /\ pc' = "crashed"
    BY Zenon, <1>13 DEF CqeDangling, NextCqe
  <2> HIDE DEF a
  <2>2. a \in Awaitable /\ Resumes(a)
    BY Zenon, <1>12, <2>1 DEF Resumes, Staged, Completed, OpsIn
  <2>3. OnceInv' /\ ClosedInv' BY Zenon, <1>0, <1>10, <2>1 DEF OnceInv, ClosedInv
  <2> QED BY Zenon, <2>2, <2>3 DEF FrameMoves, Goal
<1>14. CASE CqeOp
  <2> DEFINE j == a.job
  <2>1. /\ NextCqe /\ Head(cq).kind = "op" /\ Awaiting(a)
        /\ UNCHANGED <<inflight, tasks, started, orphaned, overwritten, pc>>
    BY Zenon, <1>14 DEF CqeOp, NextCqe
  <2>2. PICK k \in 1 .. AwaitCount(j) + 1 :
          /\ SuspendsAt(j, at[j] + 1, k) /\ StageAwait(j, started[j], k)
          /\ at' = [at EXCEPT ![j] = k]
    BY Zenon, <1>14 DEF CqeOp
  <2>3. a \in Completed /\ a \in Awaitable /\ OpsIn(cq') = Completed \ {a}
    BY ZenonT(30), <1>12, <2>1 DEF Completed, OpsIn
  <2> HIDE DEF a
  <2>4. a = Awt(j, started[j]) /\ j \in Jobs /\ a.gen \in 1 .. MaxStarts
    BY Zenon, <2>1, <2>3, AwaitableFields DEF Awaiting, Current
  <2>5. started[j] \in 1 .. MaxStarts BY <2>4 DEF Awt
  <2>6. k \in Nat \ {0} BY <2>2, <2>4, CountType
  <2>7. a \notin Staged BY Zenon, <1>0, <2>3 DEF PlacesInv, OnePlace
  <2>8. OnceEach(sq') /\ Staged' = IF k <= AwaitCount(j) THEN Staged \cup {a} ELSE Staged
    BY Zenon, <1>0, <2>2, <2>4, <2>5, <2>6, <2>7, AwaitStages
  <2>9. Completed' = Completed \ {a} BY Zenon, <2>3 DEF Completed
  <2>10. Resumes(a)
    <3> HIDE DEF Staged, Completed
    <3> QED BY Zenon, <2>1, <2>2, <2>3, <2>8, <2>9 DEF Resumes
  <2>11. OnceInv' /\ ClosedInv' BY ZenonT(30), <1>0, <1>10, <2>1, <2>8 DEF OnceInv, ClosedInv
  <2> QED BY Zenon, <2>3, <2>10, <2>11 DEF FrameMoves, Goal
<1>15. CASE Reap
  <2> DEFINE done == {j \in tasks : Done(j)}
  <2>1. Reaps(done) BY Zenon, <1>15 DEF Reap, Reaps, Staged, Completed
  <2>2. OnceInv' /\ ClosedInv' BY Zenon, <1>0, <1>15 DEF Reap, OnceInv, ClosedInv
  <2> QED BY Zenon, <2>1, <2>2 DEF FrameMoves, Goal
<1>16. CASE DrainEnter \/ DrainEnterFails
  <2>1. pc' # "closed" BY Zenon, <1>16 DEF DrainEnter, DrainEnterFails
  <2> QED BY Zenon, <1>0, <1>16, <2>1, DrainMoves DEF FrameMoves, ClosedInv, Goal
<1>17. ASSUME NEW j \in Jobs, NextTask(j) PROVE j \notin tasks /\ pc = "inbox"
  <2>1. pc = "inbox" /\ local # <<>> /\ j = Head(local) BY Zenon, <1>17 DEF NextTask
  <2>2. j \in Elements(local) BY ZenonT(30), <2>1, ElementsTail DEF TypeOK
  <2>3. j \in Elements(Queue) BY <2>2, ElementsConcat DEF Queue, TypeOK
  <2> QED BY Zenon, <1>h, <2>1, <2>3
<1>18. ASSUME NEW j \in Jobs, j \notin tasks, UNCHANGED <<inflight, cq, overwritten>>, pc' # "closed",
              Spawned(j) \/ \E k \in 1 .. AwaitCount(j) + 1 : SpawnThrowsLate(j, k)
       PROVE  Goal
  BY ZenonT(30), <1>0, <1>18, SpawnMoves DEF Goal, ClosedInv
<1>19. ASSUME NEW j \in Jobs, DirectSpawn(j) PROVE Goal
  <2>1. j \notin tasks /\ UNCHANGED <<inflight, cq, overwritten>> /\ pc' = "idle"
    BY Zenon, <1>h, <1>19 DEF DirectSpawn
  <2>2. CASE UNCHANGED <<coVars, orphaned, sq>> BY Zenon, <1>s, <2>1, <2>2 DEF ClosedInv
  <2> QED BY ZenonT(30), <1>18, <1>19, <2>1, <2>2 DEF DirectSpawn
<1>20. ASSUME NEW j \in Jobs, InboxSpawned(j) PROVE Goal
  <2>1. j \notin tasks /\ UNCHANGED <<inflight, cq, overwritten>> /\ pc' = "inbox" /\ Spawned(j)
    BY Zenon, <1>17, <1>20 DEF InboxSpawned
  <2> QED BY Zenon, <1>18, <2>1
<1>21. ASSUME NEW j \in Jobs, InboxRequeue(j) PROVE Goal
  <2>1. j \notin tasks /\ UNCHANGED <<inflight, cq, overwritten>> /\ pc' = "poke"
    BY Zenon, <1>17, <1>21 DEF InboxRequeue
  <2>2. CASE UNCHANGED <<coVars, orphaned, sq>> BY Zenon, <1>s, <2>1, <2>2 DEF ClosedInv
  <2>3. ASSUME NEW k \in 2 .. AwaitCount(j) + 1, SpawnThrowsLate(j, k) PROVE Goal
    <3>1. k \in 1 .. AwaitCount(j) + 1 BY CountType
    <3> QED BY Zenon, <1>18, <2>1, <2>3, <3>1
  <2> QED BY ZenonT(30), <1>21, <2>2, <2>3 DEF InboxRequeue
<1>22. ASSUME NEW j \in Jobs, InboxDropped(j) PROVE Goal
  <2>1. /\ j \notin tasks /\ UNCHANGED <<inflight, cq, overwritten>> /\ pc' = "inbox"
        /\ SpawnThrowsLate(j, 1)
    BY Zenon, <1>17, <1>22 DEF InboxDropped
  <2>2. 1 \in 1 .. AwaitCount(j) + 1 BY CountType
  <2> QED BY Zenon, <1>18, <2>1, <2>2
<1> HIDE DEF a, Keeps
<1> QED
  BY Zenon, <1>1, <1>2, <1>3, <1>4, <1>5, <1>7, <1>8, <1>9, <1>11, <1>13, <1>14, <1>15, <1>16,
     <1>19, <1>20, <1>21, <1>22 DEF Next, Clients, Loop, Handler, Kernel

LEMMA FrameInit == Init => FrameInv
<1> SUFFICES ASSUME Init PROVE FrameInv OBVIOUS
<1>1. sq = <<>> /\ cq = <<>> /\ inflight = {} /\ orphaned = {} /\ \A j \in Jobs : at[j] = 0
  BY DEF Init
<1>2. Staged = {} /\ Completed = {} BY <1>1 DEF Staged, Completed, OpsIn, Elements
<1>3. OnceInv /\ ClosedInv BY <1>1 DEF Init, OnceInv, OnceEach, ClosedInv
<1>4. Kept /\ Answered BY <1>1, <1>2 DEF Kept, Answered
<1>5. PlacesInv
  BY Zenon, <1>1, <1>2, <1>4, InitType, PlacesAre DEF PlacesInv, Owned, Bygone, OnePlace
<1> QED BY <1>3, <1>5 DEF FrameInv

(* The frame invariant holds in every reachable state: an operation is     *)
(* staged, in flight or completed but never two of them, nor twice.        *)
THEOREM FrameInvariant == Spec => []FrameInv
<1>1. TypeOK /\ TypeOK' /\ LoopInv /\ FrameInv /\ [Next]_vars => FrameInv'
  BY Zenon, FrameStep, MovesKeepPlaces DEF FrameInv
<1>2. TypeOK /\ LoopInv /\ [Next]_vars => LoopInv'
  BY LoopStep, MovesKeepHome DEF LoopInv
<1> QED BY <1>1, <1>2, FrameInit, LoopInit, TypeCorrect, PTL DEF Spec

(* A suspended coroutine is resumed in the end, unless arm_eventfd_read()  *)
(* overwrites its SQE: its operation is staged, in flight or completed.    *)
THEOREM SuspendedReachable == Spec => []OnlyArmingLoses
<1>1. FrameInv => OnlyArmingLoses BY Zenon DEF FrameInv, PlacesInv
<1> QED BY <1>1, FrameInvariant, PTL

(* A completion finds the frame that awaits it, unless spawn() destroyed   *)
(* that frame by throwing after it had resumed it.                         *)
THEOREM CompletionsFindFrames == Spec => []OnlyLateThrowDangles
<1>1. FrameInv => OnlyLateThrowDangles BY DEF FrameInv, PlacesInv
<1> QED BY <1>1, FrameInvariant, PTL

(* After ~Scheduler the kernel refers to no frame but those a late throw   *)
(* left behind: the destructor's shutdown() has flushed every task.        *)
THEOREM DestructorFlushes == Spec => []QuiescentWhenDestroyed
<1>1. TypeOK /\ FrameInv => QuiescentWhenDestroyed
  <2> SUFFICES ASSUME TypeOK, FrameInv, pc = "closed", NEW a \in Awaitable, Reaches(a) PROVE a \in orphaned
    BY Zenon DEF QuiescentWhenDestroyed
  <2>1. at[a.job] = 0
    BY AwaitableFields DEF FrameInv, PlacesInv, Owned, ClosedInv
  <2> QED BY <2>1, CountType, AwaitableFields
      DEF FrameInv, PlacesInv, OnlyLateThrowDangles, Awaiting, Suspended
<1> QED BY <1>1, FrameInvariant, TypeCorrect, PTL
=============================================================================
