-------------------------- MODULE CoroutinesProofs --------------------------
(***************************************************************************)
(* Every action of Coroutines makes one of the moves of TaskFramesProofs,  *)
(* for every program whose main leaves its coroutines to the Scheduler.    *)
(***************************************************************************)
EXTENDS Coroutines, TaskFramesProofs

(* main spawns its coroutines and drives no Task by hand. *)
Scheduled ==
  \A i \in 1 .. Len(prog.main) : prog.main[i].do \notin {"make", "move", "resume"}

-----------------------------------------------------------------------------
(* What the operations of SubmissionQueue, of whatever size, do to the     *)
(* operations in a queue.                                                  *)
LEMMA CommitRoom ==
  ASSUME NEW n \in Nat \ {0}, NEW S, NEW q \in Seq(S), NEW e \in S, Len(q) + 1 <= n
  PROVE  Q(n)!Commit(q, e) = Append(q, e)
<1> DEFINE p == Q(n)!Commit(q, e)
<1>1. p = [i \in 1 .. Len(q) + 1 |-> IF (Len(q) + 1 - i) % n = 0 THEN e ELSE q[i]]
  BY DEF Q!Commit
<1> HIDE DEF p
<1>2. Len(q) \in Nat /\ (Len(q) + 1 - (Len(q) + 1)) % n = 0 OBVIOUS
<1>3. ASSUME NEW i \in 1 .. Len(q) PROVE (Len(q) + 1 - i) % n # 0
  <2>1. Len(q) + 1 - i \in 1 .. n - 1 BY <1>2
  <2> QED BY <2>1
<1>4. \A i \in 1 .. Len(q) + 1 : p[i] = IF i = Len(q) + 1 THEN e ELSE q[i] BY <1>1, <1>2, <1>3
<1>5. p \in Seq(S) /\ Len(p) = Len(q) + 1
  <2>1. \A i \in 1 .. Len(q) + 1 : p[i] \in S BY <1>4
  <2> QED BY <1>1, <1>2, <2>1
<1>6. p = Append(q, e) BY <1>4, <1>5, SeqExtensional
<1> QED BY <1>6 DEF p

LEMMA StagedOps ==
  ASSUME NEW n \in Nat \ {0}, NEW M, NEW q \in Seq(Sqes(M)), NEW a \in M, a \notin OpsOf(q, M), OnceIn(q, M),
         NEW k \in {1, 2}, Q(n)!HasCapacity(q, k)
  PROVE  LET p == Q(n)!Stage(q, a, k)
         IN  p \in Seq(Sqes(M)) /\ OpsOf(p, M) = OpsOf(q, M) \cup {a} /\ OnceIn(p, M)
<1> DEFINE p == Append(q, OpSqe(a))
<1>0. OpSqe(a) \in Sqes(M) /\ TimerSqe(a) \in Sqes(M) BY SqeKinds
<1>1. Len(q) + k <= n /\ Len(q) \in Nat BY DEF Q!HasCapacity
<1>2. Q(n)!Commit(q, OpSqe(a)) = p BY <1>0, <1>1, CommitRoom
<1>3. p \in Seq(Sqes(M)) /\ Len(p) = Len(q) + 1 /\ OpsOf(p, M) = OpsOf(q, M) \cup {a} /\ OnceIn(p, M)
  BY OpAppended
<1> HIDE DEF p
<1>4. CASE k = 1
  <2>1. Q(n)!Stage(q, a, k) = p BY <1>2, <1>4 DEF Q!Stage, Q!Op, OpSqe
  <2> QED BY <1>3, <2>1
<1>5. CASE k = 2
  <2>1. Q(n)!Stage(q, a, k) = Q(n)!Commit(p, TimerSqe(a))
    BY <1>2, <1>5 DEF Q!Stage, Q!Op, OpSqe, Q!LinkTimeout, TimerSqe
  <2>2. Q(n)!Commit(p, TimerSqe(a)) = Append(p, TimerSqe(a)) BY <1>0, <1>1, <1>3, <1>5, CommitRoom
  <2>3. /\ Append(p, TimerSqe(a)) \in Seq(Sqes(M)) /\ OpsOf(Append(p, TimerSqe(a)), M) = OpsOf(p, M)
        /\ OnceIn(Append(p, TimerSqe(a)), M)
    BY <1>3, TimerAppended
  <2> QED BY <1>3, <2>1, <2>2, <2>3
<1> QED BY <1>4, <1>5

(* Arming may overwrite operations and adds none. *)
LEMMA ArmedOps ==
  ASSUME NEW n \in Nat \ {0}, NEW M, NEW q \in Seq(Sqes(M)), OnceIn(q, M)
  PROVE  LET p == Q(n)!Arm(q)
         IN  p \in Seq(Sqes(M)) /\ OpsOf(p, M) \subseteq OpsOf(q, M) /\ OnceIn(p, M)
<1> DEFINE p == Q(n)!Arm(q)
<1>1. p = [i \in 1 .. Len(q) + 1 |-> IF (Len(q) + 1 - i) % n = 0 THEN EventSqe ELSE q[i]]
  BY DEF Q!Arm, Q!Commit, Q!EventfdRead, EventSqe
<1>0. EventSqe \in Sqes(M) /\ \A b : OpSqe(b) # EventSqe BY DEF Sqes, OpSqe, EventSqe
<1>2. Len(q) \in Nat /\ (Len(q) + 1 - (Len(q) + 1)) % n = 0 OBVIOUS
<1> HIDE DEF p
<1>3. \A i \in 1 .. Len(q) + 1 : p[i] = EventSqe \/ (i \in 1 .. Len(q) /\ p[i] = q[i])
  BY <1>1, <1>2
<1>4. p \in Seq(Sqes(M)) /\ Len(p) = Len(q) + 1
  <2>1. \A i \in 1 .. Len(q) + 1 : p[i] \in Sqes(M) BY <1>0, <1>3
  <2> QED BY <1>1, <1>2, <2>1
<1>5. \A b \in M, i \in 1 .. Len(p) : p[i] = OpSqe(b) => i \in 1 .. Len(q) /\ q[i] = OpSqe(b)
  BY <1>0, <1>3, <1>4
<1>6. OpsOf(p, M) \subseteq OpsOf(q, M) BY <1>5 DEF OpsOf, Elements
<1>7. OnceIn(p, M) BY <1>5 DEF OnceIn
<1> QED BY <1>4, <1>6, <1>7 DEF p

LEMMA SubmittedOps ==
  ASSUME NEW n \in Nat \ {0}, NEW M, NEW q \in Seq(Sqes(M)), OnceIn(q, M)
  PROVE  LET k == Q(n)!Submittable(q)
             r == Q(n)!Remaining(q)
         IN  /\ r \in Seq(Sqes(M)) /\ OnceIn(r, M)
             /\ OpsOf(q, M) = Taken(q, k, M) \cup OpsOf(r, M) /\ Taken(q, k, M) \cap OpsOf(r, M) = {}
<1> DEFINE k == Q(n)!Submittable(q)
           r == SubSeq(q, k + 1, Len(q))
           s == SubSeq(q, 1, k)
<1>0. Q(n)!Remaining(q) = r BY DEF Q!Remaining
<1>1. Len(q) \in Nat /\ k \in 0 .. Len(q) BY DEF Q!Submittable
<1> HIDE DEF k
<1>2. /\ r \in Seq(Sqes(M)) /\ Len(r) = Len(q) - k /\ \A i \in 1 .. Len(q) - k : r[i] = q[k + i]
  <2>1. /\ r \in Seq(Sqes(M)) /\ Len(r) = Len(q) - (k + 1) + 1
        /\ \A i \in 1 .. Len(q) - (k + 1) + 1 : r[i] = q[k + 1 + i - 1]
    BY <1>1, Slice
  <2> HIDE DEF r
  <2> QED BY <1>1, <2>1
<1>3. Len(s) = k /\ \A i \in 1 .. k : s[i] = q[i]
  <2>1. Len(s) = k - 1 + 1 /\ \A i \in 1 .. k - 1 + 1 : s[i] = q[1 + i - 1] BY <1>1, Slice
  <2> HIDE DEF s
  <2> QED BY <1>1, <2>1
<1> HIDE DEF r, s
<1>4. OpsOf(q, M) = {a \in M : \E i \in 1 .. Len(q) : q[i] = OpSqe(a)} BY DEF OpsOf, Elements
<1>5. Taken(q, k, M) = {a \in M : \E i \in 1 .. k : q[i] = OpSqe(a)}
  BY Zenon, <1>3 DEF Taken, Elements, s
<1>6. OpsOf(r, M) = {a \in M : \E i \in k + 1 .. Len(q) : q[i] = OpSqe(a)}
  <2>1. ASSUME NEW a \in M, NEW i \in k + 1 .. Len(q), q[i] = OpSqe(a) PROVE a \in OpsOf(r, M)
    <3>1. i - k \in 1 .. Len(q) - k /\ r[i - k] = q[i] BY <1>1, <1>2
    <3> QED BY <1>2, <2>1, <3>1 DEF OpsOf, Elements
  <2>2. ASSUME NEW a \in OpsOf(r, M) PROVE \E i \in k + 1 .. Len(q) : q[i] = OpSqe(a)
    <3>1. PICK i \in 1 .. Len(q) - k : r[i] = OpSqe(a) BY <1>2 DEF OpsOf, Elements
    <3>2. k + i \in k + 1 .. Len(q) /\ q[k + i] = OpSqe(a) BY <1>1, <1>2, <3>1
    <3> QED BY <3>2
  <2>3. OpsOf(r, M) \subseteq M BY DEF OpsOf
  <2> QED BY <2>1, <2>2, <2>3
<1>7. OpsOf(q, M) = Taken(q, k, M) \cup OpsOf(r, M) BY <1>1, <1>4, <1>5, <1>6
<1>8. Taken(q, k, M) \cap OpsOf(r, M) = {}
  <2> SUFFICES ASSUME NEW a \in M, NEW i \in 1 .. k, NEW m \in k + 1 .. Len(q), q[i] = OpSqe(a), q[m] = OpSqe(a)
               PROVE  FALSE
    BY <1>5, <1>6
  <2>1. i \in 1 .. Len(q) /\ m \in 1 .. Len(q) /\ i # m BY <1>1
  <2> QED BY <2>1 DEF OnceIn
<1>9. OnceIn(r, M)
  <2> SUFFICES ASSUME NEW a \in M, NEW i \in 1 .. Len(r), NEW m \in 1 .. Len(r), r[i] = OpSqe(a), r[m] = OpSqe(a)
               PROVE  i = m
    BY DEF OnceIn
  <2>1. k + i \in 1 .. Len(q) /\ k + m \in 1 .. Len(q) /\ q[k + i] = OpSqe(a) /\ q[k + m] = OpSqe(a)
    BY <1>1, <1>2
  <2>2. k + i = k + m BY <2>1 DEF OnceIn
  <2> QED BY <1>1, <1>2, <2>2
<1> QED BY <1>0, <1>2, <1>7, <1>8, <1>9 DEF k

-----------------------------------------------------------------------------
(* The running coroutine. *)
LEMMA RefuseInv ==
  ASSUME CoroutineInv, Refuse
  PROVE  CoroutineInv'
<1>1. cur # 0 /\ Stmt(cur).do = "await" BY DEF Refuse, Running
<1>2. cur \in Made /\ Child[cur] = 0 /\ Cleared(frames, {}, cur) BY <1>1, NoInner
<1>3. frames' = [frames EXCEPT ![cur].pc = @ + 1] /\ cur' = cur /\ prog' = prog BY DEF Refuse, Yields
<1>4. Goes({}, cur) BY ZenonT(30), <1>2, <1>3, YieldsGoes DEF CoroutineInv
<1>5. RunKeeps BY <1>1, <1>2 DEF Refuse, RunKeeps, ring, Root
<1> QED BY <1>2, <1>4, <1>5, RunStep

LEMMA PlainInv ==
  ASSUME CoroutineInv, Plain
  PROVE  CoroutineInv'
<1>1. cur # 0 /\ Stmt(cur).do # "call" BY DEF Plain, Running
<1>2. cur \in Made \ {} /\ Child[cur] = 0 /\ Cleared(frames, {}, cur) BY <1>1, NoInner
<1>3. RunKeeps BY <1>1 DEF Plain, RunKeeps, ring, ghosts
<1>4. Goes({}, cur)
  <2>0. TypeInv /\ prog' = prog BY <1>3 DEF CoroutineInv, RunKeeps
  <2>1. \/ \E x : Yields(cur, x, frames)
        \/ \E x : frames' = [frames EXCEPT ![cur].pc = x] /\ cur' = cur
        \/ \E x, y : Finish(cur, x, y, frames)
    BY DEF Plain
  <2>2. ASSUME NEW x, Yields(cur, x, frames) PROVE Goes({}, cur)
    <3>1. frames' = [frames EXCEPT ![cur].pc = @ + 1] /\ cur' = cur BY <2>2 DEF Yields
    <3> QED BY Zenon, <1>2, <2>0, <3>1, YieldsGoes
  <2>3. ASSUME NEW x, frames' = [frames EXCEPT ![cur].pc = x] /\ cur' = cur PROVE Goes({}, cur)
    BY Zenon, <1>2, <2>0, <2>3, YieldsGoes
  <2>4. ASSUME NEW x, NEW y, Finish(cur, x, y, frames) PROVE Goes({}, cur)
    BY <1>2, <2>0, <2>4, FinishGoes
  <2> QED BY <2>1, <2>2, <2>3, <2>4
<1> QED BY <1>2, <1>3, <1>4, RunStep

LEMMA AwaitResumeInv ==
  ASSUME CoroutineInv, AwaitResume
  PROVE  CoroutineInv'
<1> DEFINE c     == frames[cur].child
           fr    == [Destroy(frames, {c}) EXCEPT ![cur].child = 0]
           inner == ResultOf(frames, c)
<1> USE DEF CoroutineInv
<1>0. RunKeeps BY DEF AwaitResume, Running, RunKeeps, ring, ghosts
<1>1. cur \in Made /\ Child[cur] = c /\ c # 0 BY <1>0, Types DEF RunKeeps, Child, AwaitResume
<1>2. c \in Made /\ St[c] = "final" /\ Child[c] = 0 /\ c # cur
  <2>1. c \in Made /\ 0 \notin Made BY <1>1, Types
  <2>2. St[c] = "final" /\ St[cur] = "started" BY <1>1, <2>1 DEF RunInv
  <2>3. Child[c] = 0 BY <2>1, <2>2 DEF TreeInv
  <2> QED BY <2>1, <2>2, <2>3
<1>3. IF inner.exc # "" THEN Throws(cur, inner.exc, fr) ELSE Yields(cur, inner.val, fr) BY DEF AwaitResume
<1> HIDE DEF c
<1>4. Owned(frames, {c}) = {c}
  <2>1. /\ {c} \subseteq Owned(frames, {c})
        /\ \A C \in SUBSET Made :
             {c} \subseteq C /\ (\A f \in C : Child[f] \in C \cup {0}) => Owned(frames, {c}) \subseteq C
    BY <1>2, OwnedSet
  <2> QED BY <1>2, <2>1
<1>5. Cleared(fr, {c}, cur) /\ cur \in Made \ {c} BY <1>1, <1>2, <1>4, ClearedInner
<1>6. prog' = prog BY <1>0 DEF RunKeeps
<1> HIDE DEF fr, inner
<1>7. Goes({c}, cur)
  <2>1. CASE inner.exc # "" BY <1>3, <1>5, <1>6, <2>1, ThrowsGoes
  <2>2. CASE inner.exc = ""
    <3>1. frames' = [fr EXCEPT ![cur].pc = @ + 1] /\ cur' = cur BY <1>3, <2>2 DEF Yields
    <3> QED BY Zenon, <1>1, <1>5, <1>6, <3>1, YieldsGoes
  <2> QED BY <2>1, <2>2
<1> QED BY <1>0, <1>1, <1>7, RunStep

-----------------------------------------------------------------------------
(* spawn() *)
LEMMA SpawnFullInv ==
  ASSUME CoroutineInv, NEW by \in 0 .. Len(frames), SpawnFull(by)
  PROVE  CoroutineInv'
<1>1. CASE by = 0
  <2>1. at = "main" BY <1>1 DEF SpawnFull, Spawning, InMain
  <2>2. frames' = frames /\ cur' = 0 /\ mpc' \in {mpc, mpc + 1} /\ at' \in {"main", "aborted"}
    BY <1>1 DEF SpawnFull, SpawnThrows
  <2>3. cur = 0 BY <2>1 DEF CoroutineInv, RunInv
  <2>4. Idles /\ cq' = cq BY <2>1, <2>2, <2>3 DEF Idles, SpawnFull, ring, ghosts
  <2> QED BY <2>4, IdlesInv
<1>2. CASE by # 0
  <2>1. cur = by /\ cur # 0 /\ Stmt(cur).do = "spawn" /\ at = "code" BY <1>2 DEF SpawnFull, Spawning, Running
  <2>2. cur \in Made \ {} /\ Child[cur] = 0 /\ Cleared(frames, {}, cur) BY <2>1, NoInner
  <2>3. Throws(cur, "SQFull", frames) /\ at' = "code" /\ mpc' = mpc BY <1>2, <2>1 DEF SpawnFull, SpawnThrows
  <2>4. RunKeeps BY <2>1, <2>3 DEF SpawnFull, RunKeeps, ring, ghosts
  <2>5. prog' = prog BY DEF SpawnFull
  <2>6. Goes({}, cur) BY <2>2, <2>3, <2>5, ThrowsGoes DEF CoroutineInv
  <2> QED BY <2>2, <2>4, <2>6, RunStep
<1> QED BY <1>1, <1>2

LEMMA SpawnLateThrowInv ==
  ASSUME CoroutineInv, SpawnLateThrow
  PROVE  CoroutineInv'
<1> DEFINE D  == Owned(frames, {Top.task})
           fr == Destroy(frames, {Top.task})
<1>1. at = "code" /\ cur = 0 /\ Top.by = "spawn" BY DEF SpawnLateThrow, ReturnedTo, Top
<1>2. SpawnThrows(Top.caller, fr) /\ prog' = prog BY DEF SpawnLateThrow, Top
<1>3. PopKeeps(D) BY <1>1 DEF SpawnLateThrow, PopKeeps, ring, Top
<1>4. CASE Top.caller = 0
  <2>1. /\ frames' = Destroy(frames, {Top.task}) /\ cur' = 0 /\ at' \in {"main", "aborted"} /\ mpc' \in {mpc, mpc + 1}
    BY <1>2, <1>4 DEF SpawnThrows
  <2>2. Advances(D, 0, FALSE) BY Zenon, <1>2, <2>1, DestroyAdvances DEF CoroutineInv
  <2>3. Returns(D) BY ZenonT(30), <1>4, <2>1, <2>2 DEF Returns
  <2> QED BY <1>3, <2>3, PopStep
<1>5. CASE Top.caller # 0
  <2>1. Throws(Top.caller, "SQFull", fr) /\ at' = "code" /\ mpc' = mpc BY <1>2, <1>5 DEF SpawnThrows
  <2>2. Top.caller \in Made \ D /\ Child[Top.caller] = 0 BY <1>1, <1>5, SpawnCaller
  <2>3. Cleared(fr, D, Top.caller) BY <2>2, ClearedDestroyed DEF CoroutineInv
  <2> HIDE DEF fr, D
  <2>4. Goes(D, Top.caller) BY Zenon, <1>2, <2>1, <2>2, <2>3, ThrowsGoes DEF CoroutineInv
  <2>5. Returns(D) BY Zenon, <1>5, <2>1, <2>4 DEF Returns
  <2> QED BY <1>3, <2>5, PopStep
<1> QED BY <1>4, <1>5

LEMMA SpawnPushInv ==
  ASSUME CoroutineInv, SpawnPush
  PROVE  CoroutineInv'
<1>1. at = "code" /\ cur = 0 /\ Top.by = "spawn" BY DEF SpawnPush, ReturnedTo, Top
<1>2. SpawnReturns(Top.caller) /\ prog' = prog BY DEF SpawnPush, Top
<1>3. PopKeeps({})
  <2>1. tl_sq_full' = FALSE
    <3>1. tl_sq_full \in BOOLEAN /\ ~tl_sq_full /\ tl_sq_full' = tl_sq_full BY DEF CoroutineInv, TypeInv, SpawnPush
    <3> QED BY Zenon, <3>1
  <2> QED BY <1>1, <2>1 DEF SpawnPush, PopKeeps, ring, ghosts, Top
<1>4. CASE Top.caller = 0
  <2>1. frames' = frames /\ cur' = 0 /\ at' = "main" /\ mpc' = mpc + 1 BY <1>2, <1>4 DEF SpawnReturns
  <2>2. Advances({}, 0, FALSE) BY Zenon, <1>2, <2>1, StayAdvances DEF CoroutineInv
  <2>3. Returns({}) BY ZenonT(30), <1>4, <2>1, <2>2 DEF Returns
  <2> QED BY <1>3, <2>3, PopStep
<1>5. CASE Top.caller # 0
  <2>1. frames' = [frames EXCEPT ![Top.caller].pc = @ + 1] /\ cur' = Top.caller /\ at' = "code" /\ mpc' = mpc
    BY <1>2, <1>5 DEF SpawnReturns, Yields
  <2>2. Top.caller \in Made /\ Child[Top.caller] = 0 BY <1>1, <1>5, SpawnCaller
  <2>3. Cleared(frames, {}, Top.caller) BY <2>2, ClearedNone DEF CoroutineInv
  <2>4. Goes({}, Top.caller) BY Zenon, <1>2, <2>1, <2>2, <2>3, YieldsGoes DEF CoroutineInv
  <2>5. Returns({}) BY <1>5, <2>1, <2>4 DEF Returns
  <2> QED BY <1>3, <2>5, PopStep
<1> QED BY <1>4, <1>5

LEMMA CoAwaitInv ==
  ASSUME CoroutineInv, CoAwait
  PROVE  CoroutineInv'
<1> USE DEF CoroutineInv
<1> DEFINE n  == NewFrame
           fr == [frames EXCEPT ![cur].child = n]
<1>0. cur \in Made /\ cur # 0 /\ Doing[cur] = "call" /\ Child[cur] = 0 /\ at = "code" /\ prog' = prog
  BY Types DEF CoAwait, Running, Doing, Child
<1>1. Root[cur] = frames[cur].root /\ Root[cur] \in Made \cup {n} BY <1>0, Types DEF Root
<1>2. Holding(fr, cur)
  <2> DEFINE r == [frames[cur] EXCEPT !.child = n]
             u == [frames EXCEPT ![cur] = r]
  <2>1. IsFrames(frames) /\ cur \in 1 .. Len(frames) BY <1>0 DEF TypeInv, Made
  <2>2. r = LET q == frames[cur] IN Fields(q.fn, q.pc, q.cont, n, q.root, q.exc, q.val, q.st)
    BY Zenon, <2>1, ChildField DEF IsFrames
  <2>3. fr = u OBVIOUS
  <2> HIDE DEF r
  <2>4. IsFrame(r) BY <2>2 DEF IsFrame, Fields
  <2>5. Updated(u, frames, cur, r) BY <2>1, <2>4, UpdateFrame
  <2> HIDE DEF u
  <2>6. /\ r.fn = frames[cur].fn /\ r.pc = frames[cur].pc /\ r.st = frames[cur].st
        /\ r.cont = frames[cur].cont /\ r.root = frames[cur].root /\ r.child = n
    BY <2>2 DEF Fields
  <2>7. Holding(u, cur) BY ZenonT(30), <2>1, <2>5, <2>6 DEF Holding, Updated, Made
  <2> QED BY ZenonT(30), <2>3, <2>7
<1>3. frames' = Append(fr, [Frame(Stmt(cur).fn, cur, Root[cur]) EXCEPT !.st = "started"])
  BY <1>1 DEF CoAwait
<1> HIDE DEF fr
<1>4. GrownFrames(cur, Root[cur]) BY Zenon, <1>0, <1>2, <1>3, FrameAppended
<1>5. OpsInv' /\ UNCHANGED <<Staged, inflight, Completed>> BY ZenonT(30), <1>4, GrownOps DEF GrownFrames, CoAwait, ring
<1>6. Awaits BY <1>0, <1>4, <1>5 DEF Awaits, Grown, GrownFrames, CoAwait, ring, ghosts
<1>7. TreeInv' /\ RunInv' /\ PendInv' /\ FlagInv' BY Zenon, <1>6, AwaitsInv
<1>8. TypeInv'
  <2>0. Made' = Made \cup {n} /\ Len(frames') = n /\ n = Len(frames) + 1 /\ Len(frames) \in Nat
    BY ZenonT(30), <1>4, Types DEF GrownFrames, NewFrame
  <2>1. calls' \in Seq([by : {"spawn", "drain"}, task : Made', caller : 0 .. Len(frames')])
    <3> DEFINE B == [by : {"spawn", "drain"}, task : Made, caller : 0 .. Len(frames)]
               C == [by : {"spawn", "drain"}, task : Made', caller : 0 .. Len(frames')]
    <3>1. 0 .. Len(frames) \subseteq 0 .. Len(frames') /\ Made \subseteq Made' BY <2>0
    <3>2. B \subseteq C BY <3>1
    <3>3. calls \in Seq(B) /\ calls' = calls BY DEF TypeInv, CoAwait
    <3> HIDE DEF B, C
    <3>4. calls' \in Seq(C) BY <3>2, <3>3
    <3> QED BY <3>4 DEF C
  <2>2. /\ at' = "code" /\ cur' = NewFrame /\ UNCHANGED <<mpc, tasks, sq, inflight, cq, tl_sq_full, refused>>
    BY <1>0 DEF CoAwait, ring, ghosts
  <2> QED BY Zenon, <1>0, <1>1, <1>4, <2>1, <2>2, GrownTypes
<1> QED BY ZenonT(30), <1>5, <1>7, <1>8

LEMMA SpawnResumeInv ==
  ASSUME CoroutineInv, NEW by \in 0 .. Len(frames), SpawnResume(by)
  PROVE  CoroutineInv'
<1> USE DEF CoroutineInv
<1> DEFINE n == NewFrame
           c == [by |-> "spawn", task |-> n, caller |-> by]
<1>0. by \in Made \cup {0} /\ 0 \notin Made /\ prog' = prog BY Types DEF SpawnResume
<1>1. IF by = 0 THEN calls = <<>> ELSE cur = by /\ Doing[by] = "spawn"
  <2>1. CASE by = 0 BY <2>1 DEF SpawnResume, Spawning, InMain, RunInv
  <2>2. CASE by # 0 BY ZenonT(30), <1>0, <2>2 DEF SpawnResume, Spawning, Running, Doing
  <2> QED BY ZenonT(30), <2>1, <2>2
<1>2. Holding(frames, 0) BY <1>0 DEF Holding, TypeInv
<1>3. frames' = Append(frames, [Frame(SpawnStmt(by).fn, 0, n) EXCEPT !.st = "started"]) BY DEF SpawnResume
<1>4. GrownFrames(0, n) BY Zenon, <1>0, <1>2, <1>3, FrameAppended
<1>5. OpsInv' /\ UNCHANGED <<Staged, inflight, Completed>> BY Zenon, <1>4, GrownOps DEF GrownFrames, SpawnResume, ring
<1>6. Spawns(by) BY ZenonT(30), <1>1, <1>4, <1>5 DEF Spawns, Grown, GrownFrames, SpawnResume, ring, ghosts
<1>7. TreeInv' /\ RunInv' /\ PendInv' /\ FlagInv' BY Zenon, <1>0, <1>6, SpawnsInv
<1>8. TypeInv'
  <2>0. Made' = Made \cup {n} /\ Len(frames') = n /\ n = Len(frames) + 1 /\ Len(frames) \in Nat
    BY <1>4, Types DEF GrownFrames, NewFrame
  <2>1. calls' \in Seq([by : {"spawn", "drain"}, task : Made', caller : 0 .. Len(frames')])
    <3> DEFINE B == [by : {"spawn", "drain"}, task : Made, caller : 0 .. Len(frames)]
               C == [by : {"spawn", "drain"}, task : Made', caller : 0 .. Len(frames')]
    <3>1. /\ 0 .. Len(frames) \subseteq 0 .. Len(frames') /\ Made \subseteq Made' /\ n \in Made'
          /\ by \in 0 .. Len(frames')
      BY <2>0
    <3>2. B \subseteq C /\ c \in C BY ZenonT(30), <3>1
    <3>3. calls \in Seq(B) /\ calls' = Append(calls, c) BY DEF TypeInv, SpawnResume
    <3> HIDE DEF B, C, c
    <3>4. calls' \in Seq(C)
      <4>1. calls \in Seq(C) BY <3>2, <3>3
      <4> QED BY <3>2, <3>3, <4>1
    <3> QED BY <3>4 DEF C
  <2>2. /\ at' = "code" /\ cur' = NewFrame /\ UNCHANGED <<mpc, tasks, sq, inflight, cq, tl_sq_full, refused>>
    BY DEF SpawnResume, ring, ghosts
  <2> QED BY Zenon, <1>0, <1>4, <2>1, <2>2, GrownTypes
<1> QED BY ZenonT(30), <1>5, <1>7, <1>8

-----------------------------------------------------------------------------
(* The ring. *)
LEMMA SuspendInv ==
  ASSUME CoroutineInv, Suspend
  PROVE  CoroutineInv'
<1> USE DEF CoroutineInv
<1> DEFINE n == prog.size
           k == Slots(OpOf(cur))
<1>0. cur # 0 /\ Stmt(cur).do = "await" /\ UNCHANGED <<prog, frames>> BY DEF Suspend, Running
<1>1. cur \in Made /\ Doing[cur] = "await" /\ St[cur] = "started" BY <1>0, Types DEF Doing, RunInv
<1>2. cur \notin Pending BY ZenonT(30), <1>1 DEF PendInv
<1>3. n \in Nat \ {0} /\ sq \in Seq(Sqes(Made)) /\ OnceIn(sq, Made) /\ k \in {1, 2}
  BY DEF TypeInv, OpsInv, Slots
<1>4. cur \notin OpsOf(sq, Made) BY <1>2 DEF Pending, Staged
<1>5. Q(n)!HasCapacity(sq, k) /\ sq' = Q(n)!Stage(sq, cur, k) BY DEF Suspend
<1> HIDE DEF n, k
<1>6. sq' \in Seq(Sqes(Made)) /\ OpsOf(sq', Made) = OpsOf(sq, Made) \cup {cur} /\ OnceIn(sq', Made)
  BY <1>1, <1>3, <1>4, <1>5, StagedOps
<1>7. Made' = Made BY Zenon, <1>0 DEF Made
<1>8. OtherTypes'
  <2>1. OtherTypes BY TypesOfOthers
  <2>2. UNCHANGED <<Made, frames, mpc, tasks, at, calls, inflight, cq, tl_sq_full, refused>> /\ cur' = 0
    BY <1>7 DEF Suspend, ghosts
  <2>3. cur' \in 0 .. Len(frames) BY <2>2, Types
  <2> QED BY Zenon, <1>6, <2>1, <2>2, <2>3 DEF OtherTypes
<1>9. TypeInv' /\ SameFrames BY <1>0, <1>8, TypesSame
<1>10. Staged' = Staged \cup {cur} /\ inflight' = inflight /\ Completed' = Completed
  BY <1>6, <1>7 DEF Staged, Completed, Suspend
<1>11. OpsInv'
  <2>1. OnceIn(sq, Made)' /\ OnceCompleted' BY ZenonT(30), <1>6, <1>7 DEF OnceIn, OnceCompleted, OpsInv, Suspend
  <2> QED BY ZenonT(30), <1>2, <1>10, <2>1 DEF OpsInv, Pending
<1>12. Suspends BY Zenon, <1>0, <1>1, <1>9, <1>10 DEF Suspends, Suspend, Pending, ghosts
<1> QED BY Zenon, <1>9, <1>11, <1>12, SuspendsInv

LEMMA DrainEnterInv ==
  ASSUME CoroutineInv, DrainEnter
  PROVE  CoroutineInv'
<1> USE DEF CoroutineInv
<1> DEFINE n == prog.size
           q == IF eventfd_armed THEN sq ELSE Q(n)!Arm(sq)
           k == Q(n)!Submittable(q)
           r == Q(n)!Remaining(q)
<1>0. n \in Nat \ {0} /\ sq \in Seq(Sqes(Made)) /\ OnceIn(sq, Made) BY DEF TypeInv, OpsInv
<1>1. /\ UNCHANGED <<prog, frames, cur, calls, mpc, tl_sq_full, tasks, cq, refused, killed>>
      /\ at = "enter" /\ at' = "wait" /\ Made' = Made
  BY DEF DrainEnter, Made
<1>2. DOMAIN frames = Made BY SeqFun DEF Made, TypeInv, IsFrames
<1>3. /\ sq' = r
      /\ inflight' = inflight \cup {f \in Made : OpSqe(f) \in Elements(SubSeq(q, 1, k))}
      /\ overwritten' = overwritten \cup {f \in Made : OpSqe(f) \in Elements(sq) \ Elements(q)}
  BY <1>2 DEF DrainEnter, Q!Op, OpSqe
<1> HIDE DEF n
<1>4. q \in Seq(Sqes(Made)) /\ OpsOf(q, Made) \subseteq OpsOf(sq, Made) /\ OnceIn(q, Made)
  <2>1. CASE eventfd_armed BY <1>0, <2>1
  <2>2. CASE ~eventfd_armed
    <3>1. q = Q(n)!Arm(sq) BY <2>2
    <3> QED BY <1>0, <3>1, ArmedOps
  <2> QED BY <2>1, <2>2
<1> HIDE DEF q
<1>5. /\ r \in Seq(Sqes(Made)) /\ OnceIn(r, Made)
      /\ OpsOf(q, Made) = Taken(q, k, Made) \cup OpsOf(r, Made) /\ Taken(q, k, Made) \cap OpsOf(r, Made) = {}
  BY <1>0, <1>4, SubmittedOps
<1> HIDE DEF k, r
<1>6. /\ Staged = OpsOf(sq, Made) /\ Staged' = OpsOf(r, Made) /\ Completed' = Completed
      /\ inflight' = inflight \cup Taken(q, k, Made)
      /\ overwritten' = overwritten \cup (Staged \ OpsOf(q, Made))
  <2>1. Staged = OpsOf(sq, Made) /\ Staged' = OpsOf(r, Made) BY <1>1, <1>3 DEF Staged
  <2>2. Completed' = Completed BY <1>1 DEF Completed
  <2>3. inflight' = inflight \cup Taken(q, k, Made) BY <1>3 DEF Taken
  <2>4. {f \in Made : OpSqe(f) \in Elements(sq) \ Elements(q)} = OpsOf(sq, Made) \ OpsOf(q, Made) BY ZenonT(30) DEF OpsOf
  <2> QED BY ZenonT(30), <1>3, <2>1, <2>2, <2>3, <2>4
<1>7. OtherTypes'
  <2>1. OtherTypes BY TypesOfOthers
  <2>2. Taken(q, k, Made) \subseteq Made BY Zenon DEF Taken
  <2>3. inflight' \subseteq Made /\ sq' \in Seq(Sqes(Made)) BY Zenon, <1>3, <1>5, <1>6, <2>1, <2>2 DEF OtherTypes
  <2> QED BY <1>1, <2>1, <2>3 DEF OtherTypes
<1>8. TypeInv' /\ SameFrames BY <1>1, <1>7, TypesSame
<1>9. OpsInv'
  <2>1. OnceIn(sq, Made)' /\ OnceCompleted' BY ZenonT(30), <1>1, <1>3, <1>5 DEF OnceIn, OnceCompleted, OpsInv
  <2> QED BY Zenon, <1>4, <1>5, <1>6, <2>1 DEF OpsInv
<1>10. Waits
  <2>1. /\ Pending' \subseteq Pending /\ overwritten \subseteq overwritten'
        /\ \A f \in Pending : f \in Pending' \cup overwritten'
    BY <1>4, <1>5, <1>6 DEF Pending
  <2> QED BY ZenonT(30), <1>1, <1>8, <2>1 DEF Waits
<1> QED BY <1>8, <1>9, <1>10, WaitsInv

LEMMA PostedInv ==
  ASSUME CoroutineInv, NEW f, NEW res, Posted(f, res)
  PROVE  CoroutineInv'
<1> USE DEF CoroutineInv
<1> DEFINE e == [awt |-> f, res |-> res]
           t == IF f \in timers THEN <<Null>> ELSE <<>>
<1>0. /\ UNCHANGED <<prog, frames, cur, calls, at, mpc, tl_sq_full, tasks, sq, overwritten, refused, killed>>
      /\ f \in inflight /\ inflight' = inflight \ {f} /\ cq' = Append(cq, e) \o t /\ Made' = Made
  BY DEF Posted, ghosts, Made
<1>1. f \in Made /\ f # 0 /\ f \notin Completed /\ f \notin Staged /\ inflight \subseteq Made /\ 0 \notin Made
  BY <1>0, Types DEF OpsInv
<1>2. e.awt = f /\ t \in {<<>>, <<Null>>} OBVIOUS
<1>3. cq \in Seq(Elements(cq)) /\ \A i \in 1 .. Len(cq) : cq[i] = Null \/ cq[i].awt \in Made BY DEF TypeInv
<1>12. Null.awt = 0 BY DEF Null
<1> HIDE DEF e, t
<1>4. /\ cq' \in Seq(Elements(cq')) /\ Len(cq') \in Nat /\ Len(cq) \in Nat /\ Len(cq) + 1 <= Len(cq')
      /\ cq'[Len(cq) + 1] = e /\ \A i \in 1 .. Len(cq) : cq'[i] = cq[i]
      /\ \A i \in 1 .. Len(cq') : i \in 1 .. Len(cq) \/ i = Len(cq) + 1 \/ cq'[i] = Null
  <2>1. Extends(Append(cq, e) \o t, cq, e) BY Zenon, <1>2, <1>3, CqAppended
  <2>2. Extends(cq', cq, e) BY <1>0, <2>1
  <2> QED BY <2>2 DEF Extends
<1>5. \A i \in 1 .. Len(cq') : cq'[i] = Null \/ cq'[i].awt \in Made BY ZenonT(30), <1>1, <1>2, <1>3, <1>4
<1>6. Completed' = Completed \cup {f}
  <2>1. ASSUME NEW g \in Made, NEW i \in 1 .. Len(cq'), cq'[i].awt = g PROVE g \in Completed \cup {f}
    <3>1. CASE i \in 1 .. Len(cq) BY Zenon, <1>4, <2>1, <3>1 DEF Completed
    <3>2. CASE i = Len(cq) + 1 BY Zenon, <1>2, <1>4, <2>1, <3>2
    <3>3. CASE cq'[i] = Null BY ZenonT(30), <1>1, <1>12, <2>1, <3>3
    <3> QED BY Zenon, <1>4, <3>1, <3>2, <3>3
  <2>2. ASSUME NEW g \in Completed PROVE \E i \in 1 .. Len(cq') : cq'[i].awt = g
    <3>1. PICK i \in 1 .. Len(cq) : cq[i].awt = g BY DEF Completed
    <3>2. i \in 1 .. Len(cq') BY <1>4
    <3> QED BY ZenonT(30), <1>4, <3>1, <3>2
  <2>3. \E i \in 1 .. Len(cq') : cq'[i].awt = f
    <3>1. Len(cq) + 1 \in 1 .. Len(cq') BY <1>4
    <3> QED BY <1>2, <1>4, <3>1
  <2>4. Completed' = {g \in Made : \E i \in 1 .. Len(cq') : cq'[i].awt = g} BY <1>0 DEF Completed
  <2>5. Completed \subseteq Made BY Types
  <2> QED BY ZenonT(30), <1>1, <2>1, <2>2, <2>3, <2>4, <2>5
<1>7. OnceCompleted'
  <2> SUFFICES ASSUME NEW l \in 1 .. Len(cq'), NEW m \in 1 .. Len(cq'), cq'[l].awt = cq'[m].awt, cq'[l].awt # 0
               PROVE  l = m
    BY DEF OnceCompleted
  <2>1. \A i \in 1 .. Len(cq) : cq[i].awt # f BY Zenon, <1>1 DEF Completed
  <2>2. (l \in 1 .. Len(cq) \/ l = Len(cq) + 1) /\ (m \in 1 .. Len(cq) \/ m = Len(cq) + 1) BY ZenonT(30), <1>4, <1>12
  <2>3. CASE l \in 1 .. Len(cq) /\ m \in 1 .. Len(cq) BY ZenonT(30), <1>4, <2>3 DEF OpsInv, OnceCompleted
  <2>4. CASE l = Len(cq) + 1 /\ m \in 1 .. Len(cq) BY ZenonT(30), <1>2, <1>4, <2>1, <2>4
  <2>5. CASE l \in 1 .. Len(cq) /\ m = Len(cq) + 1 BY ZenonT(30), <1>2, <1>4, <2>1, <2>5
  <2> QED BY ZenonT(30), <2>2, <2>3, <2>4, <2>5
<1>8. OtherTypes'
  <2>1. OtherTypes BY TypesOfOthers
  <2>2. inflight' \subseteq Made /\ Null' = Null BY <1>0, <1>1 DEF Null
  <2> QED BY Zenon, <1>0, <1>4, <1>5, <2>1, <2>2 DEF OtherTypes
<1>9. TypeInv' /\ SameFrames BY ZenonT(30), <1>0, <1>8, TypesSame
<1>10. Staged' = Staged /\ Pending' = Pending
  <2>1. Staged' = Staged BY Zenon, <1>0 DEF Staged, OpsOf
  <2> QED BY <1>0, <1>6, <2>1 DEF Pending
<1>11. OpsInv'
  <2>1. OnceIn(sq, Made)' BY <1>0 DEF OnceIn, OpsInv
  <2> QED BY ZenonT(30), <1>0, <1>1, <1>6, <1>7, <1>10, <2>1 DEF OpsInv
<1>13. Waits BY ZenonT(30), <1>0, <1>9, <1>10 DEF Waits
<1> QED BY Zenon, <1>9, <1>11, <1>13, WaitsInv

LEMMA CqeSkippedInv ==
  ASSUME CoroutineInv, CqeSkipped
  PROVE  CoroutineInv'
<1> USE DEF CoroutineInv
<1> DEFINE f == Head(cq).awt
<1>0. /\ UNCHANGED <<prog, frames, cur, calls, at>> /\ at = "cqes" /\ f = 0 BY DEF CqeSkipped, program, Null
<1>1. CqHead(f) BY ZenonT(30) DEF CqeSkipped, CqHead, program, ghosts
<1>2. Made' = Made BY <1>0 DEF Made
<1> HIDE DEF f
<1>3. OpsInv' /\ Pending' = Pending
  <2>1. OpsInv' /\ Pending' = Pending \ {f} BY Zenon, <1>1, <1>2, HeadTaken
  <2>2. f \notin Pending BY ZenonT(30), <1>0, Types
  <2> QED BY <2>1, <2>2
<1>4. /\ Len(frames') = Len(frames) /\ cur' \in 0 .. Len(frames) /\ at' = "cqes"
      /\ calls' \in Seq([by : {"spawn", "drain"}, task : Made, caller : 0 .. Len(frames)])
  BY <1>0 DEF TypeInv
<1>5. OtherTypes' BY Zenon, <1>1, <1>4, HeadTypes
<1>6. TypeInv' /\ SameFrames BY <1>0, <1>5, TypesSame
<1>7. Waits BY <1>0, <1>1, <1>3, <1>6 DEF Waits, CqHead
<1> QED BY Zenon, <1>3, <1>6, <1>7, WaitsInv

LEMMA CqeResumeInv ==
  ASSUME CoroutineInv, CqeResume
  PROVE  CoroutineInv'
<1> USE DEF CoroutineInv
<1> DEFINE f == Head(cq).awt
           c == [by |-> "drain", task |-> Root[f], caller |-> 0]
<1>0. CqHead(f) /\ Head(cq) # Null /\ at = "cqes" /\ prog' = prog BY DEF CqeResume, CqHead, ghosts
<1>1. IF frames[f].st = "started"
      THEN /\ frames' = [frames EXCEPT ![f].pc = @ + 1] /\ cur' = f
           /\ calls' = <<[by |-> "drain", task |-> frames[f].root, caller |-> 0]>> /\ at' = "code"
      ELSE at' = "crashed" /\ UNCHANGED <<frames, cur, calls>>
  BY DEF CqeResume, Yields
<1> HIDE DEF f
<1>2. f \in Completed /\ f \in Pending /\ f \in Made
  <2>1. 1 \in 1 .. Len(cq) /\ Head(cq) = cq[1] /\ f = cq[1].awt
    <3> DEFINE S == Elements(cq)
    <3>1. cq \in Seq(S) /\ cq # <<>> BY Zenon, <1>0 DEF TypeInv, CqHead
    <3> HIDE DEF S
    <3> QED BY <3>1 DEF f
  <2>2. f \in Made BY ZenonT(30), <1>0, <2>1 DEF TypeInv
  <2> QED BY <2>1, <2>2 DEF Completed, Pending
<1>3. frames[f].st = St[f] /\ frames[f].root = Root[f] /\ Root[f] \in Made BY ZenonT(30), <1>2, Types DEF St, Root
<1>4. calls = <<>> BY ZenonT(30), <1>0 DEF RunInv
<1>5. CASE St[f] = "started"
  <2>1. /\ frames' = [frames EXCEPT ![f].pc = @ + 1] /\ cur' = f /\ calls' = <<c>> /\ at' = "code"
    BY ZenonT(30), <1>1, <1>3, <1>5
  <2>2. Child[f] = 0 BY ZenonT(30), <1>2, <1>5 DEF PendInv, TreeInv
  <2>3. Cleared(frames, {}, f) BY <2>2, ClearedNone
  <2>4. Advances({}, f, FALSE) BY Zenon, <1>0, <1>2, <2>1, <2>3, StepAdvances
  <2>5. Len(frames') = Len(frames) /\ Made' = Made BY <2>4 DEF Advances, Made
  <2>6. OpsInv' /\ Pending' = Pending \ {f} BY ZenonT(30), <1>0, <2>5, HeadTaken
  <2>7. Resumes(f) BY Zenon, <1>0, <1>2, <1>4, <1>5, <2>1, <2>4, <2>6 DEF Resumes, CqHead
  <2>8. TreeInv' /\ RunInv' /\ PendInv' /\ FlagInv' BY <2>7, ResumesInv
  <2>9. calls' \in Seq([by : {"spawn", "drain"}, task : Made, caller : 0 .. Len(frames)])
    <3> DEFINE C == [by : {"spawn", "drain"}, task : Made, caller : 0 .. Len(frames)]
    <3>1. c \in C BY <1>3, Types
    <3> HIDE DEF C, c
    <3>2. <<c>> \in Seq(C) BY <3>1
    <3> QED BY ZenonT(30), <2>1, <3>2 DEF C
  <2>10. cur' \in 0 .. Len(frames) BY <1>2, <2>1, Types
  <2>11. OtherTypes' BY Zenon, <1>0, <2>1, <2>5, <2>9, <2>10, HeadTypes
  <2>12. TypeInv' BY ZenonT(30), <1>0, <2>4, <2>11, TypesAfter
  <2> QED BY <2>6, <2>8, <2>12
<1>6. CASE St[f] # "started"
  <2>1. at' = "crashed" /\ UNCHANGED <<frames, cur, calls>> BY <1>1, <1>3, <1>6
  <2>2. Made' = Made BY <2>1 DEF Made
  <2>3. OpsInv' /\ Pending' = Pending \ {f} BY ZenonT(30), <1>0, <2>2, HeadTaken
  <2>4. /\ Len(frames') = Len(frames) /\ cur' \in 0 .. Len(frames)
        /\ calls' \in Seq([by : {"spawn", "drain"}, task : Made, caller : 0 .. Len(frames)])
    BY <2>1 DEF TypeInv
  <2>5. OtherTypes' BY Zenon, <1>0, <2>1, <2>4, HeadTypes
  <2>6. TypeInv' /\ SameFrames BY <1>0, <2>1, <2>5, TypesSame
  <2>7. Waits BY <1>0, <1>6, <2>1, <2>3, <2>6 DEF Waits, CqHead
  <2> QED BY <2>3, <2>6, <2>7, WaitsInv
<1> QED BY ZenonT(30), <1>5, <1>6

LEMMA DrainReturnedInv ==
  ASSUME CoroutineInv, DrainReturned
  PROVE  CoroutineInv'
<1> USE DEF CoroutineInv
<1>0. /\ UNCHANGED <<prog, frames, cur, mpc, tasks, sq, inflight, cq, refused, killed, overwritten>>
      /\ at = "code" /\ cur = 0 /\ Top.by = "drain" /\ calls' = <<>> /\ at' = "cqes" /\ tl_sq_full' = FALSE
  BY DEF DrainReturned, ReturnedTo, Top, ring, ghosts
<1>1. calls # <<>> BY <1>0, TopTypes
<1>2. OtherTypes'
  <2>1. OtherTypes /\ Null' = Null BY TypesOfOthers DEF Null
  <2>2. UNCHANGED <<Made, frames, cur, mpc, tasks, sq, inflight, cq, refused>> BY <1>0 DEF Made
  <2>3. calls' \in Seq([by : {"spawn", "drain"}, task : Made, caller : 0 .. Len(frames)]) BY <1>0
  <2>4. at' = "cqes" /\ tl_sq_full' \in BOOLEAN BY Zenon, <1>0
  <2> QED BY <2>1, <2>2, <2>3, <2>4 DEF OtherTypes
<1>3. TypeInv' /\ SameFrames BY <1>0, <1>2, TypesSame
<1>4. OpsInv' /\ Pending' = Pending BY <1>0, <1>3, RingSame DEF SameFrames
<1>5. Drained BY Zenon, <1>0, <1>1, <1>3, <1>4 DEF Drained
<1> QED BY ZenonT(30), <1>3, <1>4, <1>5, DrainedInv

LEMMA ReapInv ==
  ASSUME CoroutineInv, Reap
  PROVE  CoroutineInv'
<1> USE DEF CoroutineInv
<1> DEFINE done == {t \in tasks : IsDone(t)}
<1>0. /\ UNCHANGED <<prog, cur, calls, sq, inflight, cq, tl_sq_full, refused, killed, overwritten>>
      /\ at = "cqes" /\ frames' = Destroy(frames, done) /\ tasks' = tasks \ done
      /\ at' \in {"main", "enter"} /\ mpc' \in {mpc, mpc + 1}
  BY DEF Reap, ring, ghosts
<1>1. \A t \in done : t \in Made /\ St[t] = "final" BY Types DEF IsDone, St
<1>2. done \subseteq tasks OBVIOUS
<1> HIDE DEF done
<1>3. Owned(frames, done) = done
  <2>1. \A t \in done : Child[t] = 0 BY <1>1 DEF TreeInv
  <2>2. done \in SUBSET Made BY Zenon, <1>1
  <2>3. /\ done \subseteq Owned(frames, done)
        /\ \A C \in SUBSET Made :
             done \subseteq C /\ (\A f \in C : Child[f] \in C \cup {0}) => Owned(frames, done) \subseteq C
    BY <2>2, OwnedSet
  <2>4. Owned(frames, done) \subseteq done BY Zenon, <2>1, <2>2, <2>3
  <2> QED BY ZenonT(30), <2>3, <2>4
<1>4. Advances(done, 0, FALSE)
  <2>1. Advances(Owned(frames, done), 0, FALSE) BY ZenonT(30), <1>0, DestroyAdvances
  <2> QED BY Zenon, <1>3, <2>1
<1>5. Len(frames') = Len(frames) /\ Made' = Made BY <1>4 DEF Advances, Made
<1>6. OpsInv' /\ Pending' = Pending BY ZenonT(30), <1>0, <1>5, RingSame
<1>7. calls = <<>> BY Zenon, <1>0 DEF RunInv
<1>8. Reaps(done) BY Zenon, <1>0, <1>1, <1>2, <1>4, <1>6, <1>7 DEF Reaps
<1>9. OtherTypes'
  <2>1. OtherTypes /\ Null' = Null BY TypesOfOthers DEF Null
  <2>2. mpc' \in Nat \ {0} /\ tasks' \subseteq Made BY <1>0, <2>1 DEF OtherTypes
  <2> QED BY <1>0, <1>5, <2>1, <2>2 DEF OtherTypes
<1>10. TypeInv' BY Zenon, <1>0, <1>4, <1>9, TypesAfter
<1> QED BY ZenonT(30), <1>6, <1>8, <1>10, ReapsInv

-----------------------------------------------------------------------------
(* Every step. *)
LEMMA InitInv ==
  ASSUME Init
  PROVE  CoroutineInv
<1>1. /\ prog.size \in Nat \ {0} /\ Len(prog.main) \in Nat BY ProgramsAssumption DEF Init, Runnable
<1>2. /\ frames = <<>> /\ cur = 0 /\ calls = <<>> /\ at = "main" /\ mpc = 1 /\ tl_sq_full = FALSE /\ tasks = {}
      /\ sq = <<>> /\ inflight = {} /\ cq = <<>> /\ refused = {} /\ killed = {}
      /\ Len(frames) = 0 /\ Len(calls) = 0 /\ Len(sq) = 0 /\ Len(cq) = 0
  BY DEF Init
<1>3. Made = {} /\ 1 .. Len(calls) = {} /\ 1 .. Len(cq) = {} /\ 1 .. Len(sq) = {} /\ 1 .. Len(frames) = {}
  BY <1>2 DEF Made
<1>4. IsFrames(frames) /\ cq \in Seq(Elements(cq)) /\ sq \in Seq(Sqes(Made))
  <2>1. \A S : <<>> \in Seq(S) OBVIOUS
  <2> QED BY <1>2, <1>3, <2>1 DEF IsFrames
<1>5. TypeInv
  <2>1. /\ St \in [Made -> {"started", "final", "freed"}] /\ Root \in [Made -> Made]
        /\ Cont \in [Made -> 0 .. Len(frames)] /\ Child \in [Made -> 0 .. Len(frames)]
    BY <1>3 DEF St, Root, Cont, Child
  <2>2. calls \in Seq([by : {"spawn", "drain"}, task : Made, caller : 0 .. Len(frames)]) BY <1>2
  <2>3. cur \in 0 .. Len(frames) /\ mpc \in Nat \ {0} BY <1>2
  <2>4. tl_sq_full \in BOOLEAN BY Zenon, <1>2
  <2> QED BY Zenon, <1>1, <1>2, <1>3, <1>4, <2>1, <2>2, <2>3, <2>4 DEF TypeInv
<1>6. TreeInv BY <1>2, <1>3 DEF TreeInv
<1>7. RunInv BY <1>2, <1>3 DEF RunInv
<1>8. Staged = {} /\ Completed = {} /\ Pending = {} BY <1>2, <1>3 DEF Staged, Completed, Pending, OpsOf
<1>9. OpsInv BY Zenon, <1>3, <1>8 DEF OpsInv, OnceIn, OnceCompleted
<1>10. PendInv BY Zenon, <1>3, <1>8 DEF PendInv
<1>11. FlagInv BY <1>2, <1>3 DEF FlagInv
<1> QED BY <1>5, <1>6, <1>7, <1>9, <1>10, <1>11 DEF CoroutineInv

(* What main does, but for spawn(). *)
LEMMA MainInv ==
  ASSUME CoroutineInv, \/ AskDone \/ AskResult \/ WriteToPeer \/ ReadFromPeer \/ RequireValues
                       \/ BeginShutdown \/ WaitReturns \/ Connector \/ UNCHANGED vars
  PROVE  CoroutineInv'
<1> USE DEF ring, ghosts, Idles
<1>1. CASE AskDone BY Zenon, <1>1, IdlesInv DEF AskDone, MainDoes, InMain
<1>2. CASE AskResult BY ZenonT(30), <1>2, IdlesInv DEF AskResult, InMain
<1>3. CASE WriteToPeer BY <1>3, IdlesInv DEF WriteToPeer, MainDoes, InMain
<1>4. CASE ReadFromPeer BY Zenon, <1>4, IdlesInv DEF ReadFromPeer, MainDoes, InMain
<1>5. CASE RequireValues BY Zenon, <1>5, IdlesInv DEF RequireValues, InMain
<1>6. CASE BeginShutdown BY ZenonT(30), <1>6, IdlesInv DEF BeginShutdown, InMain
<1>7. CASE WaitReturns BY <1>7, IdlesInv DEF WaitReturns
<1>8. CASE Connector BY <1>8, IdlesInv DEF Connector, program
<1>9. CASE UNCHANGED vars BY <1>9, IdlesInv DEF vars, program
<1> QED BY Zenon, <1>1, <1>2, <1>3, <1>4, <1>5, <1>6, <1>7, <1>8, <1>9

(* No Task is made, moved or resumed by hand. *)
LEMMA NotByHand ==
  ASSUME CoroutineInv, Scheduled, MakeTask \/ MoveTask \/ ResumeTask \/ ResumeReturns
  PROVE  FALSE
<1>1. ASSUME NEW do \in {"make", "move", "resume"}, InMain(do) PROVE FALSE
  <2>1. mpc \in 1 .. Len(prog.main) BY <1>1 DEF InMain, CoroutineInv, TypeInv
  <2> QED BY <1>1, <2>1 DEF InMain, Main, Scheduled
<1>2. ~ReturnedTo("main") BY TopTypes DEF ReturnedTo, Top
<1> QED BY <1>1, <1>2 DEF MakeTask, MoveTask, ResumeTask, ResumeReturns, MainDoes

LEMMA NextInv ==
  ASSUME CoroutineInv, Scheduled, [Next]_vars
  PROVE  CoroutineInv'
<1>1. CASE Suspend BY <1>1, SuspendInv
<1>2. CASE Refuse BY <1>2, RefuseInv
<1>3. CASE CoAwait BY <1>3, CoAwaitInv
<1>4. CASE AwaitResume BY <1>4, AwaitResumeInv
<1>5. CASE Plain BY <1>5, PlainInv
<1>6. CASE \E by \in 0 .. Len(frames) : SpawnFull(by) \/ SpawnResume(by) BY <1>6, SpawnFullInv, SpawnResumeInv
<1>7. CASE SpawnLateThrow \/ SpawnPush BY <1>7, SpawnLateThrowInv, SpawnPushInv
<1>8. CASE MakeTask \/ MoveTask \/ ResumeTask \/ ResumeReturns BY <1>8, NotByHand
<1>9. CASE \/ AskDone \/ AskResult \/ WriteToPeer \/ ReadFromPeer \/ RequireValues
           \/ BeginShutdown \/ WaitReturns \/ Connector \/ UNCHANGED vars
  BY Zenon, <1>9, MainInv
<1>10. CASE DrainEnter BY <1>10, DrainEnterInv
<1>11. CASE \E f \in inflight : Kernel(f) BY <1>11, PostedInv DEF Kernel, Complete, TimeOut
<1>12. CASE CqeSkipped \/ CqeResume \/ DrainReturned \/ Reap
  BY ZenonT(30), <1>12, CqeSkippedInv, CqeResumeInv, DrainReturnedInv, ReapInv
<1> QED BY ZenonT(30), <1>1, <1>2, <1>3, <1>4, <1>5, <1>6, <1>7, <1>8, <1>9, <1>10, <1>11, <1>12 DEF Next, Thread, Ended

LEMMA SameProgram ==
  ASSUME [Next]_vars
  PROVE  prog' = prog
<1> USE DEF Suspend, Refuse, CoAwait, AwaitResume, Plain, SpawnFull, SpawnResume, SpawnLateThrow, SpawnPush
<1> USE DEF MakeTask, MoveTask, AskDone, AskResult, WriteToPeer, ReadFromPeer, RequireValues, ResumeTask
<1> USE DEF ResumeReturns, MainDoes, BeginShutdown, DrainEnter, WaitReturns, CqeSkipped, CqeResume
<1> USE DEF DrainReturned, Reap, Kernel, Complete, TimeOut, Posted, Connector, Ended, vars, program
<1> QED BY Zenon DEF Next, Thread

(* In every program whose main leaves its coroutines to the Scheduler, the *)
(* frames form trees, the resume() calls nest, and an operation belongs to *)
(* a frame that waits for it or that a late SQFull destroyed.              *)
THEOREM Invariant == Spec => [](Scheduled => CoroutineInv)
<1>1. Init => (Scheduled => CoroutineInv) BY InitInv
<1>2. (Scheduled => CoroutineInv) /\ [Next]_vars => (Scheduled => CoroutineInv)'
  <2> SUFFICES ASSUME Scheduled => CoroutineInv, [Next]_vars, Scheduled' PROVE CoroutineInv' OBVIOUS
  <2>1. Scheduled BY SameProgram DEF Scheduled
  <2> QED BY <2>1, NextInv
<1> QED BY <1>1, <1>2, PTL DEF Spec

-----------------------------------------------------------------------------
(* The thread-local flag is clear whenever no coroutine code is on the     *)
(* stack, in a program that resumes no Task by hand: no later spawn()      *)
(* finds what a resume() left.                                             *)
THEOREM FlagIsConsumed == Spec => [](Scheduled => FlagConsumed)
<1>1. CoroutineInv => FlagConsumed
  <2> SUFFICES ASSUME CoroutineInv, at # "code" PROVE ~tl_sq_full BY Zenon DEF FlagConsumed
  <2>1. Len(calls) = 0 BY CallTypes DEF CoroutineInv, RunInv
  <2>2. 1 .. Len(calls) = {} BY <2>1
  <2> QED BY <2>2 DEF CoroutineInv, FlagInv
<1> QED BY <1>1, Invariant, PTL

(* spawn() throws SQFull after the fact only for a task one of whose       *)
(* co_awaits, or of a task it is nested in, was refused; and keeps no task *)
(* that was refused in it unless a nested spawn() took the flag.           *)
THEOREM OnlyNestedSpawnsMisblame == Spec => [](Scheduled => OnlyNestedSpawnMisblames)
<1>1. CoroutineInv => OnlyNestedSpawnMisblames
  <2> SUFFICES ASSUME CoroutineInv PROVE OnlyNestedSpawnMisblames OBVIOUS
  <2>1. \A r : IsRefused(r) => \E spawning \in BOOLEAN : <<r, spawning>> \in refused BY Zenon DEF IsRefused
  <2>2. \A x \in killed : IsRefused(x.task) \/ \E r \in x.by : IsRefused(r) BY DEF CoroutineInv, FlagInv
  <2>3. \A x \in killed : \E r \in {x.task} \cup x.by : \E spawning \in BOOLEAN : <<r, spawning>> \in refused
    BY Zenon, <2>1, <2>2
  <2>4. \A t \in tasks : <<t, TRUE>> \in refused => MisblamedBy(t) BY ZenonT(30) DEF CoroutineInv, FlagInv
  <2> QED BY Zenon, <2>3, <2>4 DEF OnlyNestedSpawnMisblames
<1> QED BY <1>1, Invariant, PTL

(* No handle of task.h dangles: neither what tasks_ or a live frame owns,  *)
(* nor the continuation to which FinalAwaiter transfers control.           *)
THEOREM HandlesAreLive == Spec => [](Scheduled => HandlesLive)
<1>1. CoroutineInv => HandlesLive
  <2> SUFFICES ASSUME CoroutineInv PROVE HandlesLive OBVIOUS
  <2>1. /\ DOMAIN frames = Made
        /\ \A f \in Made : /\ St[f] = frames[f].st /\ Cont[f] = frames[f].cont /\ Child[f] = frames[f].child
                           /\ Doing[f] = Stmt(f).do
    BY FrameDomain
  <2>2. \A t \in tasks : t \in Made /\ St[t] # "freed" BY Types DEF CoroutineInv, TreeInv
  <2>3. ASSUME NEW f \in Made, St[f] # "freed"
        PROVE  /\ Child[f] # 0 => Child[f] \in Made /\ St[Child[f]] # "freed"
               /\ Cont[f] # 0 => /\ Cont[f] \in Made /\ St[Cont[f]] = "started" /\ Child[Cont[f]] = f
                                 /\ Doing[Cont[f]] = "call"
    <3>1. Child[f] \in Made \cup {0} BY Types DEF CoroutineInv
    <3>2. Child[f] # 0 => St[Child[f]] # "freed" BY <2>3 DEF CoroutineInv, TreeInv
    <3>3. Cont[f] # 0 => /\ Cont[f] \in Made /\ St[Cont[f]] = "started" /\ Child[Cont[f]] = f
                         /\ Doing[Cont[f]] = "call"
      BY Zenon, <2>3, Continuation DEF CoroutineInv
    <3> QED BY <3>1, <3>2, <3>3
  <2>4. \A t \in tasks : frames[t].st # "freed" BY ZenonT(30), <2>1, <2>2
  <2>5. ASSUME NEW f \in DOMAIN frames, frames[f].st # "freed"
        PROVE  /\ frames[f].child # 0 => frames[frames[f].child].st # "freed"
               /\ frames[f].cont # 0 =>
                    /\ frames[frames[f].cont].st = "started" /\ frames[frames[f].cont].child = f
                    /\ Stmt(frames[f].cont).do = "call"
    BY <2>1, <2>3, <2>5
  <2> QED BY <2>4, <2>5 DEF HandlesLive
<1> QED BY <1>1, Invariant, PTL

LEMMA WaitsForWhat ==
  ASSUME CoroutineInv, NEW f \in Made
  PROVE  WaitsFor(f) = (IF f \in Staged THEN {"staged"} ELSE {}) \cup (IF f \in inflight THEN {"kernel"} ELSE {})
                       \cup (IF f \in Completed THEN {"completion"} ELSE {})
                       \cup (IF Child[f] # 0 THEN {"inner"} ELSE {})
                       \cup (IF \E i \in 1 .. Len(calls) : calls[i].caller = f THEN {"spawn"} ELSE {})
<1>1. Q(prog.size)!Op(f) \in Elements(sq) <=> f \in Staged BY DEF Q!Op, OpSqe, Staged, OpsOf
<1>2. (\E i \in DOMAIN cq : cq[i].awt = f) <=> f \in Completed BY FrameDomain DEF Completed
<1>3. frames[f].child # 0 <=> Child[f] # 0 BY FrameDomain
<1>4. (\E i \in DOMAIN calls : calls[i].by = "spawn" /\ calls[i].caller = f)
        <=> \E i \in 1 .. Len(calls) : calls[i].caller = f
  <2>1. DOMAIN calls = 1 .. Len(calls) BY ZenonT(30), FrameDomain
  <2>2. \A i \in 1 .. Len(calls) : calls[i].caller = f => calls[i].by = "spawn"
    <3> TAKE i \in 1 .. Len(calls)
    <3> HAVE calls[i].caller = f
    <3>1. calls[i].caller # 0 BY Zenon, Types DEF CoroutineInv
    <3> QED BY ZenonT(30), <3>1, CallersRoots DEF CoroutineInv
  <2> QED BY <2>1, <2>2
<1> HIDE DEF Q!Op
<1> QED BY Zenon, <1>1, <1>2, <1>3, <1>4 DEF WaitsFor

(* Every suspended frame waits for one thing, or for one that the eventfd  *)
(* read was written over.                                                  *)
THEOREM OneReason == Spec => [](Scheduled => OneReasonToWait)
<1>1. CoroutineInv => OneReasonToWait
  <2> SUFFICES ASSUME CoroutineInv, NEW f \in DOMAIN frames, frames[f].st = "started", f # cur
               PROVE  (\A x, y \in WaitsFor(f) : x = y) /\ (WaitsFor(f) = {} => f \in overwritten)
    BY Zenon DEF OneReasonToWait
  <2>1. f \in Made /\ St[f] = "started" BY Zenon, FrameDomain
  <2> DEFINE spawning == \E i \in 1 .. Len(calls) : calls[i].caller = f
  <2>2. WaitsFor(f) = (IF f \in Staged THEN {"staged"} ELSE {}) \cup (IF f \in inflight THEN {"kernel"} ELSE {})
                      \cup (IF f \in Completed THEN {"completion"} ELSE {})
                      \cup (IF Child[f] # 0 THEN {"inner"} ELSE {}) \cup (IF spawning THEN {"spawn"} ELSE {})
    BY Zenon, <2>1, WaitsForWhat
  <2>3. spawning => Doing[f] = "spawn"
    <3> SUFFICES ASSUME NEW i \in 1 .. Len(calls), calls[i].caller = f PROVE Doing[f] = "spawn" OBVIOUS
    <3>1. calls[i].caller # 0 BY Zenon, <2>1, Types DEF CoroutineInv
    <3> QED BY Zenon, <3>1, CallersRoots DEF CoroutineInv
  <2>4. Child[f] # 0 => Doing[f] = "call" BY Zenon, <2>1 DEF CoroutineInv, TreeInv
  <2>5. f \in Pending => Doing[f] = "await" BY Zenon, <2>1 DEF CoroutineInv, PendInv
  <2>6. f \in Pending \cup overwritten \/ Child[f] # 0 \/ spawning BY Zenon, <2>1 DEF CoroutineInv, PendInv
  <2> HIDE DEF spawning
  <2>7. ~(f \in Staged /\ f \in inflight) /\ ~(f \in Staged /\ f \in Completed) /\ ~(f \in inflight /\ f \in Completed)
    BY DEF CoroutineInv, OpsInv
  <2>8. f \in Pending <=> f \in Staged \/ f \in inflight \/ f \in Completed BY DEF Pending
  <2>9. WaitsFor(f) = {} => f \in overwritten BY Zenon, <2>2, <2>6, <2>8
  <2>10. ASSUME NEW x \in WaitsFor(f), NEW y \in WaitsFor(f) PROVE x = y
    <3>1. CASE f \in Pending
      <4>1. Child[f] = 0 /\ ~spawning BY Zenon, <2>3, <2>4, <2>5, <3>1
      <4> QED BY Zenon, <2>2, <2>7, <2>8, <2>10, <3>1, <4>1
    <3>2. CASE f \notin Pending BY Zenon, <2>2, <2>3, <2>4, <2>8, <2>10, <3>2
    <3> QED BY Zenon, <3>1, <3>2
  <2> QED BY <2>9, <2>10
<1> QED BY <1>1, Invariant, PTL

(* An operation outlives its frame only where SpawnLateThrow destroyed the *)
(* task: drain() resumes no other destroyed coroutine.                     *)
THEOREM OnlyLateThrowsCrash == Spec => [](Scheduled => OnlyLateThrowCrashes)
<1>1. CoroutineInv => OnlyLateThrowCrashes
  <2> SUFFICES ASSUME CoroutineInv, NEW f \in DOMAIN frames, frames[f].st = "freed",
                      WaitsFor(f) \cap {"staged", "kernel", "completion"} # {}
               PROVE  \E x \in killed : x.task = frames[f].root
    BY Zenon DEF OnlyLateThrowCrashes
  <2>1. f \in Made /\ St[f] = "freed" /\ Root[f] = frames[f].root BY ZenonT(30), FrameDomain
  <2> DEFINE spawning == \E i \in 1 .. Len(calls) : calls[i].caller = f
  <2>2. WaitsFor(f) = (IF f \in Staged THEN {"staged"} ELSE {}) \cup (IF f \in inflight THEN {"kernel"} ELSE {})
                      \cup (IF f \in Completed THEN {"completion"} ELSE {})
                      \cup (IF Child[f] # 0 THEN {"inner"} ELSE {}) \cup (IF spawning THEN {"spawn"} ELSE {})
    BY <2>1, WaitsForWhat
  <2> HIDE DEF spawning
  <2>3. f \in Pending BY <2>2 DEF Pending
  <2> QED BY <2>1, <2>3 DEF CoroutineInv, PendInv
<1> QED BY <1>1, Invariant, PTL

-----------------------------------------------------------------------------
(* with_timeout() keeps every duration to the millisecond, in a normalised *)
(* timespec if it is not negative and otherwise in one the kernel refuses. *)
THEOREM TimespecExact ==
  \A ms \in Int :
    LET ts == Timespec(ms)
    IN  /\ ts.tv_sec * 1000000000 + ts.tv_nsec = ms * 1000000
        /\ IF ms >= 0 THEN ts.tv_sec >= 0 /\ ts.tv_nsec >= 0 /\ ts.tv_nsec < 1000000000
                      ELSE ts.tv_sec < 0 \/ ts.tv_nsec < 0
<1> TAKE ms \in Int
<1> DEFINE s == Truncate(ms, 1000)
           d == ms - 1000 * s
<1>1. s \in Int /\ d \in Int /\ IF ms >= 0 THEN s >= 0 /\ 0 <= d /\ d <= 999 ELSE s <= 0 /\ -999 <= d /\ d <= 0
  <2>1. CASE ms >= 0
    <3>1. s = ms \div 1000 /\ ms \in Nat BY <2>1 DEF Truncate
    <3> QED BY SMT, <2>1, <3>1
  <2>2. CASE ms < 0
    <3>1. s = -((-ms) \div 1000) BY <2>2 DEF Truncate
    <3> HIDE DEF s
    <3>2. PICK n \in Nat : n = -ms BY SMT, <2>2
    <3>3. PICK q \in Nat : q = n \div 1000 BY SMT
    <3>4. n - 1000 * q >= 0 /\ n - 1000 * q <= 999 BY SMT, <3>3
    <3>5. s = -q /\ ms = -n BY SMT, <3>1, <3>2, <3>3
    <3> QED BY SMT, <2>2, <3>4, <3>5
  <2> QED BY <2>1, <2>2
<1>2. Timespec(ms).tv_sec = s /\ Timespec(ms).tv_nsec = d * 1000000 BY SMT DEF Timespec
<1>3. ms = 1000 * s + d BY SMT, <1>1
<1> HIDE DEF s, d
<1>4. s * 1000000000 + d * 1000000 = ms * 1000000 BY SMT, <1>1, <1>3
<1>5. ASSUME ms >= 0 PROVE s >= 0 /\ d * 1000000 >= 0 /\ d * 1000000 < 1000000000 BY SMT, <1>1, <1>5
<1>6. ASSUME ~(ms >= 0) PROVE s < 0 \/ d * 1000000 < 0
  <2>1. s < 0 \/ d < 0 BY SMT, <1>1, <1>3, <1>6
  <2> QED BY SMT, <1>1, <2>1
<1> QED BY SMT, <1>2, <1>4, <1>5, <1>6

=============================================================================
